--------------------------- MODULE QueryEngineProofs ---------------------------
(***************************************************************************)
(* Proofs about QueryEngine, for every dataset, join, scope and query:     *)
(*  - rows from outside the caller's scope change no answer;               *)
(*  - whatever stages of a pipe are folded into a query, the query means   *)
(*    what the stages do;                                                  *)
(*  - what the database does and what is left to the processor give        *)
(*    together the rows that the query means, and has_more is true.        *)
(* For the last: rows picked in an order, and keys of joined rows; where a *)
(* condition is divided; the rows a statement finds; where a null makes no *)
(* difference; the answer, in each way a query is divided; and the phases  *)
(* of a query.                                                             *)
(***************************************************************************)
EXTENDS QueryEngine, TLAPS, FiniteSetTheorems, WellFoundedInduction

\* Induction, for a set of numbers.
LEMMA AllNumbers ==
  ASSUME NEW S \in SUBSET Nat, 0 \in S, \A n \in S : n + 1 \in S
  PROVE  S = Nat
<1> SUFFICES ASSUME Nat \ S # {} PROVE FALSE
  OBVIOUS
<1> DEFINE T == Nat \ S
<1>1. \E x \in T : \A y \in T : ~ (<<y, x>> \in OpToRel(<, Nat))
  BY NatLessThanWellFounded, WFMin
<1>2. OpToRel(<, Nat) = {p \in Nat \X Nat : p[1] < p[2]}
  BY DEF OpToRel
<1>3. PICK x \in T : \A y \in T : ~ (<<y, x>> \in {p \in Nat \X Nat : p[1] < p[2]})
  BY <1>1, <1>2
<1>4. x # 0 /\ x \in Nat
  OBVIOUS
<1>5. CASE x - 1 \in T
  <2>1. <<x - 1, x>> \in {p \in Nat \X Nat : p[1] < p[2]}
    BY <1>4, <1>5
  <2> QED
    BY <1>3, <1>5, <2>1
<1>6. CASE x - 1 \in S
  <2>1. (x - 1) + 1 \in S
    BY <1>6
  <2> QED
    BY <2>1, <1>4, <1>3
<1> QED
  BY <1>4, <1>5, <1>6

\* The joins of a plan: every dataset has its parts, and every join starts
\* from the first table. What a join is when only rows within the scope
\* are there.
JoinedScope(d) == {c \in host.scope : c.joins /\ c.name \in d.columns}
IsJoins(joins) ==
    /\ joins \in Seq(Range(joins))
    /\ \A n \in DOMAIN joins : IsDataset(joins[n].of) /\ joins[n].at = 1
                               /\ {"of", "alias", "at", "left", "right", "type", "scoped"}
                                      \subseteq DOMAIN joins[n]

LEMMA SeenThroughLike ==
  ASSUME NEW joins, IsJoins(joins)
  PROVE  /\ DOMAIN SeenThrough(joins) = DOMAIN joins
         /\ Len(SeenThrough(joins)) = Len(joins)
         /\ SeenThrough(joins) \in Seq(Range(SeenThrough(joins)))
         /\ \A n \in DOMAIN joins :
               /\ SeenThrough(joins)[n].alias = joins[n].alias
               /\ SeenThrough(joins)[n].type = joins[n].type
               /\ SeenThrough(joins)[n].left = joins[n].left
               /\ SeenThrough(joins)[n].right = joins[n].right
               /\ SeenThrough(joins)[n].scoped = joins[n].scoped
               /\ SeenThrough(joins)[n].at = 1
               /\ SeenThrough(joins)[n].of = SeenJoined(joins[n].of)
               /\ SeenThrough(joins)[n].of.columns = joins[n].of.columns
               /\ SeenThrough(joins)[n].of.rows =
                    Within(joins[n].of.rows, JoinedScope(joins[n].of))
<1>1. /\ DOMAIN joins = 1..Len(joins) /\ Len(joins) \in Nat
      /\ \A n \in DOMAIN joins : IsDataset(joins[n].of) /\ joins[n].at = 1
                               /\ {"of", "alias", "at", "left", "right", "type", "scoped"}
                                      \subseteq DOMAIN joins[n]
  BY DEF IsJoins
<1>2. DOMAIN SeenThrough(joins) = DOMAIN joins
  BY DEF SeenThrough
<1>3. SeenThrough(joins) \in Seq(Range(SeenThrough(joins))) /\ Len(SeenThrough(joins)) = Len(joins)
  BY <1>1 DEF SeenThrough, Range
<1>4. ASSUME NEW n \in DOMAIN joins
      PROVE  /\ SeenThrough(joins)[n].alias = joins[n].alias
             /\ SeenThrough(joins)[n].type = joins[n].type
             /\ SeenThrough(joins)[n].left = joins[n].left
             /\ SeenThrough(joins)[n].right = joins[n].right
             /\ SeenThrough(joins)[n].scoped = joins[n].scoped
             /\ SeenThrough(joins)[n].at = 1
             /\ SeenThrough(joins)[n].of = SeenJoined(joins[n].of)
  BY <1>1 DEF SeenThrough
<1>5. ASSUME NEW d, IsDataset(d)
      PROVE  /\ SeenJoined(d).columns = d.columns
             /\ SeenJoined(d).rows =
                      Within(d.rows, JoinedScope(d))
  BY <1>5 DEF SeenJoined, IsDataset, JoinedScope
<1> QED
  BY <1>1, <1>2, <1>3, <1>4, <1>5

\* A key has a place for each table, and a join makes it longer by one.
IsKey(key, width) == key = [k \in 1..width |-> key[k]]

Longer(key, p) == Append(key, p)

LEMMA LongerAt ==
  ASSUME NEW key, NEW p, NEW width \in Nat, IsKey(key, width)
  PROVE  /\ IsKey(Longer(key, p), width + 1)
         /\ Longer(key, p)[width + 1] = p
         /\ \A k \in 1..width : Longer(key, p)[k] = key[k]
<1> DEFINE T == {key[k] : k \in 1..width} \cup {p}
<1>1. key \in Seq(T) /\ Len(key) = width
  <2>1. key \in [1..width -> T]
    BY DEF IsKey
  <2> QED
    BY <2>1
<1>2. p \in T
  OBVIOUS
<1> HIDE DEF T
<1>3. Append(key, p) \in Seq(T) /\ Len(Append(key, p)) = width + 1
  BY <1>1, <1>2
<1>4. Append(key, p)[width + 1] = p /\ \A k \in 1..width : Append(key, p)[k] = key[k]
  BY <1>1, <1>2
<1>5. IsKey(Append(key, p), width + 1)
  BY <1>3 DEF IsKey
<1> QED
  BY <1>4, <1>5 DEF Longer

\* The keys of a statement, join by join.
LEMMA KeysUnfold ==
  ASSUME NEW data, NEW joins, joins \in Seq(Range(joins))
  PROVE  \E upTo :
            /\ Keys(data, joins) = upTo[Len(joins)]
            /\ upTo[0] = {<<p>> : p \in DOMAIN data}
            /\ \A n \in 1..Len(joins) :
                  upTo[n] = JoinedTo(Sources(data, joins), upTo[n - 1], joins[n], n)
<1> DEFINE A == {<<p>> : p \in DOMAIN data}
           S == Sources(data, joins)
           P(m) == \E f : f = [n \in 0..m |-> IF n = 0 THEN A
                                           ELSE JoinedTo(S, f[n - 1], joins[n], n)]
<1>1. Len(joins) \in Nat
  OBVIOUS
<1> HIDE DEF A, S
<1>2. P(0)
  <2> DEFINE f == [n \in 0..0 |-> A]
  <2>1. f = [n \in 0..0 |-> IF n = 0 THEN A ELSE JoinedTo(S, f[n - 1], joins[n], n)]
    OBVIOUS
  <2> QED
    BY <2>1
<1>3. ASSUME NEW m \in Nat, P(m)
      PROVE  P(m + 1)
  <2>1. PICK f : f = [n \in 0..m |-> IF n = 0 THEN A
                                      ELSE JoinedTo(S, f[n - 1], joins[n], n)]
    BY <1>3
  <2> DEFINE g == [n \in 0..(m + 1) |-> IF n = m + 1 THEN JoinedTo(S, f[m], joins[n], n)
                                        ELSE f[n]]
  <2>2. ASSUME NEW n \in 0..(m + 1)
        PROVE  g[n] = IF n = 0 THEN A ELSE JoinedTo(S, g[n - 1], joins[n], n)
    <3>1. CASE n = 0
      BY <3>1, <2>1
    <3>2. CASE n = m + 1
      <4>1. g[n - 1] = f[m] /\ n # 0
        BY <3>2
      <4> QED
        BY <3>2, <4>1
    <3>3. CASE n # 0 /\ n # m + 1
      <4>1. n \in 0..m /\ n - 1 \in 0..m /\ n - 1 # m + 1
        BY <3>3
      <4>2. f[n] = JoinedTo(S, f[n - 1], joins[n], n)
        BY <2>1, <4>1, <3>3
      <4>3. g[n] = f[n] /\ g[n - 1] = f[n - 1]
        BY <4>1, <3>3
      <4> QED
        BY <4>2, <4>3, <3>3
    <3> QED
      BY <3>1, <3>2, <3>3
  <2>3. g = [n \in 0..(m + 1) |-> g[n]]
    OBVIOUS
  <2> HIDE DEF g
  <2>4. g = [n \in 0..(m + 1) |-> IF n = 0 THEN A ELSE JoinedTo(S, g[n - 1], joins[n], n)]
    BY <2>2, <2>3
  <2> QED
    BY <2>4
<1>4. \A m \in Nat : P(m)
  <2> HIDE DEF P
  <2> DEFINE N == {m \in Nat : P(m)}
  <2>1. N \in SUBSET Nat /\ 0 \in N /\ \A n \in N : n + 1 \in N
    BY <1>2, <1>3
  <2>2. N = Nat
    <3> HIDE DEF N
    <3> QED
      BY <2>1, AllNumbers
  <2> QED
    BY <2>2
<1> DEFINE upTo == CHOOSE f : f = [n \in 0..Len(joins) |-> IF n = 0 THEN A
                                  ELSE JoinedTo(S, f[n - 1], joins[n], n)]
<1>5. upTo = [n \in 0..Len(joins) |-> IF n = 0 THEN A
                                  ELSE JoinedTo(S, upTo[n - 1], joins[n], n)]
  BY <1>1, <1>4
<1>6. Keys(data, joins) = upTo[Len(joins)]
  BY DEF Keys, A, S
<1> HIDE DEF upTo
<1>7. upTo[0] = A /\ \A n \in 1..Len(joins) : upTo[n] = JoinedTo(S, upTo[n - 1], joins[n], n)
  BY <1>1, <1>5
<1> QED
  BY <1>6, <1>7 DEF A, S

\* One join, seen through its first table: the keys whose first row is
\* within a scope come from such keys, unless an outer join brings a row
\* without partner and the scope lets a row of nothing through.
First(src, key) == RowsAt(src, key)[1]
Scoped(src, keys, scope) == {key \in keys : Inside(First(src, key), scope)}
Partners(src, key, j) ==
    {p \in DOMAIN j.of.rows : OnHolds(j, RowsAt(src, key), j.of.rows[p])}
Lone(src, keys, j) ==
    {p \in DOMAIN j.of.rows : \A key \in keys : p \notin Partners(src, key, j)}
LoneKey(p, width) == [k \in 1..(width + 1) |-> IF k = width + 1 THEN p ELSE NoPlace]

LEMMA FirstOfJoined ==
  ASSUME NEW src, NEW width \in Nat \ {0}, NEW key, IsKey(key, width), NEW p
  PROVE  First(src, Longer(key, p)) = First(src, key)
<1>0. width \in Nat
  OBVIOUS
<1>1. IsKey(Longer(key, p), width + 1)
  BY <1>0, LongerAt
<1>2. 1 \in 1..width /\ 1 \in 1..(width + 1)
  OBVIOUS
<1>11. Longer(key, p)[1] = key[1]
  BY <1>0, <1>2, LongerAt
<1>3. DOMAIN key = 1..width /\ DOMAIN Longer(key, p) = 1..(width + 1)
  BY <1>1 DEF IsKey
<1> QED
  BY <1>1, <1>11, <1>2, <1>3 DEF First, RowsAt

LEMMA FirstOfLone ==
  ASSUME NEW src, NEW width \in Nat \ {0}, NEW p
  PROVE  First(src, LoneKey(p, width)) = NoRow
<1>1. 1 \in 1..(width + 1) /\ 1 # width + 1
  OBVIOUS
<1> QED
  BY <1>1 DEF First, RowsAt, LoneKey

\* Where a key in the scope may come from.
Comes(src, keys, j, width, scope, x) ==
    \/ \E key \in Scoped(src, keys, scope) :
          \E p \in Partners(src, key, j) : x = Longer(key, p)
    \/ /\ j.type \in {"left", "full"}
       /\ \E key \in Scoped(src, keys, scope) :
             Partners(src, key, j) = {} /\ x = Longer(key, NoPlace)
    \/ /\ j.type \in {"right", "full"}
       /\ Inside(NoRow, scope)
       /\ \E p \in Lone(src, keys, j) : x = LoneKey(p, width)

LEMMA ScopedJoin ==
  ASSUME NEW src, NEW keys, NEW j, NEW width \in Nat \ {0}, NEW scope,
         \A key \in keys : IsKey(key, width), NEW x
  PROVE  /\ x \in Scoped(src, JoinedTo(src, keys, j, width), scope) <=> Comes(src, keys, j, width, scope, x)
         /\ x \in JoinedTo(src, keys, j, width) => IsKey(x, width + 1)
<1>1. x \in JoinedTo(src, keys, j, width) <=>
                \/ \E key \in keys :
                      \E p \in Partners(src, key, j) : x = Longer(key, p)
                \/ /\ j.type \in {"left", "full"}
                   /\ \E key \in keys :
                         Partners(src, key, j) = {} /\ x = Longer(key, NoPlace)
                \/ /\ j.type \in {"right", "full"}
                   /\ \E p \in Lone(src, keys, j) : x = LoneKey(p, width)
  BY DEF JoinedTo, Partners, Lone, LoneKey, Longer
<1>2. \A key \in keys : \A p : First(src, Longer(key, p)) = First(src, key)
                              /\ IsKey(Longer(key, p), width + 1)
  BY FirstOfJoined, LongerAt
<1>3. \A p : First(src, LoneKey(p, width)) = NoRow /\ IsKey(LoneKey(p, width), width + 1)
  <2>1. \A p : IsKey(LoneKey(p, width), width + 1)
    BY DEF IsKey, LoneKey
  <2> QED
    BY <2>1, FirstOfLone
<1>4. x \in JoinedTo(src, keys, j, width) => IsKey(x, width + 1)
  BY <1>1, <1>2, <1>3
<1>5. x \in Scoped(src, JoinedTo(src, keys, j, width), scope) <=>
        x \in JoinedTo(src, keys, j, width) /\ Inside(First(src, x), scope)
  BY DEF Scoped
<1>6. \A key : key \in Scoped(src, keys, scope) <=> key \in keys /\ Inside(First(src, key), scope)
  BY DEF Scoped
<1>7. ASSUME x \in Scoped(src, JoinedTo(src, keys, j, width), scope)
      PROVE  Comes(src, keys, j, width, scope, x)
  BY <1>1, <1>2, <1>3, <1>5, <1>6, <1>7, Zenon DEF Comes
<1>8. ASSUME Comes(src, keys, j, width, scope, x)
      PROVE  x \in Scoped(src, JoinedTo(src, keys, j, width), scope)
  <2>1. CASE \E key \in Scoped(src, keys, scope) :
               \E p \in Partners(src, key, j) : x = Longer(key, p)
    BY <1>1, <1>2, <1>5, <1>6, <2>1
  <2>2. CASE /\ j.type \in {"left", "full"}
             /\ \E key \in Scoped(src, keys, scope) :
                   Partners(src, key, j) = {} /\ x = Longer(key, NoPlace)
    BY <1>1, <1>2, <1>5, <1>6, <2>2
  <2>3. CASE /\ j.type \in {"right", "full"}
             /\ Inside(NoRow, scope)
             /\ \E p \in Lone(src, keys, j) : x = LoneKey(p, width)
    BY <1>1, <1>3, <1>5, <2>3
  <2> QED
    BY <1>8, <2>1, <2>2, <2>3, Zenon DEF Comes
<1> QED
  BY <1>4, <1>7, <1>8

\* The tables as they are, and as the caller sees them. The scope reaches
\* every table, and the statement was not refused: the columns of the
\* scope on the dataset are there.
LEMMA SourcesAt ==
  ASSUME NEW data, NEW joins, joins \in Seq(Range(joins))
  PROVE  /\ Sources(data, joins)[1] = data
         /\ \A n \in 1..Len(joins) : Sources(data, joins)[n + 1] = joins[n].of.rows
<1> DEFINE rest == [n \in DOMAIN joins |-> joins[n].of.rows]
           T == {rest[n] : n \in DOMAIN joins} \cup {data}
<1>1. DOMAIN joins = 1..Len(joins) /\ Len(joins) \in Nat
  OBVIOUS
<1>2. rest \in Seq(T) /\ Len(rest) = Len(joins)
  BY <1>1
<1>3. <<data>> \in Seq(T) /\ Len(<<data>>) = 1 /\ <<data>>[1] = data
  OBVIOUS
<1>4. \A n \in 1..Len(joins) : rest[n] = joins[n].of.rows
  BY <1>1
<1> HIDE DEF rest, T
<1>5. (<<data>> \o rest)[1] = data
  BY <1>2, <1>3
<1>6. ASSUME NEW n \in 1..Len(joins)
      PROVE  (<<data>> \o rest)[n + 1] = joins[n].of.rows
  BY <1>1, <1>2, <1>3, <1>4
<1> QED
  BY <1>5, <1>6 DEF Sources, rest

Wanted(joins) ==
    /\ IsDataset(dataset)
    /\ IsJoins(joins)
    /\ ScopeReaches(joins)
    /\ \A c \in ScopedBy(dataset) : c.name \in dataset.columns
    /\ \A c \in host.scope : c.value # Null
All(joins) == Sources(dataset.rows, joins)
Part(joins) == Sources(SeenIn(dataset), SeenThrough(joins))

LEMMA PartOfAll ==
  ASSUME NEW joins, Wanted(joins)
  PROVE  /\ SeenIn(dataset) = Within(dataset.rows, ScopedBy(dataset))
         /\ All(joins)[1] = dataset.rows
         /\ Part(joins)[1] = Within(dataset.rows, ScopedBy(dataset))
         /\ \A n \in 1..Len(joins) :
               /\ All(joins)[n + 1] = joins[n].of.rows
               /\ Part(joins)[n + 1] = SeenThrough(joins)[n].of.rows
               /\ SeenThrough(joins)[n].of.rows =
                    Within(joins[n].of.rows, JoinedScope(joins[n].of))
<1>1. IsJoins(joins) /\ joins \in Seq(Range(joins))
  BY DEF Wanted, IsJoins
<1>2. DOMAIN joins = 1..Len(joins)
  BY <1>1
<1>3. {c \in host.scope : c.name \in dataset.columns} = ScopedBy(dataset)
  BY DEF Wanted, ScopeReaches, ScopedBy
<1>4. SeenIn(dataset) = Within(dataset.rows, ScopedBy(dataset))
  BY <1>3 DEF SeenIn
<1>5. All(joins)[1] = dataset.rows
      /\ \A n \in 1..Len(joins) : All(joins)[n + 1] = joins[n].of.rows
  BY <1>1, SourcesAt DEF All
<1>6. /\ SeenThrough(joins) \in Seq(Range(SeenThrough(joins)))
      /\ Len(SeenThrough(joins)) = Len(joins)
      /\ \A n \in DOMAIN joins : SeenThrough(joins)[n].of.rows =
                      Within(joins[n].of.rows, JoinedScope(joins[n].of))
  BY <1>1, SeenThroughLike
<1>7. Part(joins)[1] = SeenIn(dataset)
      /\ \A n \in 1..Len(joins) : Part(joins)[n + 1] = SeenThrough(joins)[n].of.rows
  BY <1>6, SourcesAt DEF Part
<1> QED
  BY <1>2, <1>4, <1>5, <1>6, <1>7

\* Rows in a scope keep their places.
LEMMA WithinAt ==
  ASSUME NEW data, NEW scope
  PROVE  /\ \A p : p \in DOMAIN Within(data, scope) <=>
                     p \in DOMAIN data /\ Inside(data[p], scope)
         /\ \A p \in DOMAIN Within(data, scope) : Within(data, scope)[p] = data[p]
BY DEF Within, Restrict

\* A key of what the caller sees: every place it has is a row the caller
\* sees. Such a key stands for the same rows on both sides.
Good(joins, key) ==
    \A k \in DOMAIN key : key[k] = NoPlace \/ key[k] \in DOMAIN Part(joins)[k]

LEMMA GoodRows ==
  ASSUME NEW joins, Wanted(joins), NEW width \in 1..(Len(joins) + 1),
         NEW key, IsKey(key, width), Good(joins, key)
  PROVE  RowsAt(All(joins), key) = RowsAt(Part(joins), key)
<1>0. Len(joins) \in Nat
  BY DEF Wanted, IsJoins
<1>1. DOMAIN key = 1..width
  BY DEF IsKey
<1>2. ASSUME NEW k \in 1..width, key[k] # NoPlace
      PROVE  All(joins)[k][key[k]] = Part(joins)[k][key[k]]
  <2>1. key[k] \in DOMAIN Part(joins)[k]
    BY <1>1, <1>2 DEF Good
  <2>2. CASE k = 1
    <3>1. Part(joins)[1] = Within(dataset.rows, ScopedBy(dataset)) /\ All(joins)[1] = dataset.rows
      BY PartOfAll
    <3> QED
      BY <2>1, <2>2, <3>1, WithinAt
  <2>3. CASE k # 1
    <3>1. k - 1 \in 1..Len(joins) /\ (k - 1) + 1 = k
      BY <1>0, <2>3
    <3>2. All(joins)[k] = joins[k - 1].of.rows
          /\ Part(joins)[k] = Within(joins[k - 1].of.rows, JoinedScope(joins[k - 1].of))
      BY <3>1, PartOfAll
    <3> QED
      BY <2>1, <3>2, WithinAt
  <2> QED
    BY <2>2, <2>3
<1> QED
  BY <1>1, <1>2 DEF RowsAt

\* A row that may be joined is one the caller sees: the scope is part of
\* ON.
LEMMA PartnersSame ==
  ASSUME NEW joins, Wanted(joins), NEW width \in 1..Len(joins),
         NEW key, IsKey(key, width), Good(joins, key)
  PROVE  /\ Partners(All(joins), key, joins[width])
              = Partners(Part(joins), key, SeenThrough(joins)[width])
         /\ Partners(Part(joins), key, SeenThrough(joins)[width])
              \subseteq DOMAIN Part(joins)[width + 1]
<1> DEFINE j == joins[width]
           i == SeenThrough(joins)[width]
<1>1. width \in 1..(Len(joins) + 1) /\ width \in DOMAIN joins
  BY DEF Wanted, IsJoins
<1>2. RowsAt(All(joins), key) = RowsAt(Part(joins), key)
  BY <1>1, GoodRows
<1>3. /\ i.left = j.left /\ i.right = j.right /\ i.scoped = j.scoped /\ i.at = j.at
      /\ i.of.columns = j.of.columns
  BY <1>1, SeenThroughLike DEF Wanted, IsJoins
<1>4. Part(joins)[width + 1] = i.of.rows
      /\ i.of.rows = Within(j.of.rows, JoinedScope(j.of))
  BY PartOfAll
<1>5. \A c \in host.scope : c.joins /\ c.name \in j.of.columns => c.name \in j.scoped
  BY <1>1 DEF Wanted, ScopeReaches
<1>6. \A t, row : OnHolds(i, t, row) = OnHolds(j, t, row)
  BY <1>3 DEF OnHolds, OnKeys
<1>7. \A t, row : OnHolds(j, t, row) =>
          Inside(row, JoinedScope(j.of))
  BY <1>5 DEF OnHolds, Inside, JoinedScope
<1> HIDE DEF i, j
<1>8. /\ \A p : p \in DOMAIN i.of.rows <=>
                  p \in DOMAIN j.of.rows /\ Inside(j.of.rows[p], JoinedScope(j.of))
      /\ \A p \in DOMAIN i.of.rows : i.of.rows[p] = j.of.rows[p]
  BY <1>4, WithinAt
<1>9. Partners(All(joins), key, j) = Partners(Part(joins), key, i)
  BY <1>2, <1>6, <1>7, <1>8 DEF Partners
<1>10. Partners(Part(joins), key, i) \subseteq DOMAIN i.of.rows
  BY DEF Partners
<1> QED
  BY <1>4, <1>9, <1>10 DEF i, j

\* Join by join, the keys whose first row the caller sees are the same,
\* whether the tables have the rows of others or not.
Alike(joins, width, keys, others) ==
    /\ \A key \in keys \cup others : IsKey(key, width)
    /\ Scoped(All(joins), keys, ScopedBy(dataset))
          = Scoped(Part(joins), others, ScopedBy(dataset))
    /\ \A key \in Scoped(All(joins), keys, ScopedBy(dataset)) : Good(joins, key)

\* A row of nothing is outside every scope that asks for something.
LEMMA NoRowOutside ==
  ASSUME NEW joins, Wanted(joins), ScopedBy(dataset) # {}
  PROVE  ~Inside(NoRow, ScopedBy(dataset))
<1>1. PICK c \in ScopedBy(dataset) : c \in host.scope /\ c.value # Null
  BY DEF Wanted, ScopedBy
<1>2. Get(NoRow, c.name) = Null \/ DOMAIN NoRow # {}
  BY DEF Get
<1>3. DOMAIN NoRow = {}
  BY DEF NoRow
<1> QED
  BY <1>1, <1>2, <1>3 DEF Inside

LEMMA LongerGood ==
  ASSUME NEW joins, Wanted(joins), NEW width \in 1..Len(joins), NEW key, IsKey(key, width),
         Good(joins, key), NEW p, p = NoPlace \/ p \in DOMAIN Part(joins)[width + 1]
  PROVE  Good(joins, Longer(key, p))
<1>0. width \in Nat
  BY DEF Wanted, IsJoins
<1>1. IsKey(Longer(key, p), width + 1)
      /\ Longer(key, p)[width + 1] = p
      /\ \A k \in 1..width : Longer(key, p)[k] = key[k]
  BY <1>0, LongerAt
<1>2. DOMAIN Longer(key, p) = 1..(width + 1) /\ DOMAIN key = 1..width
  BY <1>1 DEF IsKey
<1>3. \A k \in 1..(width + 1) : k \in 1..width \/ k = width + 1
  BY <1>0
<1> QED
  BY <1>1, <1>2, <1>3 DEF Good

\* One join more. A joined row without a partner comes with no row of the
\* first table, which is in the scope only if the scope asks for nothing;
\* then the caller sees every row.
LEMMA JoinAlike ==
  ASSUME NEW joins, Wanted(joins), NEW width \in 1..Len(joins), NEW keys, NEW others,
         Alike(joins, width, keys, others)
  PROVE  Alike(joins, width + 1,
               JoinedTo(All(joins), keys, joins[width], width),
               JoinedTo(Part(joins), others, SeenThrough(joins)[width], width))
<1> DEFINE scope == ScopedBy(dataset)
           j == joins[width]
           i == SeenThrough(joins)[width]
           S == Scoped(All(joins), keys, scope)
           one == JoinedTo(All(joins), keys, j, width)
           two == JoinedTo(Part(joins), others, i, width)
<1>0. width \in Nat \ {0} /\ width \in DOMAIN joins
  BY DEF Wanted, IsJoins
<1>1. i.type = j.type
  BY <1>0, SeenThroughLike DEF Wanted, IsJoins
<1>2. /\ \A key \in keys : IsKey(key, width)
      /\ \A key \in others : IsKey(key, width)
      /\ S = Scoped(Part(joins), others, scope)
      /\ \A key \in S : IsKey(key, width) /\ Good(joins, key)
  BY DEF Alike, Scoped
<1>3. \A key \in S : /\ Partners(All(joins), key, j) = Partners(Part(joins), key, i)
                      /\ Partners(Part(joins), key, i) \subseteq DOMAIN Part(joins)[width + 1]
  BY <1>2, PartnersSame
<1>4. j.type \in {"right", "full"} /\ Inside(NoRow, scope) =>
        /\ Lone(All(joins), keys, j) = Lone(Part(joins), others, i)
        /\ Lone(Part(joins), others, i) \subseteq DOMAIN Part(joins)[width + 1]
  <2> SUFFICES ASSUME j.type \in {"right", "full"}, Inside(NoRow, scope)
               PROVE  /\ Lone(All(joins), keys, j) = Lone(Part(joins), others, i)
                      /\ Lone(Part(joins), others, i) \subseteq DOMAIN Part(joins)[width + 1]
    OBVIOUS
  <2>1. scope = {}
    BY NoRowOutside
  <2>2. host.scope = {}
    BY <1>0, <2>1 DEF Wanted, ScopeReaches
  <2>3. S = keys /\ S = others
    BY <1>2, <2>1 DEF Scoped, Inside
  <2>4. /\ Part(joins)[width + 1] = i.of.rows
        /\ i.of.rows = Within(j.of.rows, JoinedScope(j.of))
    BY PartOfAll
  <2>5. \A row : Inside(row, JoinedScope(j.of))
    BY <2>2 DEF Inside, JoinedScope
  <2> HIDE DEF S, i, j
  <2>6. \A p : p \in DOMAIN i.of.rows <=> p \in DOMAIN j.of.rows
    BY <2>4, <2>5, WithinAt
  <2>7. Lone(All(joins), keys, j) = Lone(Part(joins), others, i)
    BY <1>3, <2>3, <2>6 DEF Lone
  <2> QED
    BY <2>4, <2>7 DEF Lone
<1> HIDE DEF S, i, j, scope
<1>5. ASSUME NEW x
      PROVE  /\ x \in Scoped(All(joins), one, scope) <=> Comes(All(joins), keys, j, width, scope, x)
             /\ x \in one => IsKey(x, width + 1)
  BY <1>0, <1>2, ScopedJoin
<1>6. ASSUME NEW x
      PROVE  /\ x \in Scoped(Part(joins), two, scope)
                   <=> Comes(Part(joins), others, i, width, scope, x)
             /\ x \in two => IsKey(x, width + 1)
  BY <1>0, <1>2, ScopedJoin
<1> HIDE DEF one, two
<1>7. ASSUME NEW x
      PROVE  x \in Scoped(All(joins), one, scope) <=> x \in Scoped(Part(joins), two, scope)
  <2>1. Comes(All(joins), keys, j, width, scope, x)
          <=> Comes(Part(joins), others, i, width, scope, x)
    BY <1>1, <1>2, <1>3, <1>4 DEF Comes, S
  <2> QED
    BY <2>1, <1>5, <1>6
<1>8. ASSUME NEW x \in Scoped(All(joins), one, scope)
      PROVE  Good(joins, x)
  <2>1. CASE \E key \in S : \E p \in Partners(All(joins), key, j) : x = Longer(key, p)
    BY <2>1, <1>2, <1>3, LongerGood
  <2>2. CASE \E key \in S : x = Longer(key, NoPlace)
    BY <2>2, <1>2, LongerGood
  <2>3. CASE /\ j.type \in {"right", "full"}
             /\ Inside(NoRow, scope)
             /\ \E p \in Lone(All(joins), keys, j) : x = LoneKey(p, width)
    <3>1. PICK p \in DOMAIN Part(joins)[width + 1] : x = LoneKey(p, width)
      BY <1>4, <2>3
    <3> QED
      BY <3>1 DEF Good, LoneKey
  <2> QED
    BY <1>5, <2>1, <2>2, <2>3 DEF Comes, S
<1>9. \A key \in one \cup two : IsKey(key, width + 1)
  BY <1>5, <1>6
<1>10. Scoped(All(joins), one, scope) = Scoped(Part(joins), two, scope)
  BY <1>7 DEF Scoped
<1>11. Alike(joins, width + 1, one, two)
  BY <1>8, <1>9, <1>10 DEF Alike, scope
<1> QED
  BY <1>11 DEF one, two, i, j

\* Before the first join.
LEMMA TablesAlike ==
  ASSUME NEW joins, Wanted(joins)
  PROVE  Alike(joins, 1, {<<p>> : p \in DOMAIN dataset.rows},
               {<<p>> : p \in DOMAIN SeenIn(dataset)})
<1> DEFINE scope == ScopedBy(dataset)
           keys == {<<p>> : p \in DOMAIN dataset.rows}
           others == {<<p>> : p \in DOMAIN SeenIn(dataset)}
<1>1. \A p : IsKey(<<p>>, 1) /\ DOMAIN <<p>> = 1..1 /\ <<p>>[1] = p
  BY DEF IsKey
<1>2. ASSUME NEW src, NEW p
      PROVE  First(src, <<p>>) = IF p = NoPlace THEN NoRow ELSE src[1][p]
  BY DEF First, RowsAt
<1>3. /\ All(joins)[1] = dataset.rows
      /\ Part(joins)[1] = SeenIn(dataset)
      /\ SeenIn(dataset) = Within(dataset.rows, scope)
  BY PartOfAll
<1>4. Inside(NoRow, scope) => scope = {}
  BY NoRowOutside
<1>5. \A row : scope = {} => Inside(row, scope)
  BY DEF Inside
<1> HIDE DEF scope
<1>6. /\ \A p : p \in DOMAIN SeenIn(dataset)
                  <=> p \in DOMAIN dataset.rows /\ Inside(dataset.rows[p], scope)
      /\ \A p \in DOMAIN SeenIn(dataset) : SeenIn(dataset)[p] = dataset.rows[p]
  BY <1>3, WithinAt
<1>7. \A p : /\ p \in DOMAIN dataset.rows /\ Inside(First(All(joins), <<p>>), scope)
                 <=> p \in DOMAIN SeenIn(dataset) /\ Inside(First(Part(joins), <<p>>), scope)
             /\ p \in DOMAIN SeenIn(dataset) => Good(joins, <<p>>)
  <2> TAKE p
  <2>1. p \in DOMAIN dataset.rows /\ Inside(First(All(joins), <<p>>), scope)
                 <=> p \in DOMAIN SeenIn(dataset) /\ Inside(First(Part(joins), <<p>>), scope)
    <3>1. CASE p = NoPlace
      BY <3>1, <1>2, <1>4, <1>5, <1>6
    <3>2. CASE p # NoPlace
      BY <3>2, <1>2, <1>3, <1>6
    <3> QED
      BY <3>1, <3>2
  <2>2. p \in DOMAIN SeenIn(dataset) => Good(joins, <<p>>)
    BY <1>3 DEF Good
  <2> QED
    BY <2>1, <2>2
<1>8. \A x : x \in Scoped(All(joins), keys, scope) <=> x \in Scoped(Part(joins), others, scope)
  BY <1>7 DEF Scoped
<1>9. \A x \in Scoped(Part(joins), others, scope) : Good(joins, x)
  BY <1>7 DEF Scoped
<1>10. Scoped(All(joins), keys, scope) = Scoped(Part(joins), others, scope)
  BY <1>8 DEF Scoped
<1>11. \A key \in keys \cup others : IsKey(key, 1)
  BY <1>1
<1> HIDE DEF keys, others
<1>12. Alike(joins, 1, keys, others)
  BY <1>9, <1>10, <1>11 DEF Alike, scope
<1> QED
  BY <1>12 DEF keys, others

\* After all joins.
LEMMA KeysAlike ==
  ASSUME NEW joins, Wanted(joins)
  PROVE  Alike(joins, Len(joins) + 1, Keys(dataset.rows, joins),
               Keys(SeenIn(dataset), SeenThrough(joins)))
<1>1. /\ joins \in Seq(Range(joins)) /\ Len(joins) \in Nat
      /\ SeenThrough(joins) \in Seq(Range(SeenThrough(joins)))
      /\ Len(SeenThrough(joins)) = Len(joins)
  BY SeenThroughLike DEF Wanted, IsJoins
<1>2. PICK one :
        /\ Keys(dataset.rows, joins) = one[Len(joins)]
        /\ one[0] = {<<p>> : p \in DOMAIN dataset.rows}
        /\ \A n \in 1..Len(joins) :
              one[n] = JoinedTo(All(joins), one[n - 1], joins[n], n)
  BY <1>1, KeysUnfold DEF All
<1>3. PICK two :
        /\ Keys(SeenIn(dataset), SeenThrough(joins)) = two[Len(joins)]
        /\ two[0] = {<<p>> : p \in DOMAIN SeenIn(dataset)}
        /\ \A n \in 1..Len(joins) :
              two[n] = JoinedTo(Part(joins), two[n - 1], SeenThrough(joins)[n], n)
  BY <1>1, KeysUnfold DEF Part
<1> DEFINE N == {n \in Nat : n <= Len(joins) => Alike(joins, n + 1, one[n], two[n])}
<1>4. 0 \in N
  BY <1>2, <1>3, TablesAlike
<1>5. ASSUME NEW n \in N
      PROVE  n + 1 \in N
  <2> SUFFICES ASSUME n + 1 <= Len(joins) PROVE Alike(joins, (n + 1) + 1, one[n + 1], two[n + 1])
    OBVIOUS
  <2>1. n + 1 \in 1..Len(joins) /\ (n + 1) - 1 = n /\ Alike(joins, n + 1, one[n], two[n])
    BY <1>1
  <2>2. /\ one[n + 1] = JoinedTo(All(joins), one[n], joins[n + 1], n + 1)
        /\ two[n + 1] = JoinedTo(Part(joins), two[n], SeenThrough(joins)[n + 1], n + 1)
    BY <1>2, <1>3, <2>1
  <2> QED
    BY <2>1, <2>2, JoinAlike
<1>6. N = Nat
  <2>1. N \in SUBSET Nat
    OBVIOUS
  <2> HIDE DEF N
  <2> QED
    BY <1>4, <1>5, <2>1, AllNumbers
<1> QED
  BY <1>1, <1>2, <1>3, <1>6

\* What follows the joins reads the rows of these keys only: WHERE, in
\* which the scope predicates on the first table are, then grouping,
\* HAVING, the order and the page.
LEMMA NamesAlike ==
  ASSUME NEW joins, Wanted(joins)
  PROVE  /\ Tables(SeenThrough(joins)) = Tables(joins)
         /\ \A t : NamedByLast(SeenThrough(joins), t) = NamedByLast(joins, t)
<1>1. DOMAIN SeenThrough(joins) = DOMAIN joins
      /\ \A n \in DOMAIN joins : /\ SeenThrough(joins)[n].alias = joins[n].alias
                                 /\ SeenThrough(joins)[n].of.columns = joins[n].of.columns
  BY SeenThroughLike DEF Wanted
<1>2. [n \in DOMAIN joins |-> [alias |-> joins[n].alias, cols |-> joins[n].of.columns]]
        = [n \in DOMAIN SeenThrough(joins) |->
              [alias |-> SeenThrough(joins)[n].alias, cols |-> SeenThrough(joins)[n].of.columns]]
  BY <1>1
<1>3. Tables(SeenThrough(joins)) = Tables(joins)
  BY <1>2 DEF Tables
<1>4. \A c : Owners(SeenThrough(joins), c) = Owners(joins, c)
  BY <1>3 DEF Owners
<1>5. NamesIn(SeenThrough(joins)) = NamesIn(joins)
  BY <1>3 DEF NamesIn
<1> QED
  BY <1>3, <1>4, <1>5 DEF NamedByLast

LEMMA MatchingAlike ==
  ASSUME NEW p, Wanted(p.joins), {"joins", "where"} \subseteq DOMAIN p
  PROVE  Matching(p, dataset)
           = Matching([p EXCEPT !.joins = SeenThrough(@)], Seen(dataset))
<1> DEFINE joins == p.joins
           r == [p EXCEPT !.joins = SeenThrough(@)]
           scope == ScopedBy(dataset)
           one == Keys(dataset.rows, joins)
           two == Keys(SeenIn(dataset), SeenThrough(joins))
           Named(row) == NamedByLast(joins, row)
<1>1. /\ Seen(dataset).rows = SeenIn(dataset)
      /\ ScopedBy(Seen(dataset)) = scope
      /\ r.joins = SeenThrough(joins) /\ r.where = p.where
  BY DEF Wanted, IsDataset, Seen, ScopedBy, DatasetHasColumn
<1>2. Alike(joins, Len(joins) + 1, one, two)
  BY KeysAlike
<1>3. Len(joins) + 1 \in 1..(Len(joins) + 1)
  BY DEF Wanted, IsJoins
<1> HIDE DEF joins, r, one, two, scope
<1>4. ASSUME NEW key, key \in Scoped(All(joins), one, scope)
      PROVE  RowsAt(All(joins), key) = RowsAt(Part(joins), key)
  <2>1. key \in one /\ Good(joins, key)
    BY <1>2, <1>4 DEF Alike, Scoped, scope
  <2>2. IsKey(key, Len(joins) + 1)
    BY <1>2, <2>1 DEF Alike
  <2> QED
    BY <1>3, <2>1, <2>2, GoodRows DEF joins
<1>5. Scoped(All(joins), one, scope) = Scoped(Part(joins), two, scope)
  BY <1>2 DEF Alike, scope
<1> DEFINE Left(src, keys) == {k \in keys : /\ Inside(RowsAt(src, k)[1], scope)
                                           /\ SqlHolds(p.where, Named(RowsAt(src, k)))}
           List(src, keys) == [key \in Left(src, keys) |-> Named(RowsAt(src, key))]
<1>6. Left(All(joins), one) = Left(Part(joins), two)
  BY <1>4, <1>5 DEF Scoped, First
<1>7. ASSUME NEW key \in Left(All(joins), one)
      PROVE  RowsAt(All(joins), key) = RowsAt(Part(joins), key)
  BY <1>4 DEF Scoped, First
<1>8. Matching(p, dataset) = InOrder(List(All(joins), one))
  BY DEF Matching, All, one, joins, scope
<1>9. Matching(r, Seen(dataset)) = InOrder(List(Part(joins), two))
  <2>1. \A t : NamedByLast(SeenThrough(joins), t) = NamedByLast(joins, t)
    BY NamesAlike DEF joins
  <2> QED
    BY <1>1, <2>1 DEF Matching, Part, two
<1>10. List(All(joins), one) = List(Part(joins), two)
  BY <1>6, <1>7
<1> QED
  BY <1>8, <1>9, <1>10 DEF r

LEMMA AnswerAlike ==
  ASSUME NEW p, Wanted(p.joins),
         {"joins", "select", "where", "group", "aggs", "having", "order", "limit", "offset"}
             \subseteq DOMAIN p
  PROVE  Answer(p, dataset)
           = Answer([p EXCEPT !.joins = SeenThrough(@)], Seen(dataset))
<1> DEFINE r == [p EXCEPT !.joins = SeenThrough(@)]
<1>1. /\ r.joins = SeenThrough(p.joins)
      /\ r.select = p.select /\ r.group = p.group /\ r.aggs = p.aggs
      /\ r.having = p.having /\ r.order = p.order /\ r.limit = p.limit
      /\ r.offset = p.offset
  OBVIOUS
<1>2. Matching(p, dataset) = Matching(r, Seen(dataset))
  BY MatchingAlike
<1>3. Tables(r.joins) = Tables(p.joins)
  BY <1>1, NamesAlike
<1> HIDE DEF r
<1>4. Fetched(r) = Fetched(p) /\ Grouping(r) = Grouping(p)
  BY <1>1, <1>3 DEF Fetched, Grouping
<1>5. Answer(p, dataset) = Answer(r, Seen(dataset))
  BY <1>1, <1>2, <1>4 DEF Answer
<1> QED
  BY <1>5 DEF r

\* What a database answers to a plan only changes with the plan, the
\* dataset and the caller.
LEMMA KeysStays ==
  ASSUME UNCHANGED <<dataset, host>>, NEW data, NEW joins
  PROVE  Keys(data, joins)' = Keys(data, joins)
BY DEF Keys, JoinedTo, OnHolds

LEMMA MatchingStays ==
  ASSUME UNCHANGED <<dataset, host>>, NEW p, NEW d
  PROVE  Matching(p, d)' = Matching(p, d)
<1>1. \A data, joins : Keys(data, joins)' = Keys(data, joins)
  BY KeysStays
<1>2. \A joins, t : NamedByLast(joins, t)' = NamedByLast(joins, t)
  BY DEF NamedByLast, NamesIn, Owners, Tables
<1>3. ScopedBy(d)' = ScopedBy(d)
  BY DEF ScopedBy
<1> QED
  BY <1>1, <1>2, <1>3 DEF Matching

LEMMA AnswerStays ==
  ASSUME UNCHANGED <<plan, dataset, host>>
  PROVE  Answer(plan, dataset)' = Answer(plan, dataset)
<1>1. PICK p, d : p = plan /\ d = dataset
  OBVIOUS
<1>2. Matching(p, d)' = Matching(p, d)
  BY MatchingStays
<1>3. Fetched(p)' = Fetched(p)
  BY DEF Fetched, Tables
<1>4. Answer(p, d)' = Answer(p, d)
  BY <1>2, <1>3 DEF Answer, Grouping
<1> QED
  BY <1>1, <1>4

\* The invariant: what is executed is a plan of the query, and what has
\* been answered is what the database answers to it, which it had no
\* reason to refuse.
IsPlan(p) ==
    /\ {"joins", "select", "where", "group", "aggs", "having", "order", "limit", "offset"}
           \subseteq DOMAIN p
    /\ IsJoins(p.joins)
Wired ==
    /\ IsDataset(dataset)
    /\ \A c \in host.scope : c.value # Null
AnswerInv ==
    /\ Wired
    /\ phase \in {"folding", "query", "planned", "answered"} => IsQuery(query)
    /\ phase \in {"planned", "answered"} => IsPlan(plan)
    /\ phase = "answered" => ~Refused(plan) /\ rows = Answer(plan, dataset)

LEMMA PlanIsPlan ==
  ASSUME NEW q, IsQuery(q)
  PROVE  IsPlan(Plan(q))
<1>1. {"joins", "select", "where", "group", "aggs", "having", "order", "limit", "offset"}
               \subseteq DOMAIN Plan(q)
  BY DEF Plan
<1>2. Plan(q).joins = PlanJoins(q.join)
  <2>1. CurrentOnly(q).join = q.join
    BY DEF CurrentOnly, IsQuery, AllRows
  <2> QED
    BY <2>1 DEF Plan
<1>3. IsJoins(PlanJoins(q.join))
  <2>1. /\ DOMAIN q.join = 1..Len(q.join) /\ Len(q.join) \in Nat
        /\ \A n \in DOMAIN q.join : IsDataset(q.join[n].dataset)
    BY DEF IsQuery
  <2> DEFINE joins == PlanJoins(q.join)
             l == Len(q.join)
  <2>2. joins = [n \in 1..l |-> PlanJoin(q.join[n])]
    BY <2>1 DEF PlanJoins
  <2>3. \A n \in DOMAIN joins :
            IsDataset(joins[n].of) /\ joins[n].at = 1
                               /\ {"of", "alias", "at", "left", "right", "type", "scoped"}
                                      \subseteq DOMAIN joins[n]
    <3> SUFFICES ASSUME NEW n \in DOMAIN joins
                 PROVE  /\ IsDataset(joins[n].of) /\ joins[n].at = 1
                        /\ {"of", "alias", "at", "left", "right", "type", "scoped"}
                               \subseteq DOMAIN joins[n]
      OBVIOUS
    <3>1. n \in DOMAIN q.join /\ joins[n] = PlanJoin(q.join[n])
      BY <2>1, <2>2
    <3>2. /\ PlanJoin(q.join[n]).of = q.join[n].dataset /\ PlanJoin(q.join[n]).at = 1
          /\ {"of", "alias", "at", "left", "right", "type", "scoped"}
                 \subseteq DOMAIN PlanJoin(q.join[n])
      BY DEF PlanJoin
    <3> QED
      BY <2>1, <3>1, <3>2
  <2>4. joins \in Seq(Range(joins))
    <3>1. l \in Nat /\ joins \in [1..l -> Range(joins)]
      BY <2>1, <2>2 DEF Range
    <3> QED
      BY <3>1
  <2> QED
    BY <2>3, <2>4 DEF IsJoins
<1> QED
  BY <1>1, <1>2, <1>3 DEF IsPlan

LEMMA AnswerInit == Init => AnswerInv
<1> SUFFICES ASSUME Init PROVE AnswerInv
  OBVIOUS
<1>1. PICK world \in Worlds :
          /\ dataset = world.dataset
          /\ host = world.host
          /\ \/ query \in world.queries /\ phase = "query"
             \/ query = AllRows /\ phase = "folding"
  BY DEF Init
<1>2. IsQuery(AllRows)
  BY DEF IsQuery, AllRows, Range
<1> QED
  BY <1>1, <1>2, WorldsAssumption DEF AnswerInv, Wired

LEMMA RefusedStays ==
  ASSUME UNCHANGED <<plan, dataset, host>>
  PROVE  Refused(plan)' = Refused(plan)
<1>1. NoSuchSource(plan.joins)' = NoSuchSource(plan.joins)
  BY DEF NoSuchSource, ScopedBy, Tables
<1>2. ASSUME NEW c
      PROVE  Owners(plan.joins, c)' = Owners(plan.joins, c)
  BY DEF Owners, Tables
<1>3. Mentioned(plan)' = Mentioned(plan) /\ Fetched(plan)' = Fetched(plan)
  BY DEF Mentioned, Fetched, Tables
<1>4. Grouping(plan)' = Grouping(plan)
  BY DEF Grouping
<1> QED
  BY <1>1, <1>2, <1>3, <1>4 DEF Refused

LEMMA AnswerNext == AnswerInv /\ [Next]_vars => AnswerInv'
<1> SUFFICES ASSUME AnswerInv, [Next]_vars PROVE AnswerInv'
  OBVIOUS
<1>1. dataset' = dataset /\ host' = host
  BY DEF Next, vars, PlanPipe, PlanQuery, Ask, Finish, ApplyStage, Return, FoldFilter,
         FoldProject, FoldSort, FoldLimit, FoldSkip, FoldGroupBy, FoldAggregate, Break, Folding
<1>2. Wired'
  BY <1>1 DEF AnswerInv, Wired
<1>3. CASE PlanPipe
  <2>1. phase = "folding" /\ phase' \in {"folding", "query"}
    BY <1>3 DEF PlanPipe, FoldFilter, FoldProject, FoldSort, FoldLimit, FoldSkip,
                FoldGroupBy, FoldAggregate, Break, Folding
  <2>2. /\ query'.join = query.join
        /\ DOMAIN query' = DOMAIN query
    BY <1>3, <2>1 DEF PlanPipe, FoldFilter, FoldProject, FoldSort, FoldLimit, FoldSkip,
                FoldGroupBy, FoldAggregate, Break, Folding, Fold, AnswerInv, IsQuery, AllRows
  <2>3. IsQuery(query)
    BY <2>1 DEF AnswerInv
  <2>4. IsQuery(query')
    BY <2>2, <2>3 DEF IsQuery
  <2> QED
    BY <1>2, <2>1, <2>4 DEF AnswerInv
<1>4. CASE PlanQuery
  <2>1. IsQuery(query) /\ phase' = "planned" /\ plan' = Plan(query')
    BY <1>4 DEF PlanQuery, AnswerInv
  <2>2. query'.join = query.join /\ DOMAIN query' = DOMAIN query
    BY <1>4, <2>1 DEF PlanQuery, WithDefaults, Limited, IsQuery, AllRows
  <2>3. IsQuery(query')
    BY <2>1, <2>2 DEF IsQuery
  <2>4. IsPlan(plan')
    BY <2>1, <2>3, PlanIsPlan
  <2> QED
    BY <1>2, <2>1, <2>3, <2>4 DEF AnswerInv
<1>5. CASE Ask
  <2>1. UNCHANGED <<query, plan, dataset, host>> /\ phase = "planned"
    BY <1>5 DEF Ask
  <2>2. \/ phase' = "failed"
        \/ phase' = "answered" /\ ~Refused(plan) /\ rows' = Answer(plan, dataset)
    BY <1>5 DEF Ask
  <2>3. IsQuery(query') /\ IsPlan(plan')
    BY <2>1 DEF AnswerInv
  <2>5. Refused(plan)' = Refused(plan)
    BY <2>1, RefusedStays
  <2>6. Answer(plan, dataset)' = Answer(plan, dataset)
    BY <2>1, AnswerStays
  <2> QED
    BY <1>2, <2>2, <2>3, <2>5, <2>6 DEF AnswerInv
<1>6. CASE Finish \/ ApplyStage \/ Return
  <2>1. phase' \notin {"folding", "query", "planned", "answered"}
    BY <1>6 DEF Finish, ApplyStage, Return
  <2> QED
    BY <1>2, <2>1 DEF AnswerInv
<1>7. CASE UNCHANGED vars
  <2>1. UNCHANGED <<query, plan, dataset, host, rows, phase>>
    BY <1>7 DEF vars
  <2>3. Refused(plan)' = Refused(plan)
    BY <2>1, RefusedStays
  <2>4. Answer(plan, dataset)' = Answer(plan, dataset)
    BY <2>1, AnswerStays
  <2> QED
    BY <1>2, <2>1, <2>3, <2>4 DEF AnswerInv
<1> QED
  BY <1>3, <1>4, <1>5, <1>6, <1>7 DEF Next

\* What rows from outside the scope a table has makes no difference to the
\* answer (OthersUnseen).
LEMMA AnsweredUnseen == AnswerInv => OthersUnseen
<1> SUFFICES ASSUME AnswerInv, phase = "answered", ScopeReaches(plan.joins)
             PROVE  rows = Answer([plan EXCEPT !.joins = SeenThrough(@)], Seen(dataset))
  BY DEF OthersUnseen
<1>1. IsPlan(plan) /\ ~Refused(plan) /\ rows = Answer(plan, dataset)
  BY DEF AnswerInv
<1>2. \A c \in ScopedBy(dataset) : c.name \in dataset.columns
  BY <1>1 DEF Refused, NoSuchSource
<1>3. Wanted(plan.joins)
  BY <1>1, <1>2 DEF Wanted, AnswerInv, Wired, IsPlan
<1> QED
  BY <1>1, <1>3, AnswerAlike DEF IsPlan

\* QuerySource and the statement of ClassicQuery, for every dataset, join,
\* scope and row: while the scope reaches every table, rows of others
\* change no answer.
THEOREM QueryOthersUnseen == Spec => []OthersUnseen
<1>1. Init => AnswerInv
  BY AnswerInit
<1>2. AnswerInv /\ [Next]_vars => AnswerInv'
  BY AnswerNext
<1>3. AnswerInv => OthersUnseen
  BY AnsweredUnseen
<1> QED
  BY <1>1, <1>2, <1>3, PTL DEF Spec

--------------------------------------------------------------------------------
\* The elements of a finite set under a strict total order R, by how many
\* come before them.
Under(S, R, i) == {j \in S : <<j, i>> \in R}
Orders(R, S) ==
    /\ \A i \in S : <<i, i>> \notin R
    /\ \A i, j \in S : i # j => <<i, j>> \in R \/ <<j, i>> \in R
    /\ \A i, j, k \in S : <<i, j>> \in R /\ <<j, k>> \in R => <<i, k>> \in R

LEMMA UnderLess ==
  ASSUME NEW S, IsFiniteSet(S), NEW R, Orders(R, S)
  PROVE  /\ \A i \in S : IsFiniteSet(Under(S, R, i))
         /\ \A i \in S : Cardinality(Under(S, R, i)) \in 0..(Cardinality(S) - 1)
         /\ \A i, j \in S : <<i, j>> \in R =>
               Cardinality(Under(S, R, i)) < Cardinality(Under(S, R, j))
<1>0. Cardinality(S) \in Nat
  BY FS_CardinalityType
<1>1. ASSUME NEW i \in S
      PROVE  /\ IsFiniteSet(Under(S, R, i))
             /\ Cardinality(Under(S, R, i)) \in Nat
             /\ Cardinality(Under(S, R, i)) <= Cardinality(S)
             /\ Cardinality(Under(S, R, i)) # Cardinality(S)
  <2>1. Under(S, R, i) \in SUBSET S /\ i \notin Under(S, R, i)
    BY DEF Under, Orders
  <2>2. IsFiniteSet(Under(S, R, i))
        /\ Cardinality(Under(S, R, i)) <= Cardinality(S)
        /\ (Cardinality(S) = Cardinality(Under(S, R, i)) => S = Under(S, R, i))
    BY <2>1, FS_Subset
  <2> QED
    BY <2>1, <2>2, FS_CardinalityType
<1>2. ASSUME NEW i \in S, NEW j \in S, <<i, j>> \in R
      PROVE  Cardinality(Under(S, R, i)) < Cardinality(Under(S, R, j))
  <2>1. Under(S, R, i) \in SUBSET Under(S, R, j)
    BY <1>2 DEF Under, Orders
  <2>2. i \in Under(S, R, j) /\ i \notin Under(S, R, i)
    BY <1>2 DEF Under, Orders
  <2>3. /\ Cardinality(Under(S, R, i)) <= Cardinality(Under(S, R, j))
        /\ Cardinality(Under(S, R, j)) = Cardinality(Under(S, R, i))
              => Under(S, R, j) = Under(S, R, i)
    BY <1>1, <2>1, FS_Subset
  <2> QED
    BY <1>1, <2>2, <2>3
<1>3. ASSUME NEW i \in S
      PROVE  Cardinality(Under(S, R, i)) \in 0..(Cardinality(S) - 1)
  BY <1>0, <1>1
<1> QED
  BY <1>1, <1>2, <1>3

LEMMA UnderAll ==
  ASSUME NEW S, IsFiniteSet(S), NEW R, Orders(R, S), NEW n \in 1..Cardinality(S)
  PROVE  \E i \in S : Cardinality(Under(S, R, i)) = n - 1
<1> DEFINE m == Cardinality(S)
           T == 0..(m - 1)
           f == [i \in S |-> Cardinality(Under(S, R, i))]
<1>0. m \in Nat /\ m >= 1
  BY FS_CardinalityType
<1>1. f \in [S -> T]
  BY UnderLess
<1>2. \A i, j \in S : f[i] = f[j] => i = j
  <2> SUFFICES ASSUME NEW i \in S, NEW j \in S, f[i] = f[j], i # j PROVE FALSE
    OBVIOUS
  <2>1. <<i, j>> \in R \/ <<j, i>> \in R
    BY DEF Orders
  <2>2. f[i] < f[j] \/ f[j] < f[i]
    BY <2>1, UnderLess
  <2> QED
    BY <1>0, <1>1, <2>2
<1>3. IsFiniteSet(T) /\ Cardinality(T) = m
  <2>1. 0 \in Int /\ m - 1 \in Int
    BY <1>0
  <2>2. IsFiniteSet(0..(m - 1)) /\ Cardinality(0..(m - 1)) = IF 0 > m - 1 THEN 0 ELSE (m - 1) - 0 + 1
    BY <2>1, FS_Interval
  <2> QED
    BY <1>0, <2>2
<1> HIDE DEF f
<1>4. f \in Injection(S, T)
  BY <1>1, <1>2 DEF Injection, IsInjective
<1> HIDE DEF T
<1>5. f \in Surjection(S, T)
  BY <1>3, <1>4, FS_Injection
<1>6. n - 1 \in T
  BY <1>0 DEF T
<1>7. \E i \in S : f[i] = n - 1
  BY <1>5, <1>6 DEF Surjection
<1> QED
  BY <1>7 DEF f

\* Places in a table: the k-th of a set of places (Nth) is the one that k
\* - 1 of them come before, and Nth keeps their order. What is kept of a
\* table at all its places is the table.
Less(S) == {p \in S \X S : p[1] < p[2]}
Smaller(S, i) == {j \in S : j < i}

LEMMA LessOrders ==
  ASSUME NEW S \in SUBSET Nat
  PROVE  /\ Orders(Less(S), S)
         /\ \A i \in S : Under(S, Less(S), i) = Smaller(S, i)
         /\ \A i, j \in S : <<i, j>> \in Less(S) <=> i < j
<1>1. \A i, j \in S : <<i, j>> \in Less(S) <=> i < j
  BY DEF Less
<1>2. Orders(Less(S), S)
  BY <1>1 DEF Orders
<1>3. \A i \in S : Under(S, Less(S), i) = Smaller(S, i)
  BY <1>1 DEF Under, Smaller
<1> QED
  BY <1>1, <1>2, <1>3

LEMMA NthAt ==
  ASSUME NEW S \in SUBSET Nat, IsFiniteSet(S), NEW k \in 1..Cardinality(S)
  PROVE  Nth(S, k) \in S /\ Cardinality(Smaller(S, Nth(S, k))) = k - 1
<1>1. \E i \in S : Cardinality(Smaller(S, i)) = k - 1
  BY UnderAll, LessOrders, ZenonT(60)
<1> QED
  BY <1>1 DEF Nth, Smaller

LEMMA SmallerLess ==
  ASSUME NEW S \in SUBSET Nat, IsFiniteSet(S)
  PROVE  /\ \A i \in S : Cardinality(Smaller(S, i)) \in 0..(Cardinality(S) - 1)
         /\ \A i, j \in S : i < j => Cardinality(Smaller(S, i)) < Cardinality(Smaller(S, j))
BY UnderLess, LessOrders

LEMMA NthIs ==
  ASSUME NEW S \in SUBSET Nat, IsFiniteSet(S), NEW i \in S, NEW k,
         k = Cardinality(Smaller(S, i)) + 1
  PROVE  k \in 1..Cardinality(S) /\ Nth(S, k) = i
<1>1. Cardinality(S) \in Nat /\ Cardinality(Smaller(S, i)) \in 0..(Cardinality(S) - 1)
  BY FS_CardinalityType, SmallerLess
<1>2. k \in 1..Cardinality(S)
  BY <1>1
<1>3. Nth(S, k) \in S /\ Cardinality(Smaller(S, Nth(S, k))) = k - 1
  BY <1>2, NthAt
<1>4. Cardinality(Smaller(S, Nth(S, k))) = Cardinality(Smaller(S, i))
  BY <1>1, <1>3
<1>5. ~(Nth(S, k) < i) /\ ~(i < Nth(S, k))
  <2> DEFINE j == Nth(S, k)
  <2>1. j \in S /\ Cardinality(Smaller(S, j)) = Cardinality(Smaller(S, i))
    BY <1>3, <1>4
  <2> HIDE DEF j
  <2>2. Cardinality(Smaller(S, i)) \in Int
    BY <1>1
  <2>3. ~(j < i) /\ ~(i < j)
    BY <2>1, <2>2, SmallerLess
  <2> QED
    BY <2>3 DEF j
<1>6. Nth(S, k) \in Nat /\ i \in Nat
  BY <1>3
<1> QED
  BY <1>2, <1>5, <1>6

LEMMA NthLess ==
  ASSUME NEW S \in SUBSET Nat, IsFiniteSet(S),
         NEW k \in 1..Cardinality(S), NEW l \in 1..Cardinality(S)
  PROVE  Nth(S, k) < Nth(S, l) <=> k < l
<1> DEFINE i == Nth(S, k)
           j == Nth(S, l)
<1>1. /\ i \in S /\ Cardinality(Smaller(S, i)) = k - 1
      /\ j \in S /\ Cardinality(Smaller(S, j)) = l - 1
  BY NthAt
<1> HIDE DEF i, j
<1>2. i < j => k - 1 < l - 1
  BY <1>1, SmallerLess
<1>3. j < i => l - 1 < k - 1
  BY <1>1, SmallerLess
<1>4. i = j => k - 1 = l - 1
  BY <1>1
<1>5. i \in Nat /\ j \in Nat /\ Cardinality(S) \in Nat
  BY <1>1, FS_CardinalityType
<1>6. i < j <=> k < l
  BY <1>2, <1>3, <1>4, <1>5
<1> QED
  BY <1>6 DEF i, j

LEMMA NthAll ==
  ASSUME NEW n \in Nat, NEW k \in 1..n
  PROVE  Nth(1..n, k) = k
<1>1. IsFiniteSet(1..n) /\ 1..n \in SUBSET Nat
  BY FS_Interval
<1>2. Smaller(1..n, k) = 1..(k - 1)
  BY DEF Smaller
<1>3. Cardinality(1..(k - 1)) = k - 1
  <2>1. 1 \in Int /\ k - 1 \in Int
    OBVIOUS
  <2>2. Cardinality(1..(k - 1)) = IF 1 > k - 1 THEN 0 ELSE (k - 1) - 1 + 1
    BY <2>1, FS_Interval
  <2> QED
    BY <2>2
<1>4. k = Cardinality(Smaller(1..n, k)) + 1
  BY <1>2, <1>3
<1> QED
  BY <1>1, <1>4, NthIs

LEMMA KeptAll ==
  ASSUME NEW n \in Nat, NEW seen, DOMAIN seen = 1..n, seen = [i \in 1..n |-> seen[i]]
  PROVE  Kept(seen, 1..n) = seen
<1>1. Cardinality(1..n) = n
  <2>0. 1 \in Int /\ n \in Int
    OBVIOUS
  <2>1. Cardinality(1..n) = IF 1 > n THEN 0 ELSE n - 1 + 1
    BY <2>0, FS_Interval
  <2> QED
    BY <2>1
<1> QED
  BY <1>1, NthAll DEF Kept

\* To keep some of the rows that were kept is to keep those at once.
LEMMA SameSize ==
  ASSUME NEW S, IsFiniteSet(S), NEW T, NEW f \in [S -> T],
         \A i, j \in S : f[i] = f[j] => i = j,
         \A t \in T : \E i \in S : f[i] = t
  PROVE  IsFiniteSet(T) /\ Cardinality(T) = Cardinality(S)
<1>1. f \in Bijection(S, T)
  BY DEF Bijection, Injection, Surjection, IsInjective
<1> QED
  BY <1>1, FS_Bijection DEF ExistsBijection

LEMMA NthTwice ==
  ASSUME NEW A \in SUBSET Nat, IsFiniteSet(A), NEW C \in SUBSET A, NEW B,
         \A k : k \in B <=> k \in 1..Cardinality(A) /\ Nth(A, k) \in C
  PROVE  /\ IsFiniteSet(B) /\ IsFiniteSet(C)
         /\ Cardinality(B) = Cardinality(C)
         /\ \A m \in 1..Cardinality(C) : Nth(A, Nth(B, m)) = Nth(C, m)
<1> DEFINE n == Cardinality(A)
<1>0. n \in Nat
  BY FS_CardinalityType
<1>1. IsFiniteSet(C) /\ C \in SUBSET Nat
  BY FS_Subset
<1>2. B \in SUBSET (1..n) /\ IsFiniteSet(B) /\ B \in SUBSET Nat
  <2>1. B \in SUBSET (1..n) /\ B \in SUBSET Nat
    BY <1>0
  <2>2. IsFiniteSet(1..n)
    BY <1>0, FS_Interval
  <2>3. IsFiniteSet(B)
    BY <2>1, <2>2, FS_Subset
  <2> QED
    BY <2>1, <2>3
<1>3. /\ \A k \in 1..n : Nth(A, k) \in A
      /\ \A k, l \in 1..n : Nth(A, k) < Nth(A, l) <=> k < l
  BY NthAt, NthLess
<1>4. \A i \in A : \E k \in 1..n : Nth(A, k) = i
  BY NthIs
<1>5. \A k, l \in 1..n : Nth(A, k) = Nth(A, l) => k = l
  <2> SUFFICES ASSUME NEW k \in 1..n, NEW l \in 1..n, Nth(A, k) = Nth(A, l), k # l PROVE FALSE
    OBVIOUS
  <2>1. k < l \/ l < k
    BY <1>0
  <2>2. Nth(A, k) < Nth(A, l) \/ Nth(A, l) < Nth(A, k)
    BY <2>1, <1>3
  <2>3. Nth(A, k) \in Nat /\ Nth(A, l) \in Nat
    BY <1>3
  <2> QED
    BY <2>2, <2>3
<1>6. Cardinality(B) = Cardinality(C)
  <2> DEFINE f == [k \in B |-> Nth(A, k)]
  <2>1. f \in [B -> C]
    BY <1>2
  <2>2. \A k, l \in B : f[k] = f[l] => k = l
    BY <1>2, <1>5
  <2>3. \A i \in C : \E k \in B : f[k] = i
    BY <1>4
  <2> HIDE DEF f
  <2> QED
    BY <1>2, <2>1, <2>2, <2>3, SameSize
<1>7. ASSUME NEW m \in 1..Cardinality(C)
      PROVE  Nth(A, Nth(B, m)) = Nth(C, m)
  <2> DEFINE b == Nth(B, m)
             i == Nth(A, b)
  <2>1. b \in B /\ Cardinality(Smaller(B, b)) = m - 1
    BY <1>2, <1>6, NthAt
  <2>2. i \in C /\ b \in 1..n
    BY <1>2, <2>1
  <2> HIDE DEF b
  <2>3. Cardinality(Smaller(C, i)) = Cardinality(Smaller(B, b))
    <3> DEFINE f == [k \in Smaller(B, b) |-> Nth(A, k)]
    <3>0. Smaller(B, b) \in SUBSET B /\ IsFiniteSet(Smaller(B, b))
      BY <1>2, FS_Subset DEF Smaller
    <3>1. f \in [Smaller(B, b) -> Smaller(C, i)]
      BY <1>2, <1>3, <2>2 DEF Smaller
    <3>2. \A k, l \in Smaller(B, b) : f[k] = f[l] => k = l
      BY <1>2, <1>5, <3>0
    <3>3. \A j \in Smaller(C, i) : \E k \in Smaller(B, b) : f[k] = j
      <4> SUFFICES ASSUME NEW j \in Smaller(C, i) PROVE \E k \in Smaller(B, b) : f[k] = j
        OBVIOUS
      <4>1. j \in C /\ j < i
        BY DEF Smaller
      <4>2. PICK k \in 1..n : Nth(A, k) = j
        BY <1>4, <4>1
      <4>3. k \in B /\ k < b
        BY <1>3, <2>2, <4>1, <4>2
      <4> QED
        BY <4>2, <4>3 DEF Smaller
    <3> HIDE DEF f
    <3> QED
      BY <3>0, <3>1, <3>2, <3>3, SameSize
  <2>4. m = Cardinality(Smaller(C, i)) + 1
    <3>1. m \in Nat
      BY <1>1, FS_CardinalityType
    <3> QED
      BY <2>1, <2>3, <3>1
  <2>5. Nth(C, m) = i
    <3> HIDE DEF i
    <3> QED
      BY <1>1, <2>2, <2>4, NthIs
  <2> QED
    BY <2>5 DEF b
<1> QED
  BY <1>1, <1>2, <1>6, <1>7

LEMMA KeptTwice ==
  ASSUME NEW A \in SUBSET Nat, IsFiniteSet(A), NEW C \in SUBSET A, NEW seen, NEW B,
         \A k : k \in B <=> k \in 1..Cardinality(A) /\ Nth(A, k) \in C
  PROVE  Kept(Kept(seen, A), B) = Kept(seen, C)
<1>1. /\ IsFiniteSet(B) /\ IsFiniteSet(C)
      /\ Cardinality(B) = Cardinality(C)
      /\ \A m \in 1..Cardinality(C) : Nth(A, Nth(B, m)) = Nth(C, m)
  BY NthTwice, ZenonT(60)
<1>2. B \in SUBSET Nat
  <2>1. Cardinality(A) \in Nat
    BY FS_CardinalityType
  <2> QED
    BY <2>1
<1>3. \A m \in 1..Cardinality(C) : Nth(B, m) \in B
  BY <1>1, <1>2, NthAt
<1>4. \A k \in 1..Cardinality(A) : Kept(seen, A)[k] = seen[Nth(A, k)]
  BY DEF Kept
<1>5. \A m \in 1..Cardinality(C) : Kept(seen, A)[Nth(B, m)] = seen[Nth(C, m)]
  BY <1>1, <1>3, <1>4
<1> QED
  BY <1>1, <1>5 DEF Kept

\* What comes before what in a sort is a strict total order.
KeyOf(order, place, row, n) == Rank(Get(row, order[n].field), place)
Keyed(order, place, row) == \A n \in DOMAIN order : KeyOf(order, place, row, n) \in Int
Tie(order, place, r, s) ==
    \A n \in DOMAIN order : KeyOf(order, place, r, n) = KeyOf(order, place, s, n)
Wins(order, place, r, s, n) ==
    IF order[n].desc THEN KeyOf(order, place, r, n) > KeyOf(order, place, s, n)
    ELSE KeyOf(order, place, r, n) < KeyOf(order, place, s, n)
TieUpTo(order, place, r, s, n) ==
    \A m \in 1..(n - 1) : KeyOf(order, place, r, m) = KeyOf(order, place, s, m)

LEMMA BeforeIs ==
  ASSUME NEW order, NEW place, NEW r, NEW s
  PROVE  Before(order, place, r, s) <=>
            \E n \in DOMAIN order : TieUpTo(order, place, r, s, n) /\ Wins(order, place, r, s, n)
BY DEF Before, KeyOf, TieUpTo, Wins

LEMMA LeastOf ==
  ASSUME NEW S \in SUBSET Nat, S # {}
  PROVE  \E x \in S : \A y \in S : x <= y
<1>1. \E x \in S : \A y \in S : ~ (<<y, x>> \in OpToRel(<, Nat))
  BY NatLessThanWellFounded, WFMin
<1>2. OpToRel(<, Nat) = {p \in Nat \X Nat : p[1] < p[2]}
  BY DEF OpToRel
<1>3. PICK x \in S : \A y \in S : ~ (<<y, x>> \in {p \in Nat \X Nat : p[1] < p[2]})
  BY <1>1, <1>2
<1>4. \A y \in S : ~(y < x)
  <2> SUFFICES ASSUME NEW y \in S, y < x PROVE FALSE
    OBVIOUS
  <2>1. <<y, x>> \in {p \in Nat \X Nat : p[1] < p[2]}
    OBVIOUS
  <2> QED
    BY <1>3, <2>1
<1> QED
  BY <1>4

LEMMA BeforeTotal ==
  ASSUME NEW order, NEW l \in Nat, DOMAIN order = 1..l, NEW place, NEW r, NEW s,
         Keyed(order, place, r), Keyed(order, place, s),
         ~Before(order, place, r, s), ~Before(order, place, s, r)
  PROVE  Tie(order, place, r, s)
<1> DEFINE B == {n \in 1..l : KeyOf(order, place, r, n) # KeyOf(order, place, s, n)}
<1> SUFFICES ASSUME B # {} PROVE FALSE
  BY DEF Tie
<1>1. PICK n \in B : \A m \in B : n <= m
  <2>1. B \in SUBSET Nat
    OBVIOUS
  <2> HIDE DEF B
  <2> QED
    BY <2>1, LeastOf
<1>2. TieUpTo(order, place, r, s, n) /\ TieUpTo(order, place, s, r, n)
  <2> SUFFICES ASSUME NEW m \in 1..(n - 1)
               PROVE  KeyOf(order, place, r, m) = KeyOf(order, place, s, m)
    BY DEF TieUpTo
  <2>1. m \in 1..l /\ ~(n <= m)
    OBVIOUS
  <2> QED
    BY <1>1, <2>1
<1>3. n \in DOMAIN order /\ KeyOf(order, place, r, n) \in Int /\ KeyOf(order, place, s, n) \in Int
  BY DEF Keyed
<1>4. Wins(order, place, r, s, n) \/ Wins(order, place, s, r, n)
  BY <1>3 DEF Wins
<1> QED
  BY <1>2, <1>3, <1>4, BeforeIs

LEMMA BeforeTransitive ==
  ASSUME NEW order, NEW l \in Nat, DOMAIN order = 1..l, NEW place, NEW r, NEW s, NEW t,
         Keyed(order, place, r), Keyed(order, place, s), Keyed(order, place, t)
  PROVE  /\ ~Before(order, place, r, r)
         /\ Before(order, place, r, s) /\ Before(order, place, s, t)
              => Before(order, place, r, t)
         /\ Tie(order, place, r, s) /\ Before(order, place, s, t)
              => Before(order, place, r, t)
         /\ Before(order, place, r, s) /\ Tie(order, place, s, t)
              => Before(order, place, r, t)
<1>1. \A n \in 1..l : /\ KeyOf(order, place, r, n) \in Int
                     /\ KeyOf(order, place, s, n) \in Int
                     /\ KeyOf(order, place, t, n) \in Int
  BY DEF Keyed
<1>2. ~Before(order, place, r, r)
  BY <1>1, BeforeIs DEF Wins
<1>3. ASSUME Before(order, place, r, s), Before(order, place, s, t)
      PROVE  Before(order, place, r, t)
  <2>1. PICK n \in 1..l : TieUpTo(order, place, r, s, n) /\ Wins(order, place, r, s, n)
    BY <1>3, BeforeIs
  <2>2. PICK m \in 1..l : TieUpTo(order, place, s, t, m) /\ Wins(order, place, s, t, m)
    BY <1>3, BeforeIs
  <2>3. CASE n < m
    <3>1. KeyOf(order, place, s, n) = KeyOf(order, place, t, n)
      BY <2>2, <2>3 DEF TieUpTo
    <3>2. TieUpTo(order, place, r, t, n)
      BY <2>1, <2>2, <2>3 DEF TieUpTo
    <3>3. Wins(order, place, r, t, n)
      BY <2>1, <3>1 DEF Wins
    <3> QED
      BY <3>2, <3>3, BeforeIs
  <2>4. CASE m < n
    <3>1. KeyOf(order, place, r, m) = KeyOf(order, place, s, m)
      BY <2>1, <2>4 DEF TieUpTo
    <3>2. TieUpTo(order, place, r, t, m)
      BY <2>1, <2>2, <2>4 DEF TieUpTo
    <3>3. Wins(order, place, r, t, m)
      BY <2>2, <3>1 DEF Wins
    <3> QED
      BY <3>2, <3>3, BeforeIs
  <2>5. CASE m = n
    <3>1. TieUpTo(order, place, r, t, n)
      BY <2>1, <2>2, <2>5 DEF TieUpTo
    <3>2. Wins(order, place, r, t, n)
      BY <1>1, <2>1, <2>2, <2>5 DEF Wins
    <3> QED
      BY <3>1, <3>2, BeforeIs
  <2> QED
    BY <2>3, <2>4, <2>5
<1>4. ASSUME Tie(order, place, r, s), Before(order, place, s, t)
      PROVE  Before(order, place, r, t)
  <2>1. PICK n \in 1..l : TieUpTo(order, place, s, t, n) /\ Wins(order, place, s, t, n)
    BY <1>4, BeforeIs
  <2>2. TieUpTo(order, place, r, t, n)
    BY <1>4, <2>1 DEF Tie, TieUpTo
  <2>3. Wins(order, place, r, t, n)
    BY <1>4, <2>1 DEF Tie, Wins
  <2> QED
    BY <2>2, <2>3, BeforeIs
<1>5. ASSUME Before(order, place, r, s), Tie(order, place, s, t)
      PROVE  Before(order, place, r, t)
  <2>1. PICK n \in 1..l : TieUpTo(order, place, r, s, n) /\ Wins(order, place, r, s, n)
    BY <1>5, BeforeIs
  <2>2. TieUpTo(order, place, r, t, n)
    BY <1>5, <2>1 DEF Tie, TieUpTo
  <2>3. Wins(order, place, r, t, n)
    BY <1>5, <2>1 DEF Tie, Wins
  <2> QED
    BY <2>2, <2>3, BeforeIs
<1> QED
  BY <1>2, <1>3, <1>4, <1>5

\* In a sort a row comes before another if its keys win, or if they tie
\* and it stood before the other: the sorts of row_ops.go and pipe/sort.go
\* are stable.
Precedes(order, place, seen, i, j) ==
    \/ Before(order, place, seen[i], seen[j])
    \/ ~Before(order, place, seen[j], seen[i]) /\ i < j

LEMMA PrecedesOrders ==
  ASSUME NEW order, NEW l \in Nat, DOMAIN order = 1..l, NEW place,
         NEW seen, NEW n \in Nat, \A i \in 1..n : Keyed(order, place, seen[i]),
         NEW i \in 1..n, NEW j \in 1..n, NEW k \in 1..n
  PROVE  /\ ~Precedes(order, place, seen, i, i)
         /\ i # j => Precedes(order, place, seen, i, j) \/ Precedes(order, place, seen, j, i)
         /\ Precedes(order, place, seen, i, j) /\ Precedes(order, place, seen, j, k)
               => Precedes(order, place, seen, i, k)
<1>1. /\ Keyed(order, place, seen[i]) /\ Keyed(order, place, seen[j])
      /\ Keyed(order, place, seen[k]) /\ i \in Int /\ j \in Int /\ k \in Int
  OBVIOUS
<1>2. ~Before(order, place, seen[i], seen[i])
  BY <1>1, BeforeTransitive
<1>3. ASSUME Precedes(order, place, seen, i, j), Precedes(order, place, seen, j, k)
      PROVE  Precedes(order, place, seen, i, k)
  <2>1. CASE Before(order, place, seen[i], seen[j]) /\ Before(order, place, seen[j], seen[k])
    BY <1>1, <2>1, BeforeTransitive DEF Precedes
  <2>2. CASE Before(order, place, seen[i], seen[j]) /\ ~Before(order, place, seen[j], seen[k])
    <3>1. Tie(order, place, seen[j], seen[k])
      BY <1>1, <1>3, <2>2, BeforeTotal DEF Precedes
    <3> QED
      BY <1>1, <2>2, <3>1, BeforeTransitive DEF Precedes
  <2>3. CASE ~Before(order, place, seen[i], seen[j]) /\ Before(order, place, seen[j], seen[k])
    <3>1. Tie(order, place, seen[i], seen[j])
      BY <1>1, <1>3, <2>3, BeforeTotal DEF Precedes
    <3> QED
      BY <1>1, <2>3, <3>1, BeforeTransitive DEF Precedes
  <2>4. CASE ~Before(order, place, seen[i], seen[j]) /\ ~Before(order, place, seen[j], seen[k])
    <3>1. i < j /\ j < k
      BY <1>3, <2>4 DEF Precedes
    <3>2. Tie(order, place, seen[i], seen[j]) /\ Tie(order, place, seen[j], seen[k])
      BY <1>1, <1>3, <2>4, BeforeTotal DEF Precedes
    <3>3. Tie(order, place, seen[i], seen[k])
      BY <3>2 DEF Tie
    <3>4. ~Before(order, place, seen[k], seen[k])
      BY <1>1, BeforeTransitive
    <3>5. ~Before(order, place, seen[k], seen[i])
      BY <1>1, <3>3, <3>4, BeforeTransitive
    <3> QED
      BY <1>1, <3>1, <3>5 DEF Precedes
  <2> QED
    BY <2>1, <2>2, <2>3, <2>4
<1>4. i # j => Precedes(order, place, seen, i, j) \/ Precedes(order, place, seen, j, i)
  BY <1>1 DEF Precedes
<1>5. ~Precedes(order, place, seen, i, i)
  BY <1>1, <1>2 DEF Precedes
<1> QED
  BY <1>3, <1>4, <1>5

Ahead(order, place, seen, n) ==
    {p \in (1..n) \X (1..n) : Precedes(order, place, seen, p[1], p[2])}

LEMMA AheadOrders ==
  ASSUME NEW order, NEW l \in Nat, DOMAIN order = 1..l, NEW place,
         NEW seen, NEW n \in Nat, \A i \in 1..n : Keyed(order, place, seen[i])
  PROVE  /\ Orders(Ahead(order, place, seen, n), 1..n)
         /\ \A i, j \in 1..n : <<i, j>> \in Ahead(order, place, seen, n)
                                <=> Precedes(order, place, seen, i, j)
<1>1. ASSUME NEW i \in 1..n, NEW j \in 1..n
      PROVE  <<i, j>> \in Ahead(order, place, seen, n) <=> Precedes(order, place, seen, i, j)
  BY DEF Ahead
<1>2. ASSUME NEW i \in 1..n
      PROVE  <<i, i>> \notin Ahead(order, place, seen, n)
  BY <1>1, PrecedesOrders
<1>3. ASSUME NEW i \in 1..n, NEW j \in 1..n, i # j
      PROVE  <<i, j>> \in Ahead(order, place, seen, n) \/ <<j, i>> \in Ahead(order, place, seen, n)
  BY <1>1, <1>3, PrecedesOrders
<1>4. ASSUME NEW i \in 1..n, NEW j \in 1..n, NEW k \in 1..n,
             <<i, j>> \in Ahead(order, place, seen, n), <<j, k>> \in Ahead(order, place, seen, n)
      PROVE  <<i, k>> \in Ahead(order, place, seen, n)
  <2>1. Precedes(order, place, seen, i, j) /\ Precedes(order, place, seen, j, k)
    BY <1>1, <1>4
  <2>2. Precedes(order, place, seen, i, k)
    BY <2>1, PrecedesOrders
  <2> QED
    BY <1>1, <2>2
<1> QED
  BY <1>1, <1>2, <1>3, <1>4, Zenon DEF Orders

\* A sorted table has the rows of the table.
SortedPlace(order, place, seen, k) ==
    CHOOSE i \in DOMAIN seen :
        Cardinality({j \in DOMAIN seen : \/ Before(order, place, seen[j], seen[i])
                                         \/ ~Before(order, place, seen[i], seen[j]) /\ j < i}) = k - 1

LEMMA SortedIs ==
  ASSUME NEW order, NEW place, NEW seen
  PROVE  Sorted(order, place, seen) =
             [k \in DOMAIN seen |-> seen[SortedPlace(order, place, seen, k)]]
BY DEF Sorted, SortedPlace

LEMMA SortedPlaceIn ==
  ASSUME NEW order, NEW l \in Nat, DOMAIN order = 1..l, NEW place,
         NEW seen, NEW n \in Nat, DOMAIN seen = 1..n,
         \A i \in 1..n : Keyed(order, place, seen[i]),
         NEW k \in 1..n
  PROVE  SortedPlace(order, place, seen, k) \in 1..n
<1> DEFINE A == Ahead(order, place, seen, n)
           S == 1..n
<1>1. /\ Orders(A, S)
      /\ \A i, j \in S : <<i, j>> \in A <=> Precedes(order, place, seen, i, j)
  BY AheadOrders
<1>2. IsFiniteSet(S) /\ Cardinality(S) = n
  <2>0. 1 \in Int /\ n \in Int
    OBVIOUS
  <2>1. IsFiniteSet(1..n) /\ Cardinality(1..n) = IF 1 > n THEN 0 ELSE n - 1 + 1
    BY <2>0, FS_Interval
  <2> QED
    BY <2>1
<1> HIDE DEF A
<1>3. \E i \in S : Cardinality(Under(S, A, i)) = k - 1
  <2> HIDE DEF S
  <2>1. k \in 1..Cardinality(S)
    BY <1>2
  <2> QED
    BY <1>1, <1>2, <2>1, UnderAll
<1>4. ASSUME NEW i \in S
      PROVE  Under(S, A, i) =
               {j \in DOMAIN seen : \/ Before(order, place, seen[j], seen[i])
                                    \/ ~Before(order, place, seen[i], seen[j]) /\ j < i}
  BY <1>1 DEF Under, Precedes
<1> QED
  BY <1>3, <1>4 DEF SortedPlace

\* Conditions. A tree is built height by height (Trees); such a function
\* of the heights exists, and all of them agree where they are both
\* defined.
Grow(n, lower) == lower \cup Layer(n, lower)
Sapling(m, f) ==
    /\ DOMAIN f = 0..m
    /\ f[0] = Layer(0, {})
    /\ \A n \in 1..m : f[n] = Grow(n, f[n - 1])

LEMMA Saplings == \A m \in Nat : \E f : Sapling(m, f)
<1> DEFINE N == {m \in Nat : \E f : Sapling(m, f)}
<1>1. 0 \in N
  <2>1. Sapling(0, [n \in 0..0 |-> Layer(0, {})])
    BY DEF Sapling
  <2> QED
    BY <2>1
<1>2. ASSUME NEW m \in N
      PROVE  m + 1 \in N
  <2>1. PICK f : Sapling(m, f)
    OBVIOUS
  <2>0. m \in Nat
    OBVIOUS
  <2> DEFINE g == [n \in 0..(m + 1) |-> IF n = m + 1 THEN Grow(n, f[m]) ELSE f[n]]
  <2>2. \A n \in 0..m : g[n] = f[n]
    BY <2>0
  <2>3. g[m + 1] = Grow(m + 1, f[m])
    BY <2>0
  <2>4. DOMAIN g = 0..(m + 1)
    OBVIOUS
  <2> HIDE DEF g
  <2>5. ASSUME NEW n \in 1..(m + 1)
        PROVE  g[n] = Grow(n, g[n - 1])
    <3>1. CASE n = m + 1
      BY <2>0, <2>2, <2>3, <3>1
    <3>2. CASE n \in 1..m
      <4>1. n \in 0..m /\ n - 1 \in 0..m
        BY <2>0, <3>2
      <4>2. f[n] = Grow(n, f[n - 1])
        BY <2>1, <3>2 DEF Sapling
      <4> QED
        BY <2>2, <4>1, <4>2
    <3> QED
      BY <2>0, <3>1, <3>2
  <2>6. g[0] = Layer(0, {})
    BY <2>0, <2>1, <2>2 DEF Sapling
  <2>7. Sapling(m + 1, g)
    BY <2>4, <2>5, <2>6 DEF Sapling
  <2> QED
    BY <2>0, <2>7
<1>3. N \in SUBSET Nat
  OBVIOUS
<1>4. N = Nat
  <2> HIDE DEF N
  <2> QED
    BY <1>1, <1>2, <1>3, AllNumbers
<1> QED
  BY <1>4

LEMMA SaplingsAgree ==
  ASSUME NEW m \in Nat, NEW f, Sapling(m, f), NEW l \in Nat, NEW g, Sapling(l, g)
  PROVE  \A n \in Nat : n <= m /\ n <= l => f[n] = g[n]
<1> DEFINE N == {n \in Nat : n <= m /\ n <= l => f[n] = g[n]}
<1>1. 0 \in N
  BY DEF Sapling
<1>2. ASSUME NEW n \in N
      PROVE  n + 1 \in N
  <2>1. n \in Nat /\ (n <= m /\ n <= l => f[n] = g[n])
    OBVIOUS
  <2>2. CASE n + 1 <= m /\ n + 1 <= l
    <3>1. n + 1 \in 1..m /\ n + 1 \in 1..l /\ (n + 1) - 1 = n
      BY <2>1, <2>2
    <3>2. f[n + 1] = Grow(n + 1, f[n]) /\ g[n + 1] = Grow(n + 1, g[n])
      BY <3>1 DEF Sapling
    <3> QED
      BY <2>1, <2>2, <3>1, <3>2
  <2> QED
    BY <2>1, <2>2
<1>3. N \in SUBSET Nat
  OBVIOUS
<1>4. N = Nat
  <2> HIDE DEF N
  <2> QED
    BY <1>1, <1>2, <1>3, AllNumbers
<1> QED
  BY <1>4

LEMMA TreesAre ==
  /\ Trees[0] = Layer(0, {})
  /\ \A h \in Nat : Trees[h + 1] = Trees[h] \cup Layer(h + 1, Trees[h])
<1> DEFINE f(m) == CHOOSE g : Sapling(m, g)
           T == [h \in Nat |-> f(h)[h]]
<1>1. ASSUME NEW m \in Nat
      PROVE  Sapling(m, f(m))
  BY Saplings
<1>2. ASSUME NEW h \in Nat
      PROVE  T[h] = IF h = 0 THEN Layer(0, {}) ELSE T[h - 1] \cup Layer(h, T[h - 1])
  <2>1. CASE h = 0
    BY <1>1, <2>1 DEF Sapling
  <2>2. CASE h # 0
    <3>1. h - 1 \in Nat /\ h \in 1..h /\ h - 1 <= h
      BY <2>2
    <3>2. Sapling(h, f(h)) /\ Sapling(h - 1, f(h - 1))
      BY <1>1, <3>1
    <3>3. f(h)[h] = Grow(h, f(h)[h - 1])
      BY <3>1, <3>2 DEF Sapling
    <3> HIDE DEF f
    <3>4. f(h)[h - 1] = f(h - 1)[h - 1]
      BY <3>1, <3>2, SaplingsAgree
    <3>5. T[h] = f(h)[h] /\ T[h - 1] = f(h - 1)[h - 1]
      BY <3>1
    <3> QED
      BY <2>2, <3>3, <3>4, <3>5 DEF Grow
  <2> QED
    BY <2>1, <2>2
<1>3. T = [h \in Nat |-> T[h]]
  OBVIOUS
<1> HIDE DEF T
<1>4. T = [h \in Nat |-> IF h = 0 THEN Layer(0, {}) ELSE T[h - 1] \cup Layer(h, T[h - 1])]
  BY <1>2, <1>3
<1>5. Trees = [h \in Nat |-> IF h = 0 THEN Layer(0, {})
                              ELSE Trees[h - 1] \cup Layer(h, Trees[h - 1])]
  BY <1>4 DEF Trees
<1>6. ASSUME NEW h \in Nat
      PROVE  Trees[h + 1] = Trees[h] \cup Layer(h + 1, Trees[h])
  <2>1. h + 1 \in Nat /\ h + 1 # 0 /\ (h + 1) - 1 = h
    OBVIOUS
  <2>2. Trees[h + 1] = Trees[(h + 1) - 1] \cup Layer(h + 1, Trees[(h + 1) - 1])
    BY <1>5, <2>1
  <2> QED
    BY <2>1, <2>2
<1>7. Trees[0] = Layer(0, {})
  BY <1>5
<1> QED
  BY <1>6, <1>7

\* A tree is also one of the higher ones, its parts are lower, and it has
\* its height.
LEMMA TreesRise ==
  ASSUME NEW h \in Nat, NEW k \in Nat, h <= k
  PROVE  Trees[h] \subseteq Trees[k]
<1> DEFINE N == {n \in Nat : Trees[h] \subseteq Trees[h + n]}
<1>1. 0 \in N
  OBVIOUS
<1>2. ASSUME NEW n \in N
      PROVE  n + 1 \in N
  <2>1. n \in Nat /\ h + n \in Nat /\ h + (n + 1) = (h + n) + 1
    OBVIOUS
  <2>2. Trees[h + n] \subseteq Trees[(h + n) + 1]
    BY <2>1, TreesAre
  <2> QED
    BY <2>1, <2>2
<1>3. N \in SUBSET Nat
  OBVIOUS
<1>4. N = Nat
  <2> HIDE DEF N
  <2> QED
    BY <1>1, <1>2, <1>3, AllNumbers
<1>5. k - h \in N /\ h + (k - h) = k
  BY <1>4
<1> QED
  BY <1>5

IsLayer(w, h, lower) ==
    /\ w.type \in Types /\ w.field \in STRING /\ w.op \in STRING /\ w.value \in Int
    /\ w.expr \subseteq STRING /\ w.of \subseteq lower /\ w.height = h

LEMMA TreesHave ==
  /\ \A w \in Trees[0] : IsLayer(w, 0, {}) /\ IsTree(w)
  /\ \A h \in Nat : \A w \in Trees[h + 1] :
        w \in Trees[h] \/ (IsLayer(w, h + 1, Trees[h]) /\ IsTree(w))
<1>1. ASSUME NEW h, NEW lower, NEW w \in Layer(h, lower)
      PROVE  IsLayer(w, h, lower)
  BY DEF Layer, IsLayer
<1>2. ASSUME NEW w \in Trees[0]
      PROVE  IsLayer(w, 0, {}) /\ IsTree(w)
  <2>1. IsLayer(w, 0, {})
    BY <1>1, TreesAre
  <2> QED
    BY <2>1 DEF IsLayer, IsTree
<1>3. ASSUME NEW h \in Nat, NEW w \in Trees[h + 1], w \notin Trees[h]
      PROVE  IsLayer(w, h + 1, Trees[h]) /\ IsTree(w)
  <2>1. IsLayer(w, h + 1, Trees[h])
    BY <1>1, <1>3, TreesAre
  <2> QED
    BY <2>1 DEF IsLayer, IsTree
<1> QED
  BY <1>2, <1>3

LEMMA TreesOf ==
  ASSUME NEW h \in Nat, NEW w \in Trees[h]
  PROVE  /\ IsTree(w) /\ w.height <= h
         /\ w.type \in Types
         /\ w.of \subseteq Trees[h]
         /\ h > 0 => w.of \subseteq Trees[h - 1]
         /\ h = 0 => w.of = {}
<1> DEFINE Fine(v, n) == /\ IsTree(v) /\ v.height <= n
                         /\ v.type \in Types
                         /\ v.of \subseteq Trees[n]
                         /\ n > 0 => v.of \subseteq Trees[n - 1]
                         /\ n = 0 => v.of = {}
           N == {n \in Nat : \A v \in Trees[n] : Fine(v, n)}
<1>1. 0 \in N
  <2>1. ASSUME NEW v \in Trees[0]
        PROVE  Fine(v, 0)
    <3>1. IsLayer(v, 0, {}) /\ IsTree(v)
      BY TreesHave
    <3> QED
      BY <3>1 DEF IsLayer
  <2> QED
    BY <2>1
<1>2. ASSUME NEW n \in N
      PROVE  n + 1 \in N
  <2>1. n \in Nat /\ \A v \in Trees[n] : Fine(v, n)
    OBVIOUS
  <2>2. Trees[n] \subseteq Trees[n + 1]
    BY <2>1, TreesAre
  <2>3. ASSUME NEW v \in Trees[n + 1]
        PROVE  Fine(v, n + 1)
    <3>1. CASE v \in Trees[n]
      <4>1. Fine(v, n)
        BY <2>1, <3>1
      <4> QED
        BY <2>1, <2>2, <4>1 DEF IsTree
    <3>2. CASE v \notin Trees[n]
      <4>1. IsLayer(v, n + 1, Trees[n]) /\ IsTree(v)
        BY <2>1, <3>2, TreesHave
      <4> QED
        BY <2>1, <2>2, <4>1 DEF IsLayer
    <3> QED
      BY <3>1, <3>2
  <2> QED
    BY <2>1, <2>3
<1>3. N \in SUBSET Nat
  OBVIOUS
<1>4. N = Nat
  <2> HIDE DEF N
  <2> QED
    BY <1>1, <1>2, <1>3, AllNumbers
<1> QED
  BY <1>4

\* What is read of a condition (whether a row holds it, which parts it
\* has) is read of its parts, by a function of the conditions up to a
\* height. Such functions exist, and agree whatever height they were made
\* for.
Reading(row, h) ==
    CHOOSE read : read = [v \in Trees[h] |-> HoldsIf(v, row, {read[u] : u \in v.of})]
Naming(h) ==
    CHOOSE read : read = [v \in Trees[h] |-> {v} \cup UNION {read[u] : u \in v.of}]

LEMMA HoldsIs ==
  ASSUME NEW w, NEW row
  PROVE  Holds(w, row) = Reading(row, w.height)[w]
BY DEF Holds, Read, Reading

LEMMA PartsIs ==
  ASSUME NEW w
  PROVE  Parts(w) = Naming(w.height)[w]
BY DEF Parts, Read, Naming

StepOf(kind, row, v, of) ==
    CASE kind = "holds" -> HoldsIf(v, row, of)
      [] kind = "truth" -> SqlTruthIf(v, row, of)
      [] kind = "split" -> SplitIf(v, row, of)
      [] OTHER          -> {v} \cup UNION of
ReadsAs(kind, row, h, f) ==
    f = [v \in Trees[h] |-> StepOf(kind, row, v, {f[u] : u \in v.of})]

LEMMA ReadingsExist ==
  ASSUME NEW kind, NEW row
  PROVE  \A h \in Nat : \E f : ReadsAs(kind, row, h, f)
<1> DEFINE N == {h \in Nat : \E f : ReadsAs(kind, row, h, f)}
<1>1. 0 \in N
  <2> DEFINE f == [v \in Trees[0] |-> StepOf(kind, row, v, {})]
  <2>1. \A v \in Trees[0] : v.of = {}
    BY TreesOf
  <2>2. \A v \in Trees[0] : {f[u] : u \in v.of} = {}
    BY <2>1
  <2>3. ReadsAs(kind, row, 0, f)
    BY <2>2 DEF ReadsAs
  <2> QED
    BY <2>3
<1>2. ASSUME NEW h \in N
      PROVE  h + 1 \in N
  <2>1. PICK g : ReadsAs(kind, row, h, g)
    OBVIOUS
  <2>2. h \in Nat /\ h + 1 \in Nat /\ h + 1 > 0 /\ (h + 1) - 1 = h
    OBVIOUS
  <2> DEFINE f == [v \in Trees[h + 1] |-> StepOf(kind, row, v, {g[u] : u \in v.of})]
  <2>3. \A v \in Trees[h + 1] : v.of \subseteq Trees[h]
    BY <2>2, TreesOf
  <2>4. Trees[h] \subseteq Trees[h + 1]
    BY <2>2, TreesAre
  <2>5. \A u \in Trees[h] : f[u] = g[u]
    BY <2>1, <2>4 DEF ReadsAs
  <2>6. \A v \in Trees[h + 1] : {f[u] : u \in v.of} = {g[u] : u \in v.of}
    BY <2>3, <2>5
  <2>7. ReadsAs(kind, row, h + 1, f)
    BY <2>6 DEF ReadsAs
  <2> QED
    BY <2>2, <2>7
<1>3. N \in SUBSET Nat
  OBVIOUS
<1>4. N = Nat
  <2> HIDE DEF N
  <2> QED
    BY <1>1, <1>2, <1>3, AllNumbers
<1> QED
  BY <1>4

LEMMA ReadingIs ==
  ASSUME NEW h \in Nat, NEW row
  PROVE  ReadsAs("holds", row, h, Reading(row, h)) /\ ReadsAs("parts", row, h, Naming(h))
<1>1. PICK f : ReadsAs("holds", row, h, f)
  BY ReadingsExist
<1>2. f = [v \in Trees[h] |-> HoldsIf(v, row, {f[u] : u \in v.of})]
  BY <1>1 DEF ReadsAs, StepOf
<1>3. Reading(row, h) = [v \in Trees[h] |-> HoldsIf(v, row, {Reading(row, h)[u] : u \in v.of})]
  BY <1>2, Zenon DEF Reading
<1>4. PICK g : ReadsAs("parts", row, h, g)
  BY ReadingsExist
<1>5. g = [v \in Trees[h] |-> {v} \cup UNION {g[u] : u \in v.of}]
  BY <1>4 DEF ReadsAs, StepOf
<1>6. Naming(h) = [v \in Trees[h] |-> {v} \cup UNION {Naming(h)[u] : u \in v.of}]
  BY <1>5, Zenon DEF Naming
<1> QED
  BY <1>3, <1>6 DEF ReadsAs, StepOf

LEMMA ReadingsAgree ==
  ASSUME NEW kind, NEW row, NEW F, \A h \in Nat : ReadsAs(kind, row, h, F[h])
  PROVE  \A m \in Nat : \A h \in Nat : m <= h => \A u \in Trees[m] : F[h][u] = F[m][u]
<1> DEFINE Same(m) == \A h \in Nat : m <= h => \A u \in Trees[m] : F[h][u] = F[m][u]
           N == {m \in Nat : Same(m)}
<1>0. \A h \in Nat : \A u \in Trees[h] : F[h][u] = StepOf(kind, row, u, {F[h][x] : x \in u.of})
  BY DEF ReadsAs
<1>1. 0 \in N
  <2>1. ASSUME NEW h \in Nat, NEW u \in Trees[0]
        PROVE  F[h][u] = F[0][u]
    <3>1. u.of = {} /\ u \in Trees[h]
      BY TreesOf, TreesRise
    <3>2. {F[h][x] : x \in u.of} = {F[0][x] : x \in u.of}
      BY <3>1
    <3>3. F[h][u] = StepOf(kind, row, u, {F[h][x] : x \in u.of})
      BY <1>0, <3>1, Zenon
    <3>4. F[0][u] = StepOf(kind, row, u, {F[0][x] : x \in u.of})
      BY <1>0, Zenon
    <3> QED
      BY <3>2, <3>3, <3>4, Zenon
  <2> QED
    BY <2>1
<1>2. ASSUME NEW m \in N
      PROVE  m + 1 \in N
  <2>1. m \in Nat /\ m + 1 \in Nat /\ m + 1 > 0 /\ (m + 1) - 1 = m /\ Same(m)
    OBVIOUS
  <2>2. ASSUME NEW h \in Nat, m + 1 <= h, NEW u \in Trees[m + 1]
        PROVE  F[h][u] = F[m + 1][u]
    <3>1. u.of \subseteq Trees[m] /\ u \in Trees[h]
      BY <2>1, <2>2, TreesOf, TreesRise
    <3>2. m <= h /\ m <= m + 1
      BY <2>1, <2>2
    <3>3. \A x \in Trees[m] : F[h][x] = F[m][x] /\ F[m + 1][x] = F[m][x]
      BY <2>1, <3>2
    <3>4. {F[h][x] : x \in u.of} = {F[m + 1][x] : x \in u.of}
      BY <3>1, <3>3
    <3>5. F[h][u] = StepOf(kind, row, u, {F[h][x] : x \in u.of})
      BY <1>0, <3>1, Zenon
    <3>6. F[m + 1][u] = StepOf(kind, row, u, {F[m + 1][x] : x \in u.of})
      BY <1>0, <2>1, Zenon
    <3> QED
      BY <3>4, <3>5, <3>6, Zenon
  <2>3. Same(m + 1)
    BY <2>2
  <2> QED
    BY <2>1, <2>3
<1>3. N \in SUBSET Nat
  OBVIOUS
<1>4. N = Nat
  <2> HIDE DEF N
  <2> QED
    BY <1>1, <1>2, <1>3, AllNumbers
<1> QED
  BY <1>4

\* So the value of a condition is made of the values of its parts.
LEMMA TreeOf ==
  ASSUME NEW w, IsTree(w)
  PROVE  /\ w.height \in Nat /\ w.type \in Types
         /\ w.of \subseteq Trees[w.height]
         /\ \A u \in w.of : IsTree(u) /\ u.height <= w.height
         /\ w.height = 0 => w.of = {}
         /\ w.height > 0 => w.of \subseteq Trees[w.height - 1]
BY TreesOf DEF IsTree

LEMMA HoldsOf ==
  ASSUME NEW w, IsTree(w), NEW row
  PROVE  Holds(w, row) = HoldsIf(w, row, {Holds(u, row) : u \in w.of})
<1> DEFINE F == [h \in Nat |-> Reading(row, h)]
           h == w.height
<1>1. \A k \in Nat : ReadsAs("holds", row, k, F[k])
  BY ReadingIs
<1>2. h \in Nat /\ w \in Trees[h] /\ w.of \subseteq Trees[h]
      /\ \A u \in w.of : u.height \in Nat /\ u.height <= h /\ u \in Trees[u.height]
  BY TreeOf DEF IsTree
<1>3. \A v : v.height \in Nat => Holds(v, row) = F[v.height][v]
  BY HoldsIs
<1> HIDE DEF F, h
<1>4. \A u \in w.of : F[h][u] = F[u.height][u]
  BY <1>1, <1>2, ReadingsAgree, SMTT(30)
<1>5. F[h][w] = HoldsIf(w, row, {F[h][u] : u \in w.of})
  BY <1>1, <1>2 DEF ReadsAs, StepOf
<1>6. {F[h][u] : u \in w.of} = {Holds(u, row) : u \in w.of}
  BY <1>2, <1>3, <1>4
<1> QED
  BY <1>2, <1>3, <1>5, <1>6 DEF h

LEMMA PartsOf ==
  ASSUME NEW w, IsTree(w)
  PROVE  Parts(w) = {w} \cup UNION {Parts(u) : u \in w.of}
<1> DEFINE F == [h \in Nat |-> Naming(h)]
           h == w.height
<1>1. \A k \in Nat : ReadsAs("parts", 0, k, F[k])
  BY ReadingIs
<1>2. h \in Nat /\ w \in Trees[h] /\ w.of \subseteq Trees[h]
      /\ \A u \in w.of : u.height \in Nat /\ u.height <= h /\ u \in Trees[u.height]
  BY TreeOf DEF IsTree
<1>3. \A v : v.height \in Nat => Parts(v) = F[v.height][v]
  BY PartsIs
<1> HIDE DEF F, h
<1>4. \A u \in w.of : F[h][u] = F[u.height][u]
  BY <1>1, <1>2, ReadingsAgree, SMTT(30)
<1>5. F[h][w] = {w} \cup UNION {F[h][u] : u \in w.of}
  BY <1>1, <1>2 DEF ReadsAs, StepOf
<1>6. {F[h][u] : u \in w.of} = {Parts(u) : u \in w.of}
  BY <1>2, <1>3, <1>4
<1> QED
  BY <1>2, <1>3, <1>5, <1>6 DEF h

\* A condition reads its fields, and no other column.
LEMMA HoldsBoolean ==
  ASSUME NEW w, IsTree(w), NEW row
  PROVE  Holds(w, row) \in BOOLEAN
<1>1. Holds(w, row) = HoldsIf(w, row, {Holds(u, row) : u \in w.of})
  BY HoldsOf
<1>2. w.type \in Types
  BY TreeOf
<1>3. SimpleHolds(w, row) \in BOOLEAN
  BY DEF SimpleHolds
<1>4. ASSUME NEW of
      PROVE  HoldsIf(w, row, of) \in BOOLEAN
  <2>1. w.type = "none" \/ w.type = "expr" \/ w.type = "simple" \/ w.type = "and"
        \/ w.type = "or" \/ w.type = "not"
    BY <1>2 DEF Types
  <2>2. CASE w.type = "none"
    BY <2>2 DEF HoldsIf
  <2>3. CASE w.type = "expr"
    BY <2>3 DEF HoldsIf
  <2>4. CASE w.type = "simple"
    BY <1>3, <2>4 DEF HoldsIf
  <2>5. CASE w.type = "and"
    BY <2>5 DEF HoldsIf
  <2>6. CASE w.type = "or"
    BY <2>6 DEF HoldsIf
  <2>7. CASE w.type = "not"
    BY <2>7 DEF HoldsIf
  <2> QED
    BY <2>1, <2>2, <2>3, <2>4, <2>5, <2>6, <2>7
<1> QED
  BY <1>1, <1>4

LEMMA FieldsHave ==
  ASSUME NEW w, IsTree(w)
  PROVE  /\ \A u \in w.of : Fields(u) \subseteq Fields(w)
         /\ w.type = "simple" => w.field \in Fields(w)
         /\ w.type # "simple" => w.expr \subseteq Fields(w)
<1>1. w \in Parts(w) /\ \A u \in w.of : Parts(u) \subseteq Parts(w)
  BY PartsOf
<1> QED
  BY <1>1 DEF Fields

LEMMA EvalReads ==
  ASSUME NEW e, NEW r, NEW s, \A c \in e : Get(r, c) = Get(s, c)
  PROVE  Eval(e, r) = Eval(e, s)
<1>1. [c \in e |-> Get(r, c)] = [c \in e |-> Get(s, c)]
  OBVIOUS
<1> QED
  BY <1>1 DEF Eval

LEMMA HoldsReads ==
  ASSUME NEW w, IsTree(w), NEW r, NEW s, \A c \in Fields(w) : Get(r, c) = Get(s, c)
  PROVE  Holds(w, r) = Holds(w, s)
<1> DEFINE Alike2(v) == (\A c \in Fields(v) : Get(r, c) = Get(s, c)) => Holds(v, r) = Holds(v, s)
           N == {h \in Nat : \A v \in Trees[h] : Alike2(v)}
<1>1. ASSUME NEW h \in Nat, NEW v \in Trees[h], \A u \in v.of : Alike2(u),
             \A c \in Fields(v) : Get(r, c) = Get(s, c)
      PROVE  Holds(v, r) = Holds(v, s)
  <2>1. IsTree(v)
    BY TreesOf
  <2>2. \A u \in v.of : Holds(u, r) = Holds(u, s)
    BY <1>1, <2>1, FieldsHave
  <2>3. {Holds(u, r) : u \in v.of} = {Holds(u, s) : u \in v.of}
    BY <2>2
  <2>4. Holds(v, r) = HoldsIf(v, r, {Holds(u, r) : u \in v.of})
        /\ Holds(v, s) = HoldsIf(v, s, {Holds(u, s) : u \in v.of})
    BY <2>1, HoldsOf
  <2>5. v.type = "simple" => SimpleHolds(v, r) = SimpleHolds(v, s)
    <3>1. v.type = "simple" => Get(r, v.field) = Get(s, v.field)
      BY <1>1, <2>1, FieldsHave
    <3> QED
      BY <3>1 DEF SimpleHolds
  <2>6. v.type = "expr" => Eval(v.expr, r) = Eval(v.expr, s)
    <3>1. v.type = "expr" => \A c \in v.expr : Get(r, c) = Get(s, c)
      BY <1>1, <2>1, FieldsHave
    <3> QED
      BY <3>1, EvalReads
  <2>7. \A of : HoldsIf(v, r, of) = HoldsIf(v, s, of)
    BY <2>5, <2>6 DEF HoldsIf
  <2> QED
    BY <2>3, <2>4, <2>7
<1>2. 0 \in N
  <2>1. \A v \in Trees[0] : v.of = {}
    BY TreesOf
  <2> QED
    BY <1>1, <2>1
<1>3. ASSUME NEW n \in N
      PROVE  n + 1 \in N
  <2>1. n \in Nat /\ n + 1 \in Nat /\ n + 1 > 0 /\ (n + 1) - 1 = n
        /\ \A v \in Trees[n] : Alike2(v)
    OBVIOUS
  <2>2. \A v \in Trees[n + 1] : v.of \subseteq Trees[n]
    BY <2>1, TreesOf
  <2> HIDE DEF Alike2
  <2>3. \A v \in Trees[n + 1] : \A u \in v.of : Alike2(u)
    BY <2>1, <2>2
  <2>4. \A v \in Trees[n + 1] : Alike2(v)
    BY <1>1, <2>1, <2>3 DEF Alike2
  <2> QED
    BY <2>1, <2>4
<1>4. N \in SUBSET Nat
  OBVIOUS
<1>5. N = Nat
  <2> HIDE DEF N
  <2> QED
    BY <1>2, <1>3, <1>4, AllNumbers
<1>6. w \in Trees[w.height] /\ w.height \in N
  BY <1>5 DEF IsTree
<1> QED
  BY <1>6

\* The empty condition, and two conditions made one.
LEMMA LayerOf ==
  ASSUME NEW type \in Types, NEW S, NEW h \in Nat, NEW lower, S \subseteq lower,
         type \in Leaves => S = {}
  PROVE  [type |-> type, field |-> "", op |-> "", value |-> Null,
          expr |-> {}, of |-> S, height |-> h] \in Layer(h, lower)
<1>1. Null \in Int /\ {} \in SUBSET STRING
  BY DEF Null
<1>2. "" \in STRING
  BY EmptyNameAssumption, Zenon
<1> QED
  BY <1>1, <1>2 DEF Layer

LEMMA NoWhereHolds ==
  /\ IsTree(NoWhere)
  /\ \A row : Holds(NoWhere, row) = TRUE
  /\ Parts(NoWhere) = {NoWhere}
<1>1. NoWhere \in Layer(0, {})
  <2>1. "none" \in Types /\ 0 \in Nat
    BY DEF Types
  <2> QED
    BY <2>1, LayerOf DEF NoWhere
<1>2. NoWhere.height = 0 /\ NoWhere.of = {} /\ NoWhere.type = "none"
  BY DEF NoWhere
<1>3. IsTree(NoWhere)
  BY <1>1, <1>2, TreesAre DEF IsTree
<1>4. ASSUME NEW row
      PROVE  Holds(NoWhere, row) = TRUE
  BY <1>2, <1>3, HoldsOf DEF HoldsIf
<1>5. Parts(NoWhere) = {NoWhere}
  BY <1>2, <1>3, PartsOf
<1> QED
  BY <1>3, <1>4, <1>5

LEMMA HigherOf ==
  ASSUME NEW m \in Nat, NEW n \in Nat
  PROVE  /\ Max({m, n} \cup {0}) \in Nat
         /\ m <= Max({m, n} \cup {0}) /\ n <= Max({m, n} \cup {0})
<1>1. \E x \in {m, n} \cup {0} : \A y \in {m, n} \cup {0} : x >= y
  <2>1. CASE m >= n
    BY <2>1
  <2>2. CASE n >= m
    BY <2>2
  <2> QED
    BY <2>1, <2>2
<1>2. /\ Max({m, n} \cup {0}) \in {m, n} \cup {0}
      /\ \A y \in {m, n} \cup {0} : Max({m, n} \cup {0}) >= y
  BY <1>1, Zenon DEF Max
<1> QED
  BY <1>2

HeightOver(S) == Max({w.height : w \in S} \cup {0})

LEMMA AndIs ==
  ASSUME NEW S
  PROVE  And(S) = [type |-> "and", field |-> "", op |-> "", value |-> Null,
                   expr |-> {}, of |-> S, height |-> 1 + HeightOver(S)]
<1>1. And(S) = [NoWhere EXCEPT !.type = "and", !.of = S, !.height = 1 + HeightOver(S)]
  BY DEF And, Compound, HeightOver
<1>2. DOMAIN NoWhere = {"type", "field", "op", "value", "expr", "of", "height"}
  BY DEF NoWhere
<1> QED
  BY <1>1, <1>2 DEF NoWhere

LEMMA AndOf ==
  ASSUME NEW v, IsTree(v), NEW w, IsTree(w)
  PROVE  /\ IsTree(And({v, w}))
         /\ \A row : Holds(And({v, w}), row) = (Holds(v, row) /\ Holds(w, row))
         /\ Parts(And({v, w})) = {And({v, w})} \cup Parts(v) \cup Parts(w)
         /\ And({v, w}).field = ""
<1> DEFINE a == And({v, w})
           m == Max({v.height, w.height} \cup {0})
           top == HeightOver({v, w})
<1>0. v.height \in Nat /\ w.height \in Nat
  BY DEF IsTree
<1>1. m \in Nat /\ v.height <= m /\ w.height <= m
  BY <1>0, HigherOf
<1>2. top = m
  <2>1. {x.height : x \in {v, w}} = {v.height, w.height}
    OBVIOUS
  <2> QED
    BY <2>1 DEF HeightOver
<1> HIDE DEF m, top
<1>3. a = [type |-> "and", field |-> "", op |-> "", value |-> Null,
           expr |-> {}, of |-> {v, w}, height |-> m + 1]
  <2>1. 1 + top = m + 1
    BY <1>1, <1>2
  <2>2. a = [type |-> "and", field |-> "", op |-> "", value |-> Null,
             expr |-> {}, of |-> {v, w}, height |-> 1 + top]
    BY AndIs DEF top
  <2> QED
    BY <2>1, <2>2
<1> HIDE DEF a
<1>4. v \in Trees[m] /\ w \in Trees[m]
  BY <1>0, <1>1, TreesRise DEF IsTree
<1>5. a \in Layer(m + 1, Trees[m])
  <2>1. "and" \in Types /\ "and" \notin Leaves /\ m + 1 \in Nat /\ {v, w} \subseteq Trees[m]
    BY <1>1, <1>4 DEF Types, Leaves
  <2> QED
    BY <1>3, <2>1, LayerOf
<1>6. a.height = m + 1 /\ a.of = {v, w} /\ a.type = "and" /\ a.field = ""
  BY <1>3
<1>7. IsTree(a)
  <2>1. a \in Trees[m + 1] /\ m + 1 \in Nat
    BY <1>1, <1>5, TreesAre
  <2> QED
    BY <1>6, <2>1 DEF IsTree
<1>8. ASSUME NEW row
      PROVE  Holds(a, row) = (Holds(v, row) /\ Holds(w, row))
  <2>1. Holds(a, row) = HoldsIf(a, row, {Holds(u, row) : u \in a.of})
    BY <1>7, HoldsOf
  <2>2. {Holds(u, row) : u \in a.of} = {Holds(v, row), Holds(w, row)}
    BY <1>6
  <2>3. Holds(v, row) \in BOOLEAN /\ Holds(w, row) \in BOOLEAN
    BY HoldsBoolean
  <2>4. HoldsIf(a, row, {Holds(v, row), Holds(w, row)}) = (FALSE \notin {Holds(v, row), Holds(w, row)})
    BY <1>6 DEF HoldsIf
  <2>5. (FALSE \notin {Holds(v, row), Holds(w, row)}) = (Holds(v, row) /\ Holds(w, row))
    BY <2>3, Zenon
  <2> QED
    BY <2>1, <2>2, <2>4, <2>5, Zenon
<1>9. Parts(a) = {a} \cup Parts(v) \cup Parts(w)
  <2>1. UNION {Parts(u) : u \in a.of} = Parts(v) \cup Parts(w)
    BY <1>6
  <2>2. Parts(a) = {a} \cup UNION {Parts(u) : u \in a.of}
    BY <1>7, PartsOf
  <2> QED
    BY <2>1, <2>2
<1> QED
  BY <1>6, <1>7, <1>8, <1>9 DEF a

LEMMA MergeOf ==
  ASSUME NEW v, IsTree(v), NEW w, IsTree(w)
  PROVE  /\ IsTree(MergeAnd(v, w))
         /\ \A row : Holds(MergeAnd(v, w), row) = (Holds(v, row) /\ Holds(w, row))
         /\ ~NamesVersion(v) /\ ~NamesVersion(w) => ~NamesVersion(MergeAnd(v, w))
<1>1. CASE v = NoWhere
  <2>1. \A row : Holds(w, row) \in BOOLEAN
    BY HoldsBoolean
  <2>2. \A row : Holds(w, row) = (Holds(v, row) /\ Holds(w, row))
    BY <1>1, <2>1, NoWhereHolds
  <2> QED
    BY <1>1, <2>2 DEF MergeAnd
<1>2. CASE v # NoWhere /\ w = NoWhere
  <2>1. \A row : Holds(v, row) \in BOOLEAN
    BY HoldsBoolean
  <2>2. \A row : Holds(v, row) = (Holds(v, row) /\ Holds(w, row))
    BY <1>2, <2>1, NoWhereHolds
  <2> QED
    BY <1>2, <2>2 DEF MergeAnd
<1>3. CASE v # NoWhere /\ w # NoWhere
  <2>1. MergeAnd(v, w) = And({v, w})
    BY <1>3 DEF MergeAnd
  <2>2. ~NamesVersion(v) /\ ~NamesVersion(w) => ~NamesVersion(And({v, w}))
    BY AndOf, ZenonT(60) DEF NamesVersion
  <2>3. /\ IsTree(And({v, w}))
        /\ \A row : Holds(And({v, w}), row) = (Holds(v, row) /\ Holds(w, row))
    BY AndOf
  <2> QED
    BY <2>1, <2>2, <2>3, Zenon
<1> QED
  BY <1>1, <1>2, <1>3

\* Tables, and what a query shows of their rows: the columns selected,
\* without the names qualified by their tables. What is read of the
\* columns in S is read of what is shown (Shows).
IsTable(X) == X \in Seq(Range(X)) /\ \A i \in DOMAIN X : IsRow(X[i])
View(cols, row) == Shown(IF cols = {} THEN row ELSE Columns(row, cols))
Through(cols, X) == [i \in DOMAIN X |-> View(cols, X[i])]
Shows(cols, S) == S \cap DOMAIN Qualified = {} /\ (cols # {} => S \subseteq cols)

LEMMA ViewShows ==
  ASSUME NEW cols, NEW S, Shows(cols, S), NEW row, NEW c \in S
  PROVE  Get(View(cols, row), c) = Get(row, c)
<1>1. c \notin DOMAIN Qualified
  BY DEF Shows
<1>2. CASE cols = {}
  BY <1>1, <1>2 DEF View, Shown, Restrict, Get
<1>3. CASE cols # {}
  <2>1. c \in cols
    BY <1>3 DEF Shows
  <2> QED
    BY <1>1, <1>3, <2>1 DEF View, Shown, Columns, Restrict, Get
<1> QED
  BY <1>2, <1>3

LEMMA TableIs ==
  ASSUME NEW X, IsTable(X)
  PROVE  /\ Len(X) \in Nat /\ DOMAIN X = 1..Len(X)
         /\ X = [i \in 1..Len(X) |-> X[i]]
         /\ DOMAIN X \in SUBSET Nat /\ IsFiniteSet(DOMAIN X)
         /\ \A S : S \subseteq DOMAIN X => S \in SUBSET Nat /\ IsFiniteSet(S)
                                           /\ Cardinality(S) \in Nat
<1>1. X \in Seq(Range(X)) /\ Len(X) \in Nat /\ DOMAIN X = 1..Len(X)
  BY DEF IsTable
<1>2. X = [i \in 1..Len(X) |-> X[i]]
  BY <1>1
<1>3. IsFiniteSet(1..Len(X))
  BY <1>1, FS_Interval
<1>4. ASSUME NEW S, S \subseteq DOMAIN X
      PROVE  S \in SUBSET Nat /\ IsFiniteSet(S) /\ Cardinality(S) \in Nat
  BY <1>1, <1>3, <1>4, FS_Subset, FS_CardinalityType
<1> QED
  BY <1>1, <1>2, <1>3, <1>4

LEMMA TableMade ==
  ASSUME NEW n \in Nat, NEW Y, Y = [i \in 1..n |-> Y[i]], \A i \in 1..n : IsRow(Y[i])
  PROVE  IsTable(Y) /\ Len(Y) = n
<1>1. Y \in [1..n -> Range(Y)]
  BY DEF Range
<1>2. Y \in Seq(Range(Y)) /\ Len(Y) = n /\ DOMAIN Y = 1..n
  BY <1>1
<1> QED
  BY <1>2 DEF IsTable

LEMMA ViewRow ==
  ASSUME NEW cols, NEW row, IsRow(row)
  PROVE  IsRow(View(cols, row))
BY DEF IsRow, View, Shown, Columns, Restrict

LEMMA ThroughTable ==
  ASSUME NEW cols, NEW X, IsTable(X)
  PROVE  /\ IsTable(Through(cols, X)) /\ Len(Through(cols, X)) = Len(X)
         /\ DOMAIN Through(cols, X) = DOMAIN X
         /\ \A i \in DOMAIN X : Through(cols, X)[i] = View(cols, X[i])
<1>1. Len(X) \in Nat /\ DOMAIN X = 1..Len(X) /\ \A i \in DOMAIN X : IsRow(X[i])
  BY TableIs DEF IsTable
<1>2. Through(cols, X) = [i \in 1..Len(X) |-> View(cols, X[i])]
  BY <1>1 DEF Through
<1>3. \A i \in 1..Len(X) : Through(cols, X)[i] = View(cols, X[i]) /\ IsRow(View(cols, X[i]))
  BY <1>1, <1>2, ViewRow
<1>4. Through(cols, X) = [i \in 1..Len(X) |-> Through(cols, X)[i]]
  BY <1>2, <1>3
<1>5. IsTable(Through(cols, X)) /\ Len(Through(cols, X)) = Len(X)
  BY <1>1, <1>3, <1>4, TableMade
<1> QED
  BY <1>1, <1>2, <1>3, <1>5

\* To keep rows and to show their columns can change places.
LEMMA KeptTable ==
  ASSUME NEW X, IsTable(X), NEW S, S \subseteq DOMAIN X
  PROVE  /\ IsTable(Kept(X, S)) /\ Len(Kept(X, S)) = Cardinality(S)
         /\ DOMAIN Kept(X, S) = 1..Cardinality(S)
         /\ \A k \in 1..Cardinality(S) :
               Nth(S, k) \in S /\ Kept(X, S)[k] = X[Nth(S, k)]
<1>1. S \in SUBSET Nat /\ IsFiniteSet(S) /\ Cardinality(S) \in Nat
  BY TableIs
<1>2. \A k \in 1..Cardinality(S) : Nth(S, k) \in S
  BY <1>1, NthAt
<1>3. \A k \in 1..Cardinality(S) : Kept(X, S)[k] = X[Nth(S, k)] /\ IsRow(X[Nth(S, k)])
  BY <1>2 DEF Kept, IsTable
<1>4. Kept(X, S) = [k \in 1..Cardinality(S) |-> Kept(X, S)[k]]
  BY DEF Kept
<1>5. IsTable(Kept(X, S)) /\ Len(Kept(X, S)) = Cardinality(S)
  BY <1>1, <1>3, <1>4, TableMade
<1>6. DOMAIN Kept(X, S) = 1..Cardinality(S)
  BY DEF Kept
<1> QED
  BY <1>2, <1>3, <1>5, <1>6

LEMMA KeptThrough ==
  ASSUME NEW cols, NEW X, IsTable(X), NEW S, S \subseteq DOMAIN X
  PROVE  Kept(Through(cols, X), S) = Through(cols, Kept(X, S))
<1>1. /\ DOMAIN Kept(X, S) = 1..Cardinality(S)
      /\ \A k \in 1..Cardinality(S) :
                 Nth(S, k) \in DOMAIN X /\ Kept(X, S)[k] = X[Nth(S, k)]
  BY KeptTable
<1>2. \A k \in 1..Cardinality(S) : Through(cols, X)[Nth(S, k)] = View(cols, Kept(X, S)[k])
  BY <1>1 DEF Through
<1>3. Kept(Through(cols, X), S) = [k \in 1..Cardinality(S) |-> View(cols, Kept(X, S)[k])]
  BY <1>2 DEF Kept
<1> QED
  BY <1>1, <1>3 DEF Through

\* So can a filter of columns that are shown. Two filters are one filter
\* of both conditions.
Meeting(w, X) == {i \in DOMAIN X : Holds(w, X[i])}

LEMMA FilteredTable ==
  ASSUME NEW w, NEW X, IsTable(X)
  PROVE  IsTable(Filtered(w, X)) /\ Filtered(w, X) = Kept(X, Meeting(w, X))
<1>1. Filtered(w, X) = Kept(X, Meeting(w, X)) /\ Meeting(w, X) \subseteq DOMAIN X
  BY DEF Filtered, Meeting
<1> QED
  BY <1>1, KeptTable

LEMMA FilteredAll ==
  ASSUME NEW X, X \in Seq(Range(X))
  PROVE  Filtered(NoWhere, X) = X
<1>1. Len(X) \in Nat /\ DOMAIN X = 1..Len(X) /\ X = [i \in 1..Len(X) |-> X[i]]
  OBVIOUS
<1>2. Meeting(NoWhere, X) = 1..Len(X)
  BY <1>1, NoWhereHolds DEF Meeting
<1>3. Kept(X, 1..Len(X)) = X
  BY <1>1, KeptAll
<1> QED
  BY <1>2, <1>3 DEF Filtered, Meeting

LEMMA FilteredThrough ==
  ASSUME NEW cols, NEW w, IsTree(w), Shows(cols, Fields(w)), NEW X, IsTable(X)
  PROVE  Filtered(w, Through(cols, X)) = Through(cols, Filtered(w, X))
<1>1. ASSUME NEW row
      PROVE  Holds(w, View(cols, row)) = Holds(w, row)
  BY ViewShows, HoldsReads
<1>2. Meeting(w, Through(cols, X)) = Meeting(w, X)
  BY <1>1 DEF Meeting, Through
<1>3. Filtered(w, Through(cols, X)) = Kept(Through(cols, X), Meeting(w, X))
  BY <1>2, ThroughTable, FilteredTable
<1>4. Meeting(w, X) \subseteq DOMAIN X
  BY DEF Meeting
<1> QED
  BY <1>3, <1>4, KeptThrough, FilteredTable

LEMMA FilteredTwice ==
  ASSUME NEW v, IsTree(v), NEW w, IsTree(w), NEW X, IsTable(X)
  PROVE  Filtered(w, Filtered(v, X)) = Filtered(MergeAnd(v, w), X)
<1> DEFINE A == Meeting(v, X)
           C == Meeting(MergeAnd(v, w), X)
           B == Meeting(w, Kept(X, A))
<1>1. A \subseteq DOMAIN X /\ A \in SUBSET Nat /\ IsFiniteSet(A)
  BY TableIs DEF Meeting
<1>2. \A i : i \in C <=> i \in A /\ Holds(w, X[i])
  BY MergeOf DEF Meeting
<1>3. C \in SUBSET A
  BY <1>2
<1>4. \A k \in 1..Cardinality(A) : Nth(A, k) \in A /\ Kept(X, A)[k] = X[Nth(A, k)]
  <2> HIDE DEF A
  <2> QED
    BY <1>1, KeptTable
<1>5. DOMAIN Kept(X, A) = 1..Cardinality(A)
  BY DEF Kept
<1>6. \A k : k \in B <=> k \in 1..Cardinality(A) /\ Holds(w, Kept(X, A)[k])
  BY <1>5 DEF Meeting
<1> HIDE DEF A, B, C
<1>7. \A k : k \in B <=> k \in 1..Cardinality(A) /\ Nth(A, k) \in C
  BY <1>2, <1>4, <1>6
<1>8. Kept(Kept(X, A), B) = Kept(X, C)
  BY <1>1, <1>3, <1>7, KeptTwice
<1>9. Filtered(v, X) = Kept(X, A) /\ Filtered(MergeAnd(v, w), X) = Kept(X, C)
  BY FilteredTable DEF A, C
<1>10. Filtered(w, Kept(X, A)) = Kept(Kept(X, A), B)
  BY <1>9, FilteredTable DEF B
<1> QED
  BY <1>8, <1>9, <1>10

\* So can a sort by columns that are shown: it is stable, so it only reads
\* its keys.
LEMMA RowsKeyed ==
  ASSUME NEW order, NEW row, IsRow(row)
  PROVE  Keyed(order, Memory, row)
BY DEF Keyed, KeyOf, Rank, IsRow, Get, Null, Memory, Database

LEMMA SortedTable ==
  ASSUME NEW order, order \in Seq(Range(order)), NEW X, IsTable(X)
  PROVE  /\ IsTable(Sorted(order, Memory, X)) /\ Len(Sorted(order, Memory, X)) = Len(X)
         /\ \A k \in DOMAIN X : SortedPlace(order, Memory, X, k) \in DOMAIN X
<1>1. Len(X) \in Nat /\ DOMAIN X = 1..Len(X) /\ \A i \in 1..Len(X) : IsRow(X[i])
  BY TableIs DEF IsTable
<1>2. \A i \in 1..Len(X) : Keyed(order, Memory, X[i])
  BY <1>1, RowsKeyed
<1>3. Len(order) \in Nat /\ DOMAIN order = 1..Len(order)
  OBVIOUS
<1>4. \A k \in 1..Len(X) : SortedPlace(order, Memory, X, k) \in 1..Len(X)
  BY <1>1, <1>2, <1>3, SortedPlaceIn
<1>5. Sorted(order, Memory, X) = [k \in 1..Len(X) |-> X[SortedPlace(order, Memory, X, k)]]
  BY <1>1, SortedIs
<1>6. \A k \in 1..Len(X) : IsRow(Sorted(order, Memory, X)[k])
  BY <1>1, <1>4, <1>5
<1>7. Sorted(order, Memory, X) = [k \in 1..Len(X) |-> Sorted(order, Memory, X)[k]]
  BY <1>5
<1>8. IsTable(Sorted(order, Memory, X)) /\ Len(Sorted(order, Memory, X)) = Len(X)
  BY <1>1, <1>6, <1>7, TableMade
<1> QED
  BY <1>1, <1>4, <1>8

LEMMA SortedByNothing ==
  ASSUME NEW X, X \in Seq(Range(X))
  PROVE  Sorted(<<>>, Memory, X) = X
<1>1. Len(X) \in Nat /\ DOMAIN X = 1..Len(X) /\ X = [i \in 1..Len(X) |-> X[i]]
  OBVIOUS
<1>2. \A r, s : ~Before(<<>>, Memory, r, s)
  BY DEF Before
<1>3. ASSUME NEW k \in 1..Len(X)
      PROVE  SortedPlace(<<>>, Memory, X, k) = k
  <2>1. \A i : {j \in DOMAIN X : \/ Before(<<>>, Memory, X[j], X[i])
                                 \/ ~Before(<<>>, Memory, X[i], X[j]) /\ j < i}
                 = {j \in DOMAIN X : j < i}
    BY <1>2
  <2>2. SortedPlace(<<>>, Memory, X, k) = Nth(DOMAIN X, k)
    BY <2>1 DEF SortedPlace, Nth
  <2> QED
    BY <1>1, <2>2, NthAll
<1>4. Sorted(<<>>, Memory, X) = [k \in 1..Len(X) |-> X[SortedPlace(<<>>, Memory, X, k)]]
  BY <1>1, SortedIs
<1> QED
  BY <1>1, <1>3, <1>4

LEMMA SortedThrough ==
  ASSUME NEW cols, NEW order, order \in Seq(Range(order)), Shows(cols, FieldsOf(order)),
         NEW X, IsTable(X)
  PROVE  Sorted(order, Memory, Through(cols, X)) = Through(cols, Sorted(order, Memory, X))
<1> DEFINE Y == Through(cols, X)
<1>1. DOMAIN Y = DOMAIN X /\ \A i \in DOMAIN X : Y[i] = View(cols, X[i])
  BY DEF Through
<1>2. \A row : \A n \in DOMAIN order : Get(View(cols, row), order[n].field) = Get(row, order[n].field)
  BY ViewShows DEF FieldsOf
<1>3. ASSUME NEW r, NEW s
      PROVE  Before(order, Memory, View(cols, r), View(cols, s)) = Before(order, Memory, r, s)
  <2>1. Len(order) \in Nat /\ DOMAIN order = 1..Len(order)
    OBVIOUS
  <2>2. \A n \in DOMAIN order : \A m \in 1..(n - 1) : m \in DOMAIN order
    BY <2>1
  <2> QED
    BY <1>2, <2>2 DEF Before
<1> HIDE DEF Y
<1>4. \A i, j \in DOMAIN X : Before(order, Memory, Y[i], Y[j]) = Before(order, Memory, X[i], X[j])
  BY <1>1, <1>3
<1>5. ASSUME NEW k \in DOMAIN X
      PROVE  SortedPlace(order, Memory, Y, k) = SortedPlace(order, Memory, X, k)
  <2>1. \A i \in DOMAIN X :
          {j \in DOMAIN Y : \/ Before(order, Memory, Y[j], Y[i])
                            \/ ~Before(order, Memory, Y[i], Y[j]) /\ j < i}
            = {j \in DOMAIN X : \/ Before(order, Memory, X[j], X[i])
                                \/ ~Before(order, Memory, X[i], X[j]) /\ j < i}
    BY <1>1, <1>4
  <2> QED
    BY <1>1, <2>1 DEF SortedPlace
<1>6. \A k \in DOMAIN X : SortedPlace(order, Memory, X, k) \in DOMAIN X
  BY SortedTable
<1>7. Sorted(order, Memory, Y) = [k \in DOMAIN X |-> Y[SortedPlace(order, Memory, X, k)]]
  BY <1>1, <1>5, SortedIs
<1>8. Sorted(order, Memory, X) = [k \in DOMAIN X |-> X[SortedPlace(order, Memory, X, k)]]
  BY SortedIs
<1>9. Sorted(order, Memory, Y) = [k \in DOMAIN X |-> View(cols, Sorted(order, Memory, X)[k])]
  BY <1>1, <1>6, <1>7, <1>8
<1> QED
  BY <1>8, <1>9 DEF Through, Y

\* So can a page; and the page of a page that was not limited is a page.
LEMMA LesserOf ==
  ASSUME NEW m \in Nat, NEW n \in Nat
  PROVE  Min({m, n}) = IF m <= n THEN m ELSE n
<1> DEFINE x == IF m <= n THEN m ELSE n
<1>1. x \in {m, n} /\ \A y \in {m, n} : x <= y
  OBVIOUS
<1>2. \A z \in {m, n} : (\A y \in {m, n} : z <= y) => z = x
  OBVIOUS
<1> HIDE DEF x
<1>3. (CHOOSE z \in {m, n} : \A y \in {m, n} : z <= y) = x
  BY <1>1, <1>2
<1>4. Min({m, n}) = x
  BY <1>3, Zenon DEF Min
<1> QED
  BY <1>4 DEF x

EndOf(X, offset, limit) ==
    IF limit = NoLimit \/ Len(X) <= offset + limit THEN Len(X) ELSE offset + limit

LEMMA PageIs ==
  ASSUME NEW X, X \in Seq(Range(X)), NEW offset \in Nat, NEW limit \in Nat \cup {NoLimit}
  PROVE  /\ EndOf(X, offset, limit) \in Nat /\ EndOf(X, offset, limit) <= Len(X)
         /\ Page(X, offset, limit)
              = [i \in 1..(EndOf(X, offset, limit) - offset) |-> X[offset + i]]
<1>1. X \in Seq(Range(X)) /\ Len(X) \in Nat
  OBVIOUS
<1>2. EndOf(X, offset, limit) \in Nat /\ EndOf(X, offset, limit) <= Len(X)
  BY <1>1 DEF EndOf, NoLimit
<1>3. Page(X, offset, limit) = SubSeq(X, offset + 1, EndOf(X, offset, limit))
  <2>1. CASE limit = NoLimit
    BY <2>1 DEF Page, EndOf
  <2>2. CASE limit # NoLimit
    <3>1. limit \in Nat /\ offset + limit \in Nat
      BY <2>2
    <3>2. Min({offset + limit, Len(X)}) = EndOf(X, offset, limit)
      <4>1. Min({offset + limit, Len(X)})
              = IF offset + limit <= Len(X) THEN offset + limit ELSE Len(X)
        BY <1>1, <3>1, LesserOf
      <4> QED
        BY <1>1, <2>2, <3>1, <4>1 DEF EndOf
    <3> QED
      BY <2>2, <3>2 DEF Page
  <2> QED
    BY <2>1, <2>2
<1> HIDE DEF EndOf
<1>4. SubSeq(X, offset + 1, EndOf(X, offset, limit))
        = [i \in 1..(EndOf(X, offset, limit) - offset) |-> X[offset + i]]
  BY <1>1, <1>2
<1> QED
  BY <1>2, <1>3, <1>4

Cut(X, offset, n) == [i \in 1..n |-> X[offset + i]]

LEMMA PageUpTo ==
  ASSUME NEW X, X \in Seq(Range(X)), NEW offset \in Nat, NEW limit \in Nat \cup {NoLimit},
         NEW e, e = EndOf(X, offset, limit)
  PROVE  /\ e \in Nat /\ e <= Len(X)
         /\ Page(X, offset, limit) = Cut(X, offset, e - offset)
<1> HIDE DEF EndOf
<1>1. /\ EndOf(X, offset, limit) \in Nat /\ EndOf(X, offset, limit) <= Len(X)
      /\ Page(X, offset, limit)
                = [i \in 1..(EndOf(X, offset, limit) - offset) |-> X[offset + i]]
  BY PageIs, ZenonT(60)
<1>2. Page(X, offset, limit) = Cut(X, offset, EndOf(X, offset, limit) - offset)
  BY <1>1 DEF Cut
<1> QED
  BY <1>1, <1>2

LEMMA PageTable ==
  ASSUME NEW X, IsTable(X), NEW offset \in Nat, NEW limit \in Nat \cup {NoLimit}
  PROVE  /\ IsTable(Page(X, offset, limit))
         /\ Len(Page(X, offset, limit))
              = IF offset <= EndOf(X, offset, limit) THEN EndOf(X, offset, limit) - offset ELSE 0
<1> DEFINE e == EndOf(X, offset, limit)
           P == Page(X, offset, limit)
           n == IF offset <= e THEN e - offset ELSE 0
<1>1. e \in Nat /\ e <= Len(X) /\ P = [i \in 1..(e - offset) |-> X[offset + i]]
  BY PageIs, Zenon DEF IsTable
<1>2. Len(X) \in Nat /\ DOMAIN X = 1..Len(X) /\ \A i \in 1..Len(X) : IsRow(X[i])
  BY TableIs DEF IsTable
<1> HIDE DEF e, P
<1>3. n \in Nat /\ 1..n = 1..(e - offset)
  BY <1>1
<1>4. \A i \in 1..n : offset + i \in 1..Len(X)
  BY <1>1, <1>2
<1>5. P = [i \in 1..n |-> P[i]] /\ \A i \in 1..n : IsRow(P[i])
  <2> HIDE DEF n
  <2> QED
    BY <1>1, <1>2, <1>3, <1>4
<1>6. IsTable(P) /\ Len(P) = n
  <2> HIDE DEF n
  <2> QED
    BY <1>3, <1>5, TableMade
<1> QED
  BY <1>6 DEF e, P

LEMMA PageAll ==
  ASSUME NEW X, X \in Seq(Range(X))
  PROVE  Page(X, 0, NoLimit) = X
<1>1. Len(X) \in Nat /\ X = [i \in 1..Len(X) |-> X[i]]
  OBVIOUS
<1>2. EndOf(X, 0, NoLimit) = Len(X)
  BY DEF EndOf
<1>3. Page(X, 0, NoLimit) = [i \in 1..(Len(X) - 0) |-> X[0 + i]]
  <2>1. 0 \in Nat /\ NoLimit \in Nat \cup {NoLimit}
    OBVIOUS
  <2>2. Page(X, 0, NoLimit) = Cut(X, 0, Len(X) - 0)
    BY <1>2, <2>1, PageUpTo
  <2> QED
    BY <2>2 DEF Cut
<1>4. Len(X) - 0 = Len(X) /\ \A i \in 1..Len(X) : 0 + i = i
  BY <1>1
<1> QED
  BY <1>1, <1>3, <1>4

LEMMA PageThrough ==
  ASSUME NEW cols, NEW X, IsTable(X), NEW offset \in Nat, NEW limit \in Nat \cup {NoLimit}
  PROVE  Page(Through(cols, X), offset, limit) = Through(cols, Page(X, offset, limit))
<1> DEFINE Y == Through(cols, X)
           e == EndOf(X, offset, limit)
<1>1. IsTable(Y) /\ Len(Y) = Len(X) /\ \A i \in DOMAIN X : Y[i] = View(cols, X[i])
  BY ThroughTable
<1>2. EndOf(Y, offset, limit) = e
  BY <1>1 DEF EndOf
<1>3. e \in Nat /\ e <= Len(X)
      /\ Page(X, offset, limit) = [i \in 1..(e - offset) |-> X[offset + i]]
  BY PageIs, ZenonT(60) DEF IsTable
<1>4. Page(Y, offset, limit) = [i \in 1..(e - offset) |-> Y[offset + i]]
  <2>1. Y \in Seq(Range(Y)) /\ e = EndOf(Y, offset, limit)
    BY <1>1, <1>2 DEF IsTable
  <2> HIDE DEF Y, e
  <2>2. Page(Y, offset, limit) = Cut(Y, offset, e - offset)
    BY <2>1, PageUpTo
  <2> QED
    BY <2>2 DEF Cut
<1>5. Len(X) \in Nat /\ DOMAIN X = 1..Len(X)
  BY TableIs
<1> HIDE DEF Y, e
<1>6. \A i \in 1..(e - offset) : offset + i \in DOMAIN X
  BY <1>3, <1>5
<1>7. Page(Y, offset, limit) = [i \in 1..(e - offset) |-> View(cols, Page(X, offset, limit)[i])]
  BY <1>1, <1>3, <1>4, <1>6
<1> QED
  BY <1>3, <1>7 DEF Through, Y

LEMMA PageTwice ==
  ASSUME NEW X, IsTable(X), NEW offset \in Nat, NEW n \in Nat
  PROVE  Page(Page(X, offset, NoLimit), 0, n) = Page(X, offset, n)
<1> DEFINE P == Page(X, offset, NoLimit)
           l == Len(X)
           m == IF offset <= l THEN l - offset ELSE 0
           e == EndOf(X, offset, n)
           d == EndOf(P, 0, n)
<1>1. l \in Nat /\ n # NoLimit
  BY TableIs DEF NoLimit
<1>2. EndOf(X, offset, NoLimit) = l
  BY DEF EndOf
<1>3. IsTable(P) /\ Len(P) = m
  BY <1>2, PageTable
<1>4. P = [i \in 1..(l - offset) |-> X[offset + i]]
  <2>1. X \in Seq(Range(X)) /\ NoLimit \in Nat \cup {NoLimit}
    BY DEF IsTable
  <2> HIDE DEF l
  <2>2. Page(X, offset, NoLimit) = Cut(X, offset, l - offset)
    BY <1>2, <2>1, PageUpTo
  <2> QED
    BY <2>2 DEF Cut
<1>5. e = IF l <= offset + n THEN l ELSE offset + n
  BY <1>1 DEF EndOf
<1>6. d = IF m <= 0 + n THEN m ELSE 0 + n
  BY <1>1, <1>3 DEF EndOf
<1>7. Page(X, offset, n) = [i \in 1..(e - offset) |-> X[offset + i]]
  <2>1. X \in Seq(Range(X)) /\ n \in Nat \cup {NoLimit} /\ e = EndOf(X, offset, n)
    BY DEF IsTable
  <2> HIDE DEF e
  <2>2. Page(X, offset, n) = Cut(X, offset, e - offset)
    BY <2>1, PageUpTo
  <2> QED
    BY <2>2 DEF Cut
<1>8. Page(P, 0, n) = [i \in 1..(d - 0) |-> P[0 + i]]
  <2>1. /\ 0 \in Nat /\ n \in Nat \cup {NoLimit} /\ d = EndOf(P, 0, n)
        /\ P \in Seq(Range(P))
    BY <1>3 DEF IsTable
  <2> HIDE DEF P, d
  <2>2. Page(P, 0, n) = Cut(P, 0, d - 0)
    BY <1>3, <2>1, PageUpTo
  <2> QED
    BY <2>2 DEF Cut
<1> HIDE DEF P, l, e, d
<1>9. 1..(e - offset) = 1..(d - 0)
  BY <1>1, <1>5, <1>6
<1>10. \A i \in 1..(d - 0) : i \in 1..(l - offset) /\ 0 + i = i
  BY <1>1, <1>6
<1>11. \A i \in 1..(d - 0) : P[0 + i] = X[offset + i]
  <2> HIDE DEF m
  <2> QED
    BY <1>4, <1>10
<1>12. Page(P, 0, n) = [i \in 1..(e - offset) |-> X[offset + i]]
  BY <1>8, <1>9, <1>11
<1> QED
  BY <1>7, <1>12 DEF P

\* Aggregates: they read the group's columns and those they fold.
SameIn(X, Y, cols) ==
    /\ DOMAIN X = DOMAIN Y /\ Len(X) = Len(Y)
    /\ X = <<>> <=> Y = <<>>
    /\ \A i \in DOMAIN X : \A c \in cols : Get(X[i], c) = Get(Y[i], c)

LEMMA ComputeReads ==
  ASSUME NEW X, NEW Y, NEW a, NEW cols, SameIn(X, Y, cols),
         a.fn # "COUNT" \/ a.field # "*" => a.field \in cols
  PROVE  ComputeAggregate(a, X) = ComputeAggregate(a, Y)
<1>1. CASE a.fn = "COUNT" /\ a.field = "*"
  BY <1>1 DEF ComputeAggregate, SameIn
<1>2. CASE a.fn # "COUNT" \/ a.field # "*"
  <2> DEFINE c == a.field
  <2>1. \A i \in DOMAIN X : Get(X[i], c) = Get(Y[i], c)
    BY <1>2 DEF SameIn
  <2>2. DOMAIN X = DOMAIN Y
    BY DEF SameIn
  <2>3. Values(X, c) = Values(Y, c) /\ Values(X, c) \subseteq DOMAIN X
    BY <2>1, <2>2 DEF Values
  <2>4. [i \in Values(X, c) |-> Get(X[i], c)] = [i \in Values(Y, c) |-> Get(Y[i], c)]
    BY <2>1, <2>3
  <2>5. Total(X, c) = Total(Y, c)
    BY <2>4 DEF Total
  <2>6. {Get(X[i], c) : i \in Values(X, c)} = {Get(Y[i], c) : i \in Values(Y, c)}
    BY <2>1, <2>3
  <2>7. {Get(X[i], c) : i \in DOMAIN X} = {Get(Y[i], c) : i \in DOMAIN Y}
    BY <2>1, <2>2
  <2>8. Least(X, c, DOMAIN X) = Least(Y, c, DOMAIN Y)
    BY <2>7 DEF Least
  <2>9. X = <<>> <=> Y = <<>>
    BY DEF SameIn
  <2>10. CASE a.fn = "COUNT"
    BY <1>2, <2>3, <2>10 DEF ComputeAggregate
  <2>11. CASE a.fn = "SUM"
    BY <2>5, <2>11 DEF ComputeAggregate
  <2>12. CASE a.fn = "MIN"
    BY <2>2, <2>3, <2>6, <2>8, <2>9, <2>12 DEF ComputeAggregate
  <2>13. CASE a.fn \notin {"COUNT", "SUM", "MIN"}
    BY <2>13 DEF ComputeAggregate
  <2> QED
    BY <2>10, <2>11, <2>12, <2>13
<1> QED
  BY <1>1, <1>2

\* Groups have the same rows whether all columns are shown or only those
\* they are made and folded of; so they are folded to the same rows.
KeyIn(keys, row) == [c \in Range(keys) |-> Get(row, c)]
AlikeTo(keys, X, i) == {j \in DOMAIN X : KeyIn(keys, X[j]) = KeyIn(keys, X[i])}
Firsts(keys, X) ==
    {i \in DOMAIN X : \A j \in 1..(i - 1) : KeyIn(keys, X[j]) # KeyIn(keys, X[i])}
GroupAt(keys, X, n) == Kept(X, AlikeTo(keys, X, Nth(Firsts(keys, X), n)))

LEMMA GroupsAre ==
  ASSUME NEW keys, NEW X
  PROVE  Groups(X, keys)
           = [n \in 1..Cardinality(Firsts(keys, X)) |-> GroupAt(keys, X, n)]
BY DEF Groups, GroupAt, KeyIn, AlikeTo, Firsts

LEMMA GroupHasFirst ==
  ASSUME NEW keys, NEW X, IsTable(X), NEW n \in 1..Cardinality(Firsts(keys, X))
  PROVE  /\ AlikeTo(keys, X, Nth(Firsts(keys, X), n)) \subseteq DOMAIN X
         /\ IsTable(GroupAt(keys, X, n)) /\ 1 \in DOMAIN GroupAt(keys, X, n)
<1> DEFINE S == Firsts(keys, X)
           i == Nth(S, n)
           A == AlikeTo(keys, X, i)
<1>1. S \subseteq DOMAIN X
  BY DEF Firsts
<1>2. S \in SUBSET Nat /\ IsFiniteSet(S)
  BY <1>1, TableIs
<1> HIDE DEF S
<1>3. i \in S
  BY <1>2, NthAt DEF S
<1>4. i \in A /\ A \subseteq DOMAIN X
  BY <1>1, <1>3 DEF AlikeTo
<1> HIDE DEF i, A
<1>5. IsFiniteSet(A) /\ Cardinality(A) \in Nat
  BY <1>4, TableIs
<1>6. Cardinality(A) # 0
  BY <1>4, <1>5, FS_EmptySet
<1>7. IsTable(Kept(X, A)) /\ DOMAIN Kept(X, A) = 1..Cardinality(A)
  BY <1>4, KeptTable
<1>8. 1 \in 1..Cardinality(A)
  BY <1>5, <1>6
<1> QED
  BY <1>4, <1>7, <1>8 DEF S, i, A, GroupAt

LEMMA GroupsThrough ==
  ASSUME NEW cols, NEW keys, Shows(cols, Range(keys)), NEW X, IsTable(X)
  PROVE  /\ Firsts(keys, Through(cols, X)) = Firsts(keys, X)
         /\ \A n \in 1..Cardinality(Firsts(keys, X)) :
               GroupAt(keys, Through(cols, X), n) = Through(cols, GroupAt(keys, X, n))
<1> DEFINE Y == Through(cols, X)
           S == Firsts(keys, X)
<1>1. ASSUME NEW row
      PROVE  KeyIn(keys, View(cols, row)) = KeyIn(keys, row)
  BY ViewShows DEF KeyIn
<1>2. DOMAIN Y = DOMAIN X /\ \A i \in DOMAIN X : KeyIn(keys, Y[i]) = KeyIn(keys, X[i])
  BY <1>1 DEF Through
<1>3. Len(X) \in Nat /\ DOMAIN X = 1..Len(X)
  BY TableIs
<1> HIDE DEF Y
<1>4. \A i \in DOMAIN X : \A j \in 1..(i - 1) : j \in DOMAIN X
  BY <1>3
<1>5. Firsts(keys, Y) = S
  BY <1>2, <1>4 DEF Firsts
<1>6. \A i \in DOMAIN X : AlikeTo(keys, Y, i) = AlikeTo(keys, X, i)
  BY <1>2 DEF AlikeTo
<1>7. ASSUME NEW n \in 1..Cardinality(S)
      PROVE  GroupAt(keys, Y, n) = Through(cols, GroupAt(keys, X, n))
  <2>1. S \subseteq DOMAIN X
    BY DEF Firsts
  <2>2. S \in SUBSET Nat /\ IsFiniteSet(S)
    BY <2>1, TableIs
  <2> DEFINE i == Nth(S, n)
             A == AlikeTo(keys, X, i)
  <2>3. i \in S
    <3> HIDE DEF S
    <3> QED
      BY <2>2, NthAt
  <2>4. A \subseteq DOMAIN X
    BY DEF AlikeTo
  <2>5. GroupAt(keys, Y, n) = Kept(Y, A)
    BY <1>5, <1>6, <2>1, <2>3 DEF GroupAt
  <2>6. GroupAt(keys, X, n) = Kept(X, A)
    BY DEF GroupAt
  <2> HIDE DEF A
  <2> QED
    BY <2>4, <2>5, <2>6, KeptThrough DEF Y
<1> QED
  BY <1>5, <1>7 DEF Y, S

LEMMA SameThrough ==
  ASSUME NEW cols, NEW S, Shows(cols, S), NEW X, IsTable(X)
  PROVE  SameIn(X, Through(cols, X), S)
<1> DEFINE Y == Through(cols, X)
<1>1. IsTable(Y) /\ Len(Y) = Len(X) /\ DOMAIN Y = DOMAIN X
  BY ThroughTable
<1>2. \A i \in DOMAIN X : \A c \in S : Get(Y[i], c) = Get(X[i], c)
  BY ViewShows DEF Through
<1> HIDE DEF Y
<1>3. (X = <<>> <=> Len(X) = 0) /\ (Y = <<>> <=> Len(Y) = 0)
  BY <1>1 DEF IsTable
<1> QED
  BY <1>1, <1>2, <1>3 DEF SameIn, Y

\* The row folded of a group, and the groups of a stage.
RowOf(keys, aggs, g) ==
    [c \in Range(keys) \cup {a.as : a \in aggs} |->
        IF c \in Range(keys) THEN Get(g[1], c)
        ELSE ComputeAggregate(CHOOSE a \in aggs : a.as = c, g)]
GroupsOf(X, keys) == IF keys = <<>> THEN <<X>> ELSE Groups(X, keys)

LEMMA FoldedIs ==
  ASSUME NEW X, NEW keys, NEW aggs
  PROVE  Folded(X, keys, aggs, Memory)
           = [n \in DOMAIN GroupsOf(X, keys) |-> RowOf(keys, aggs, GroupsOf(X, keys)[n])]
<1> DEFINE G == GroupsOf(X, keys)
           Row(g) == [c \in Range(keys) \cup {a.as : a \in aggs} |->
                         IF c \in Range(keys) THEN Get(g[1], c)
                         ELSE Aggregate(CHOOSE a \in aggs : a.as = c, g, Memory)]
<1>1. Folded(X, keys, aggs, Memory) = [n \in DOMAIN G |-> Row(G[n])]
  BY DEF Folded, GroupsOf
<1>2. \A a, g : Aggregate(a, g, Memory) = ComputeAggregate(a, g)
  BY DEF Aggregate
<1>3. ASSUME NEW g
      PROVE  Row(g) = RowOf(keys, aggs, g)
  BY <1>2 DEF RowOf
<1> HIDE DEF G, Row
<1>4. \A n \in DOMAIN G : Row(G[n]) = RowOf(keys, aggs, G[n])
  BY <1>3
<1>5. Folded(X, keys, aggs, Memory) = [n \in DOMAIN G |-> RowOf(keys, aggs, G[n])]
  BY <1>1, <1>4
<1> QED
  BY <1>5 DEF G

LEMMA RowSame ==
  ASSUME NEW keys, NEW aggs, NEW g, NEW h, SameIn(g, h, Range(keys) \cup ReadBy(aggs)),
         Range(keys) = {} \/ 1 \in DOMAIN g
  PROVE  RowOf(keys, aggs, g) = RowOf(keys, aggs, h)
<1> DEFINE S == Range(keys) \cup ReadBy(aggs)
<1>1. ASSUME NEW c \in Range(keys)
      PROVE  Get(g[1], c) = Get(h[1], c)
  BY DEF SameIn
<1>2. ASSUME NEW a \in aggs
      PROVE  ComputeAggregate(a, g) = ComputeAggregate(a, h)
  <2>1. a.fn # "COUNT" \/ a.field # "*" => a.field \in S
    BY DEF ReadBy
  <2> HIDE DEF S
  <2>2. SameIn(g, h, S)
    BY DEF S
  <2> QED
    BY <2>1, <2>2, ComputeReads
<1>3. ASSUME NEW c \in {a.as : a \in aggs}
      PROVE  (CHOOSE a \in aggs : a.as = c) \in aggs
  OBVIOUS
<1> QED
  BY <1>1, <1>2, <1>3 DEF RowOf

LEMMA FoldedThrough ==
  ASSUME NEW cols, NEW keys, NEW aggs, Shows(cols, Range(keys) \cup ReadBy(aggs)),
         NEW X, IsTable(X)
  PROVE  Folded(Through(cols, X), keys, aggs, Memory) = Folded(X, keys, aggs, Memory)
<1> DEFINE Y == Through(cols, X)
           S == Range(keys) \cup ReadBy(aggs)
<1>1. DOMAIN GroupsOf(Y, keys) = DOMAIN GroupsOf(X, keys)
      /\ \A n \in DOMAIN GroupsOf(X, keys) :
            RowOf(keys, aggs, GroupsOf(Y, keys)[n]) = RowOf(keys, aggs, GroupsOf(X, keys)[n])
  <2>1. CASE keys = <<>>
    <3>1. Range(keys) = {}
      BY <2>1 DEF Range
    <3>2. RowOf(keys, aggs, X) = RowOf(keys, aggs, Y)
      BY <3>1, SameThrough, RowSame
    <3>3. GroupsOf(X, keys) = <<X>> /\ GroupsOf(Y, keys) = <<Y>>
      BY <2>1 DEF GroupsOf
    <3> HIDE DEF Y
    <3> QED
      BY <3>2, <3>3
  <2>2. CASE keys # <<>>
    <3> DEFINE m == Cardinality(Firsts(keys, X))
    <3>0. Shows(cols, Range(keys))
      BY DEF Shows
    <3>1. /\ Firsts(keys, Y) = Firsts(keys, X)
          /\ \A n \in 1..m : GroupAt(keys, Y, n) = Through(cols, GroupAt(keys, X, n))
      BY <3>0, GroupsThrough
    <3>2. ASSUME NEW n \in 1..m
          PROVE  RowOf(keys, aggs, GroupAt(keys, Y, n)) = RowOf(keys, aggs, GroupAt(keys, X, n))
      <4> DEFINE g == GroupAt(keys, X, n)
                 h == GroupAt(keys, Y, n)
      <4>1. IsTable(g) /\ 1 \in DOMAIN g
        BY GroupHasFirst
      <4>2. h = Through(cols, g)
        BY <3>1
      <4> HIDE DEF g, h
      <4>3. SameIn(g, h, S)
        BY <4>1, <4>2, SameThrough
      <4>4. RowOf(keys, aggs, g) = RowOf(keys, aggs, h)
        BY <4>1, <4>3, RowSame
      <4> QED
        BY <4>4 DEF g, h
    <3>3. /\ GroupsOf(X, keys) = [n \in 1..m |-> GroupAt(keys, X, n)]
          /\ GroupsOf(Y, keys) = [n \in 1..m |-> GroupAt(keys, Y, n)]
      BY <2>2, <3>1, GroupsAre DEF GroupsOf
    <3> HIDE DEF Y, m
    <3> QED
      BY <3>2, <3>3
  <2> QED
    BY <2>1, <2>2
<1>2. /\ Folded(X, keys, aggs, Memory)
           = [n \in DOMAIN GroupsOf(X, keys) |-> RowOf(keys, aggs, GroupsOf(X, keys)[n])]
      /\ Folded(Y, keys, aggs, Memory)
           = [n \in DOMAIN GroupsOf(Y, keys) |-> RowOf(keys, aggs, GroupsOf(Y, keys)[n])]
  BY FoldedIs
<1> HIDE DEF Y
<1>3. Folded(Y, keys, aggs, Memory) = Folded(X, keys, aggs, Memory)
  BY <1>1, <1>2
<1> QED
  BY <1>3 DEF Y

LEMMA FoldedSeq ==
  ASSUME NEW keys, NEW aggs, NEW X, IsTable(X),
         (Range(keys) \cup {a.as : a \in aggs}) \cap DOMAIN Qualified = {}
  PROVE  /\ Folded(X, keys, aggs, Memory) \in Seq(Range(Folded(X, keys, aggs, Memory)))
         /\ \A n \in DOMAIN Folded(X, keys, aggs, Memory) :
               Shown(Folded(X, keys, aggs, Memory)[n]) = Folded(X, keys, aggs, Memory)[n]
<1> DEFINE F == Folded(X, keys, aggs, Memory)
           m == IF keys = <<>> THEN 1 ELSE Cardinality(Firsts(keys, X))
<1>1. F = [n \in DOMAIN GroupsOf(X, keys) |-> RowOf(keys, aggs, GroupsOf(X, keys)[n])]
  BY FoldedIs
<1>2. m \in Nat
  <2>1. Firsts(keys, X) \subseteq DOMAIN X
    BY DEF Firsts
  <2> QED
    BY <2>1, TableIs
<1>3. DOMAIN GroupsOf(X, keys) = 1..m
  <2>1. CASE keys = <<>>
    BY <2>1 DEF GroupsOf
  <2>2. CASE keys # <<>>
    BY <2>2, GroupsAre DEF GroupsOf
  <2> QED
    BY <2>1, <2>2
<1>4. ASSUME NEW g
      PROVE  Shown(RowOf(keys, aggs, g)) = RowOf(keys, aggs, g)
  <2>1. DOMAIN RowOf(keys, aggs, g) = Range(keys) \cup {a.as : a \in aggs}
    BY DEF RowOf
  <2>2. RowOf(keys, aggs, g) = [c \in DOMAIN RowOf(keys, aggs, g) |-> RowOf(keys, aggs, g)[c]]
    BY DEF RowOf
  <2>3. DOMAIN RowOf(keys, aggs, g) \ DOMAIN Qualified = DOMAIN RowOf(keys, aggs, g)
    BY <2>1
  <2> QED
    BY <2>2, <2>3 DEF Shown, Restrict
<1> HIDE DEF F, m
<1>5. F \in [1..m -> Range(F)]
  BY <1>1, <1>3 DEF Range
<1>6. F \in Seq(Range(F))
  BY <1>2, <1>5
<1>7. \A n \in DOMAIN F : Shown(F[n]) = F[n]
  BY <1>1, <1>4
<1> QED
  BY <1>6, <1>7 DEF F

\* What a statement without joins reads: the current rows of its dataset
\* that the caller sees, in the order of their places. Its keys have one
\* place each.
LEMMA NothingWritten == AsWritten(<<>>) = <<>>
<1> DEFINE f == AsWritten(<<>>)
<1>1. DOMAIN f = {}
  BY DEF AsWritten
<1>2. f = [n \in DOMAIN f |-> f[n]]
  BY DEF AsWritten
<1> HIDE DEF f
<1>3. f = <<>>
  BY <1>1, <1>2
<1> QED
  BY <1>3 DEF f

LEMMA TableAlone ==
  /\ \A c \in NamesIn(<<>>) : Owners(<<>>, c) = {1}
  /\ \A data, p : p # NoPlace => RowsAt(Sources(data, <<>>), <<p>>)[1] = data[p]
<1> DEFINE table == [alias |-> dataset.table, cols |-> dataset.columns]
           more1 == [n \in DOMAIN <<>> |-> [alias |-> <<>>[n].alias, cols |-> <<>>[n].of.columns]]
<1>1. Tables(<<>>) = <<table>>
  <2>1. Tables(<<>>) = <<table>> \o more1
    BY DEF Tables
  <2>2. more1 = <<>>
    <3>1. DOMAIN more1 = {} /\ more1 = [n \in DOMAIN more1 |-> more1[n]]
      OBVIOUS
    <3> HIDE DEF more1
    <3> QED
      BY <3>1
  <2> HIDE DEF table, more1
  <2>3. <<table>> \o <<>> = <<table>>
    OBVIOUS
  <2> QED
    BY <2>1, <2>2, <2>3
<1> HIDE DEF table, more1
<1>2. DOMAIN Tables(<<>>) = {1} /\ Tables(<<>>)[1] = table /\ Range(Tables(<<>>)) = {table}
  BY <1>1 DEF Range
<1>3. NamesIn(<<>>) = NamesFor(table.alias, table.cols)
  BY <1>2 DEF NamesIn
<1>4. \A c \in NamesIn(<<>>) : Owners(<<>>, c) = {1}
  BY <1>2, <1>3 DEF Owners
<1>5. ASSUME NEW data, NEW p, p # NoPlace
      PROVE  RowsAt(Sources(data, <<>>), <<p>>)[1] = data[p]
  <2> DEFINE rest == [n \in DOMAIN <<>> |-> <<>>[n].of.rows]
  <2>1. Sources(data, <<>>) = <<data>> \o rest
    BY DEF Sources
  <2>2. rest = <<>>
    <3>1. DOMAIN rest = {} /\ rest = [n \in DOMAIN rest |-> rest[n]]
      OBVIOUS
    <3> HIDE DEF rest
    <3> QED
      BY <3>1
  <2> HIDE DEF rest
  <2>3. Sources(data, <<>>)[1] = data
    BY <2>1, <2>2
  <2>4. DOMAIN <<p>> = {1} /\ <<p>>[1] = p
    OBVIOUS
  <2> QED
    BY <1>5, <2>3, <2>4 DEF RowsAt
<1> QED
  BY <1>4, <1>5

LEMMA KeysAlone ==
  ASSUME NEW data
  PROVE  Keys(data, <<>>) = {<<p>> : p \in DOMAIN data}
<1>1. <<>> \in Seq(Range(<<>>)) /\ Len(<<>>) = 0
  OBVIOUS
<1>2. \E upTo : Keys(data, <<>>) = upTo[Len(<<>>)] /\ upTo[0] = {<<p>> : p \in DOMAIN data}
  BY <1>1, KeysUnfold, ZenonT(60)
<1> QED
  BY <1>1, <1>2

Places(keys) == {p \in keys \X keys : Earlier(p[1], p[2])}

LEMMA EarlierAlone ==
  ASSUME NEW key, NEW other, DOMAIN key = {1}, key[1] \in Nat, key[1] # NoPlace,
         other[1] \in Nat, other[1] # NoPlace
  PROVE  Earlier(key, other) <=> key[1] < other[1]
<1>1. \A n \in DOMAIN key : n = 1
  OBVIOUS
<1>2. \A m \in 1..(1 - 1) : key[m] = other[m]
  OBVIOUS
<1>3. 1 \in DOMAIN key
  OBVIOUS
<1>4. key[1] < other[1] => key[1] # other[1]
  OBVIOUS
<1>5. ASSUME Earlier(key, other)
      PROVE  key[1] < other[1]
  BY <1>1, <1>5 DEF Earlier
<1>6. ASSUME key[1] < other[1]
      PROVE  Earlier(key, other)
  BY <1>2, <1>3, <1>4, <1>6 DEF Earlier
<1> QED
  BY <1>5, <1>6

LEMMA PlacesOrder ==
  ASSUME NEW n \in Nat, NEW D \in SUBSET (1..n), NEW K, K = {<<p>> : p \in D}
  PROVE  /\ IsFiniteSet(K) /\ Orders(Places(K), K)
         /\ \A key \in K : Under(K, Places(K), key) = {k \in K : Earlier(k, key)}
<1>1. ASSUME NEW p \in D, NEW o \in D
      PROVE  Earlier(<<p>>, <<o>>) <=> p < o
  <2>1. DOMAIN <<p>> = {1} /\ <<p>>[1] = p /\ <<o>>[1] = o
    OBVIOUS
  <2>2. p \in Nat /\ o \in Nat /\ p # NoPlace /\ o # NoPlace
    BY DEF NoPlace
  <2> DEFINE key == <<p>>
             other == <<o>>
  <2>3. DOMAIN key = {1} /\ key[1] = p /\ other[1] = o
    BY <2>1
  <2> HIDE DEF key, other
  <2>4. Earlier(key, other) <=> p < o
    BY <2>2, <2>3, EarlierAlone
  <2> QED
    BY <2>4 DEF key, other
<1>2. IsFiniteSet(K)
  <2>1. IsFiniteSet(D)
    <3>1. IsFiniteSet(1..n)
      BY FS_Interval
    <3> QED
      BY <3>1, FS_Subset
  <2> DEFINE f == [p \in D |-> <<p>>]
  <2>2. f \in [D -> K] /\ (\A i, j \in D : f[i] = f[j] => i = j)
        /\ \A t \in K : \E i \in D : f[i] = t
    OBVIOUS
  <2> HIDE DEF f
  <2> QED
    BY <2>1, <2>2, SameSize
<1>3. \A k, l \in K : <<k, l>> \in Places(K) <=> Earlier(k, l)
  BY DEF Places
<1>4. \A p, o \in D : <<<<p>>, <<o>>>> \in Places(K) <=> p < o
  BY <1>1, <1>3
<1>5. ASSUME NEW k \in K
      PROVE  <<k, k>> \notin Places(K)
  <2>1. PICK p \in D : k = <<p>>
    OBVIOUS
  <2>2. p \in Nat
    OBVIOUS
  <2> QED
    BY <1>4, <2>1, <2>2
<1>6. ASSUME NEW k \in K, NEW l \in K, k # l
      PROVE  <<k, l>> \in Places(K) \/ <<l, k>> \in Places(K)
  <2>1. PICK p \in D : k = <<p>>
    OBVIOUS
  <2>2. PICK o \in D : l = <<o>>
    OBVIOUS
  <2>3. p \in Nat /\ o \in Nat /\ p # o
    BY <1>6, <2>1, <2>2
  <2> QED
    BY <1>4, <2>1, <2>2, <2>3
<1>8. ASSUME NEW k \in K, NEW l \in K, NEW m \in K,
             <<k, l>> \in Places(K), <<l, m>> \in Places(K)
      PROVE  <<k, m>> \in Places(K)
  <2>1. PICK p \in D : k = <<p>>
    OBVIOUS
  <2>2. PICK o \in D : l = <<o>>
    OBVIOUS
  <2>3. PICK r \in D : m = <<r>>
    OBVIOUS
  <2>4. p \in Nat /\ o \in Nat /\ r \in Nat
    OBVIOUS
  <2>5. p < o /\ o < r
    BY <1>4, <1>8, <2>1, <2>2, <2>3
  <2>6. p < r
    BY <2>4, <2>5
  <2> QED
    BY <1>4, <2>1, <2>3, <2>6
<1>9. Orders(Places(K), K)
  <2> HIDE DEF Places
  <2> QED
    BY <1>5, <1>6, <1>8 DEF Orders
<1>7. \A key \in K : Under(K, Places(K), key) = {k \in K : Earlier(k, key)}
  BY <1>3 DEF Under
<1> QED
  BY <1>2, <1>7, <1>9

LEMMA InOrderTable ==
  ASSUME NEW K, IsFiniteSet(K), Orders(Places(K), K),
         \A key \in K : Under(K, Places(K), key) = {k \in K : Earlier(k, key)},
         NEW data, DOMAIN data = K, \A key \in K : IsRow(data[key])
  PROVE  IsTable(InOrder(data))
<1> DEFINE m == Cardinality(K)
           At(n) == CHOOSE key \in K : Cardinality({k \in K : Earlier(k, key)}) = n - 1
           Y == InOrder(data)
<1>1. m \in Nat
  BY FS_CardinalityType
<1>2. ASSUME NEW n \in 1..m
      PROVE  At(n) \in K
  <2>1. \E key \in K : Cardinality(Under(K, Places(K), key)) = n - 1
    BY UnderAll
  <2>2. \E key \in K : Cardinality({k \in K : Earlier(k, key)}) = n - 1
    BY <2>1
  <2> QED
    BY <2>2
<1>3. Y = [n \in 1..m |-> data[At(n)]]
  BY DEF InOrder
<1> HIDE DEF At, Y, m
<1>4. Y = [n \in 1..m |-> Y[n]] /\ \A n \in 1..m : IsRow(Y[n])
  BY <1>2, <1>3
<1>5. IsTable(Y)
  BY <1>1, <1>4, TableMade
<1> QED
  BY <1>5 DEF Y

LEMMA VisibleTable ==
  ASSUME IsDataset(dataset)
  PROVE  IsTable(Visible(AllRows))
<1> DEFINE cur == Current(AllRows)
           D == DOMAIN cur
           K == {<<p>> : p \in D}
           n == Len(dataset.rows)
           data == [key \in K |-> NamedByFirst(<<>>, RowsAt(Sources(cur, <<>>), key))]
<1>1. n \in Nat /\ DOMAIN dataset.rows = 1..n /\ \A p \in 1..n : IsRow(dataset.rows[p])
  BY DEF IsDataset, Range
<1>2. D \in SUBSET (1..n) /\ \A p \in D : cur[p] = dataset.rows[p]
  BY <1>1 DEF Current, SeenIn, Within, Restrict
<1>3. AllRows.join = <<>>
  BY DEF AllRows
<1> HIDE DEF cur, n
<1>4. Asked(AllRows) = K
  BY <1>3, NothingWritten, KeysAlone DEF Asked, cur
<1>5. Visible(AllRows) = InOrder(data)
  BY <1>3, <1>4, NothingWritten DEF Visible, AskedRows, cur
<1>6. ASSUME NEW p \in D
      PROVE  IsRow(NamedByFirst(<<>>, RowsAt(Sources(cur, <<>>), <<p>>)))
  <2> DEFINE t == RowsAt(Sources(cur, <<>>), <<p>>)
  <2>1. p \in Nat /\ p # NoPlace
    BY <1>1, <1>2 DEF NoPlace
  <2>2. t[1] = cur[p] /\ IsRow(cur[p])
    BY <1>1, <1>2, <2>1, TableAlone
  <2>3. \A c \in NamesIn(<<>>) : Min(Owners(<<>>, c)) = 1
    <3>1. Min({1}) = 1
      <4>1. 1 \in Nat
        OBVIOUS
      <4>2. Min({1, 1}) = 1 /\ {1, 1} = {1}
        BY <4>1, LesserOf
      <4> QED
        BY <4>2
    <3> QED
      BY <3>1, TableAlone
  <2> HIDE DEF t
  <2>4. \A c : Get(t[1], c) \in Int
    BY <2>2 DEF IsRow, Get, Null
  <2>5. \A c \in DOMAIN NamedByFirst(<<>>, t) : NamedByFirst(<<>>, t)[c] \in Int
    BY <2>3, <2>4 DEF NamedByFirst
  <2> QED
    BY <2>5 DEF IsRow, t
<1>7. DOMAIN data = K /\ \A key \in K : IsRow(data[key])
  BY <1>6
<1> HIDE DEF D, data
<1>8. IsFiniteSet(K) /\ Orders(Places(K), K)
      /\ \A key \in K : Under(K, Places(K), key) = {k \in K : Earlier(k, key)}
  BY <1>1, <1>2, PlacesOrder
<1> HIDE DEF K
<1>9. IsTable(InOrder(data))
  BY <1>7, <1>8, InOrderTable
<1> QED
  BY <1>5, <1>9

\* The rows every folded query starts from: nothing is computed for it.
Source == WithComputed(AllRows, Visible(AllRows))

LEMMA NothingComputed ==
  ASSUME NEW q, q.computed = AllRows.computed
  PROVE  Computed(q) = {} /\ \A X : WithComputed(q, X) = WithComputed(AllRows, X)
<1>1. Computed(q) = {} /\ Computed(AllRows) = {}
  BY DEF Computed, AllRows
<1> QED
  BY <1>1 DEF WithComputed

LEMMA SourceTable ==
  ASSUME IsDataset(dataset)
  PROVE  IsTable(Source)
<1> DEFINE V == Visible(AllRows)
<1>1. IsTable(V)
  BY VisibleTable
<1>2. Len(V) \in Nat /\ DOMAIN V = 1..Len(V) /\ \A i \in 1..Len(V) : IsRow(V[i])
  BY <1>1, TableIs DEF IsTable
<1>3. Computed(AllRows) = {}
  BY NothingComputed
<1> HIDE DEF V
<1>4. Source = [i \in 1..Len(V) |-> [c \in DOMAIN V[i] |-> V[i][c]]]
  BY <1>2, <1>3 DEF Source, WithComputed, V
<1>5. \A i \in 1..Len(V) : IsRow([c \in DOMAIN V[i] |-> V[i][c]])
  BY <1>2 DEF IsRow
<1>6. Source = [i \in 1..Len(V) |-> Source[i]] /\ \A i \in 1..Len(V) : IsRow(Source[i])
  BY <1>4, <1>5
<1> QED
  BY <1>2, <1>6, TableMade

\* What a folded query means. Folding adds no join, computed field or
\* having, and a query that is claimed to be exact names no version; so
\* all of them read the same rows (Source), filtered, sorted and cut to a
\* page (Ordered, Paged), of which the selected columns are shown.
Plain(q) ==
    /\ q.join = AllRows.join /\ q.computed = AllRows.computed /\ q.having = AllRows.having
    /\ IsTree(q.where) /\ (dataset.versioned => ~NamesVersion(q.where))
    /\ "*" \notin q.select
    /\ q.orderBy \in Seq(Range(q.orderBy))
    /\ q.offset \in Nat /\ q.limit \in Nat \cup {NoLimit}

LEMMA NoVersionNamed == ~NamesVersion(NoWhere)
<1>1. "" # "cur" /\ NoWhere.field = ""
  BY DEF NoWhere
<1> QED
  BY <1>1, NoWhereHolds DEF NamesVersion

LEMMA VisibleSame ==
  ASSUME NEW q, Plain(q)
  PROVE  Visible(q) = Visible(AllRows)
<1>1. AllRows.where = NoWhere /\ q.join = AllRows.join
  BY DEF AllRows, Plain
<1>2. dataset.versioned => ~NamesVersion(q.where) /\ ~NamesVersion(AllRows.where)
  BY <1>1, NoVersionNamed DEF Plain
<1>3. Current(q) = Current(AllRows)
  BY <1>2 DEF Current
<1>4. Asked(q) = Asked(AllRows) /\ \A key : AskedRows(q, key) = AskedRows(AllRows, key)
  BY <1>1, <1>3 DEF Asked, AskedRows
<1> QED
  BY <1>1, <1>4 DEF Visible

Ordered(q) == Sorted(q.orderBy, Memory, Filtered(q.where, Source))
Paged(q) == Page(Ordered(q), q.offset, q.limit)

LEMMA MeaningIs ==
  ASSUME NEW q
  PROVE  LET P == ProcessInMemory(q, Visible(q)).rows
         IN  Meaning(q).rows = [i \in DOMAIN P |-> Shown(P[i])]
<1> DEFINE R == ProcessInMemory(q, Visible(q))
<1>1. DOMAIN R = {"rows", "total"}
  BY DEF ProcessInMemory
<1>2. Meaning(q) = [R EXCEPT !.rows = [i \in DOMAIN @ |-> Shown(@[i])]]
  BY DEF Meaning
<1> HIDE DEF R
<1>3. Meaning(q).rows = [i \in DOMAIN R.rows |-> Shown(R.rows[i])]
  BY <1>1, <1>2
<1> QED
  BY <1>3 DEF R

LEMMA OrderedTable ==
  ASSUME IsDataset(dataset), NEW q, Plain(q)
  PROVE  /\ IsTable(Filtered(q.where, Source)) /\ IsTable(Ordered(q)) /\ IsTable(Paged(q))
<1>1. IsTable(Filtered(q.where, Source))
  BY SourceTable, FilteredTable
<1>2. IsTable(Ordered(q))
  BY <1>1, SortedTable DEF Ordered, Plain
<1>3. q.offset \in Nat /\ q.limit \in Nat \cup {NoLimit}
  BY DEF Plain
<1>4. IsTable(Paged(q))
  <2> HIDE DEF Ordered
  <2> QED
    BY <1>2, <1>3, PageTable DEF Paged
<1> QED
  BY <1>1, <1>2, <1>4

\* Without aggregates the query shows the columns of the page; with
\* aggregates, which are only folded into a query that was not sorted or
\* cut, it folds the filtered rows.
LEMMA MeansPlain ==
  ASSUME IsDataset(dataset), NEW q, Plain(q), q.aggs = {}
  PROVE  Meaning(q).rows = Through(q.select, Paged(q))
<1> DEFINE kept == Filtered(q.where, WithComputed(q, Visible(q)))
           P == ProcessInMemory(q, Visible(q)).rows
<1>1. kept = Filtered(q.where, Source)
  BY VisibleSame, NothingComputed DEF Plain, Source
<1>2. q.having = NoWhere /\ Computed(q) = {} /\ "*" \notin q.select
  BY NothingComputed DEF Plain, AllRows
<1>3. P = Project(q, Page(Sorted(q.orderBy, Memory, Filtered(q.having, kept)), q.offset, q.limit))
  BY DEF ProcessInMemory, When
<1> HIDE DEF kept, P
<1>4. Filtered(NoWhere, Filtered(q.where, Source)) = Filtered(q.where, Source)
  BY OrderedTable, FilteredAll DEF IsTable
<1>5. P = Project(q, Paged(q))
  BY <1>1, <1>2, <1>3, <1>4 DEF Paged, Ordered
<1>6. Meaning(q).rows = [i \in DOMAIN P |-> Shown(P[i])]
  BY MeaningIs DEF P
<1>7. CASE q.select = {}
  <2>1. P = Paged(q)
    BY <1>5, <1>7 DEF Project
  <2> QED
    BY <1>6, <1>7, <2>1 DEF Through, View
<1>8. CASE q.select # {}
  <2>1. P = [i \in DOMAIN Paged(q) |-> Columns(Paged(q)[i], q.select)]
    BY <1>2, <1>5, <1>8 DEF Project
  <2> HIDE DEF Paged
  <2> QED
    BY <1>6, <1>8, <2>1 DEF Through, View
<1> QED
  BY <1>7, <1>8

LEMMA MeansFolded ==
  ASSUME IsDataset(dataset), NEW q, Plain(q), q.aggs # {},
         q.orderBy = <<>>, q.offset = 0, q.limit = NoLimit,
         (Range(q.groupBy) \cup {a.as : a \in q.aggs}) \cap DOMAIN Qualified = {}
  PROVE  Meaning(q).rows
           = Folded(Filtered(q.where, Source), q.groupBy, q.aggs, Memory)
<1> DEFINE kept == Filtered(q.where, WithComputed(q, Visible(q)))
           P == ProcessInMemory(q, Visible(q)).rows
           F == Folded(Filtered(q.where, Source), q.groupBy, q.aggs, Memory)
<1>1. kept = Filtered(q.where, Source)
  BY VisibleSame, NothingComputed DEF Plain, Source
<1>2. q.having = NoWhere
  BY DEF Plain, AllRows
<1>3. P = Page(Sorted(<<>>, Memory,
                      Filtered(NoWhere, Folded(kept, q.groupBy, q.aggs, Memory))), 0, NoLimit)
  BY <1>2 DEF ProcessInMemory, When, Project
<1> HIDE DEF kept, P
<1>4. IsTable(Filtered(q.where, Source))
  BY OrderedTable
<1>5. F \in Seq(Range(F)) /\ \A n \in DOMAIN F : Shown(F[n]) = F[n]
  BY <1>4, FoldedSeq
<1>6. P = Page(Sorted(<<>>, Memory, Filtered(NoWhere, F)), 0, NoLimit)
  BY <1>1, <1>3
<1> HIDE DEF F
<1>7. Filtered(NoWhere, F) = F
  BY <1>5, FilteredAll
<1>8. Sorted(<<>>, Memory, F) = F
  BY <1>5, SortedByNothing
<1>9. Page(F, 0, NoLimit) = F
  BY <1>5, PageAll
<1>10. P = F
  BY <1>6, <1>7, <1>8, <1>9
<1>11. Meaning(q).rows = [i \in DOMAIN P |-> Shown(P[i])]
  BY MeaningIs DEF P
<1>12. F = [n \in DOMAIN F |-> F[n]]
  BY <1>5
<1>13. Meaning(q).rows = F
  BY <1>5, <1>10, <1>11, <1>12
<1> QED
  BY <1>13 DEF F

\* One stage more. If the query was not cut (nor sorted, where that
\* matters), the clause that a stage adds does to what the query means
\* what the stage does to rows.
Uncut(q) == q.offset = 0 /\ q.limit = NoLimit
Unsorted(q) == q.orderBy = <<>>

LEMMA UncutPage ==
  ASSUME IsDataset(dataset), NEW q, Plain(q), Uncut(q)
  PROVE  Paged(q) = Ordered(q)
<1>1. IsTable(Ordered(q))
  BY OrderedTable
<1> HIDE DEF Ordered
<1> QED
  BY <1>1, PageAll DEF Paged, Uncut, IsTable

LEMMA UnsortedOrder ==
  ASSUME IsDataset(dataset), NEW q, Plain(q), Unsorted(q)
  PROVE  Ordered(q) = Filtered(q.where, Source)
<1>1. IsTable(Filtered(q.where, Source))
  BY OrderedTable
<1> QED
  BY <1>1, SortedByNothing DEF Ordered, Unsorted, IsTable

LEMMA FilterMore ==
  ASSUME IsDataset(dataset), NEW q, Plain(q), q.aggs = {}, DOMAIN q = DOMAIN AllRows,
         Unsorted(q), Uncut(q),
         NEW w, IsTree(w), Shows(q.select, Fields(w)),
         dataset.versioned => ~NamesVersion(w)
  PROVE  LET r == [q EXCEPT !.where = MergeAnd(@, w)]
         IN  Plain(r) /\ Meaning(r).rows = Filtered(w, Meaning(q).rows)
<1> DEFINE r == [q EXCEPT !.where = MergeAnd(@, w)]
<1>1. /\ r.where = MergeAnd(q.where, w) /\ r.join = q.join /\ r.computed = q.computed
      /\ r.having = q.having /\ r.select = q.select /\ r.orderBy = q.orderBy
      /\ r.offset = q.offset /\ r.limit = q.limit /\ r.aggs = q.aggs
  BY DEF AllRows
<1> HIDE DEF r
<1>2. IsTree(q.where)
  BY DEF Plain
<1>3. IsTree(MergeAnd(q.where, w)) /\ (dataset.versioned => ~NamesVersion(MergeAnd(q.where, w)))
  BY <1>2, MergeOf DEF Plain
<1>4. Plain(r) /\ Unsorted(r) /\ Uncut(r)
  BY <1>1, <1>3 DEF Plain, Unsorted, Uncut
<1>5. Meaning(r).rows = Through(q.select, Filtered(MergeAnd(q.where, w), Source))
  BY <1>1, <1>4, MeansPlain, UncutPage, UnsortedOrder
<1>6. Meaning(q).rows = Through(q.select, Filtered(q.where, Source))
  BY MeansPlain, UncutPage, UnsortedOrder
<1>7. IsTable(Filtered(q.where, Source)) /\ IsTable(Source)
  BY OrderedTable, SourceTable
<1>8. Filtered(w, Filtered(q.where, Source)) = Filtered(MergeAnd(q.where, w), Source)
  BY <1>2, <1>7, FilteredTwice
<1>9. Filtered(w, Through(q.select, Filtered(q.where, Source)))
        = Through(q.select, Filtered(w, Filtered(q.where, Source)))
  BY <1>7, FilteredThrough
<1>10. Meaning(r).rows = Filtered(w, Meaning(q).rows)
  BY <1>5, <1>6, <1>8, <1>9
<1> QED
  BY <1>4, <1>10 DEF r

LEMMA ProjectMore ==
  ASSUME IsDataset(dataset), NEW q, Plain(q), q.aggs = {}, DOMAIN q = DOMAIN AllRows,
         q.select = {}, Uncut(q), NEW cols, cols # {}, "*" \notin cols
  PROVE  LET r == [q EXCEPT !.select = cols]
             in == Meaning(q).rows
         IN  Plain(r) /\ Meaning(r).rows = [i \in DOMAIN in |-> Columns(in[i], cols)]
<1> DEFINE r == [q EXCEPT !.select = cols]
<1>1. /\ r.where = q.where /\ r.join = q.join /\ r.computed = q.computed
      /\ r.having = q.having /\ r.select = cols /\ r.orderBy = q.orderBy
      /\ r.offset = q.offset /\ r.limit = q.limit /\ r.aggs = q.aggs
  BY DEF AllRows
<1> HIDE DEF r
<1>2. Plain(r)
  BY <1>1 DEF Plain
<1>3. Paged(r) = Paged(q)
  BY <1>1 DEF Paged, Ordered
<1> DEFINE T == Paged(q)
<1>4. Meaning(r).rows = Through(cols, T)
  BY <1>1, <1>2, <1>3, MeansPlain
<1>5. Meaning(q).rows = Through({}, T)
  BY MeansPlain
<1> HIDE DEF T
<1>6. ASSUME NEW row
      PROVE  View(cols, row) = Columns(View({}, row), cols)
  <2> DEFINE Q == DOMAIN Qualified
             D == DOMAIN row
  <2>1. View({}, row) = [c \in D \ Q |-> row[c]]
    BY DEF View, Shown, Restrict
  <2>2. View(cols, row) = [c \in (cols \cap D) \ Q |-> row[c]]
    BY DEF View, Shown, Columns, Restrict
  <2>3. Columns(View({}, row), cols) = [c \in cols \cap (D \ Q) |-> row[c]]
    BY <2>1 DEF Columns, Restrict
  <2>4. cols \cap (D \ Q) = (cols \cap D) \ Q
    OBVIOUS
  <2> QED
    BY <2>2, <2>3, <2>4
<1>7. Meaning(r).rows = [i \in DOMAIN Meaning(q).rows |-> Columns(Meaning(q).rows[i], cols)]
  BY <1>4, <1>5, <1>6 DEF Through
<1> QED
  BY <1>2, <1>7 DEF r

LEMMA SortMore ==
  ASSUME IsDataset(dataset), NEW q, Plain(q), q.aggs = {}, DOMAIN q = DOMAIN AllRows,
         Unsorted(q), Uncut(q),
         NEW order, order \in Seq(Range(order)), Shows(q.select, FieldsOf(order))
  PROVE  LET r == [q EXCEPT !.orderBy = @ \o order]
         IN  Plain(r) /\ Meaning(r).rows = Sorted(order, Memory, Meaning(q).rows)
<1> DEFINE r == [q EXCEPT !.orderBy = @ \o order]
<1>0. <<>> \o order = order
  OBVIOUS
<1>1. /\ r.where = q.where /\ r.join = q.join /\ r.computed = q.computed
      /\ r.having = q.having /\ r.select = q.select /\ r.orderBy = order
      /\ r.offset = q.offset /\ r.limit = q.limit /\ r.aggs = q.aggs
  BY <1>0 DEF AllRows, Unsorted
<1> HIDE DEF r
<1>2. Plain(r) /\ Uncut(r)
  BY <1>1 DEF Plain, Uncut
<1> DEFINE T == Filtered(q.where, Source)
<1>3. Meaning(r).rows = Through(q.select, Sorted(order, Memory, T))
  BY <1>1, <1>2, MeansPlain, UncutPage DEF Ordered
<1>4. Meaning(q).rows = Through(q.select, T)
  BY MeansPlain, UncutPage, UnsortedOrder
<1>5. IsTable(T)
  BY OrderedTable
<1> HIDE DEF T
<1>6. Sorted(order, Memory, Through(q.select, T)) = Through(q.select, Sorted(order, Memory, T))
  BY <1>5, SortedThrough
<1>7. Meaning(r).rows = Sorted(order, Memory, Meaning(q).rows)
  BY <1>3, <1>4, <1>6
<1> QED
  BY <1>2, <1>7 DEF r

LEMMA LimitMore ==
  ASSUME IsDataset(dataset), NEW q, Plain(q), q.aggs = {}, DOMAIN q = DOMAIN AllRows,
         q.limit = NoLimit, NEW n \in Nat
  PROVE  LET r == [q EXCEPT !.limit = n]
         IN  Plain(r) /\ Meaning(r).rows = Page(Meaning(q).rows, 0, n)
<1> DEFINE r == [q EXCEPT !.limit = n]
<1>1. /\ r.where = q.where /\ r.join = q.join /\ r.computed = q.computed
      /\ r.having = q.having /\ r.select = q.select /\ r.orderBy = q.orderBy
      /\ r.offset = q.offset /\ r.limit = n /\ r.aggs = q.aggs
  BY DEF AllRows
<1> HIDE DEF r
<1>2. Plain(r)
  BY <1>1 DEF Plain
<1>3. Ordered(r) = Ordered(q)
  BY <1>1 DEF Ordered
<1> DEFINE T == Ordered(q)
           P == Page(T, q.offset, NoLimit)
<1>4. IsTable(T) /\ IsTable(P)
  BY OrderedTable DEF Paged
<1>5. Meaning(r).rows = Through(q.select, Page(T, q.offset, n))
  BY <1>1, <1>2, <1>3, MeansPlain DEF Paged
<1>6. Meaning(q).rows = Through(q.select, P)
  BY MeansPlain DEF Paged
<1>7. q.offset \in Nat
  BY DEF Plain
<1> HIDE DEF T
<1>8. Page(P, 0, n) = Page(T, q.offset, n)
  BY <1>4, <1>7, PageTwice
<1> HIDE DEF P
<1>9. 0 \in Nat /\ n \in Nat \cup {NoLimit}
  OBVIOUS
<1>10. Page(Through(q.select, P), 0, n) = Through(q.select, Page(P, 0, n))
  BY <1>4, <1>9, PageThrough
<1>11. Meaning(r).rows = Page(Meaning(q).rows, 0, n)
  BY <1>5, <1>6, <1>8, <1>10
<1> QED
  BY <1>2, <1>11 DEF r

LEMMA SkipThrough ==
  ASSUME NEW cols, NEW X, IsTable(X), NEW n \in Nat
  PROVE  Page(Through(cols, X), n, NoLimit) = Through(cols, Page(X, n, NoLimit))
<1>1. ASSUME NEW l, l \in Nat \cup {NoLimit}
      PROVE  Page(Through(cols, X), n, l) = Through(cols, Page(X, n, l))
  BY <1>1, PageThrough
<1>2. NoLimit \in Nat \cup {NoLimit}
  OBVIOUS
<1> QED
  BY <1>1, <1>2, Zenon

LEMMA SkipMore ==
  ASSUME IsDataset(dataset), NEW q, Plain(q), q.aggs = {}, DOMAIN q = DOMAIN AllRows,
         Uncut(q), NEW n \in Nat
  PROVE  LET r == [q EXCEPT !.offset = n]
         IN  Plain(r) /\ Meaning(r).rows = Page(Meaning(q).rows, n, NoLimit)
<1> DEFINE r == [q EXCEPT !.offset = n]
<1>1. /\ r.where = q.where /\ r.join = q.join /\ r.computed = q.computed
      /\ r.having = q.having /\ r.select = q.select /\ r.orderBy = q.orderBy
      /\ r.offset = n /\ r.limit = NoLimit /\ r.aggs = q.aggs
  BY DEF AllRows, Uncut
<1> HIDE DEF r
<1>2. Plain(r)
  BY <1>1 DEF Plain
<1>3. Ordered(r) = Ordered(q)
  BY <1>1 DEF Ordered
<1> DEFINE T == Ordered(q)
<1>4. IsTable(T)
  BY OrderedTable
<1>5. Meaning(r).rows = Through(q.select, Page(T, n, NoLimit))
  BY <1>1, <1>2, <1>3, MeansPlain DEF Paged
<1>6. Meaning(q).rows = Through(q.select, T)
  BY MeansPlain, UncutPage
<1> HIDE DEF T
<1>7. Page(Through(q.select, T), n, NoLimit) = Through(q.select, Page(T, n, NoLimit))
  BY <1>4, SkipThrough
<1>8. Meaning(r).rows = Page(Meaning(q).rows, n, NoLimit)
  BY <1>5, <1>6, <1>7
<1> QED
  BY <1>2, <1>8 DEF r

LEMMA AggregateMore ==
  ASSUME IsDataset(dataset), NEW q, Plain(q), q.aggs = {}, DOMAIN q = DOMAIN AllRows,
         Unsorted(q), Uncut(q), NEW keys, NEW aggs, aggs # {},
         Shows(q.select, Range(keys) \cup ReadBy(aggs)),
         \A a \in aggs : a.as \notin DOMAIN Qualified,
         NEW r, DOMAIN r = DOMAIN AllRows, r.aggs = aggs, r.groupBy = keys,
         \A f \in DOMAIN AllRows \ {"aggs", "groupBy"} : r[f] = q[f]
  PROVE  Meaning(r).rows = Folded(Meaning(q).rows, keys, aggs, Memory)
<1>1. /\ r.where = q.where /\ r.join = q.join /\ r.computed = q.computed
      /\ r.having = q.having /\ r.select = q.select /\ r.orderBy = q.orderBy
      /\ r.offset = q.offset /\ r.limit = q.limit
  BY DEF AllRows
<1>2. Plain(r) /\ r.orderBy = <<>> /\ r.offset = 0 /\ r.limit = NoLimit
  BY <1>1 DEF Plain, Unsorted, Uncut
<1>3. (Range(keys) \cup {a.as : a \in aggs}) \cap DOMAIN Qualified = {}
  BY DEF Shows
<1> DEFINE T == Filtered(q.where, Source)
<1>4. Meaning(r).rows = Folded(T, keys, aggs, Memory)
  BY <1>1, <1>2, <1>3, MeansFolded
<1>5. Meaning(q).rows = Through(q.select, T)
  BY MeansPlain, UncutPage, UnsortedOrder
<1>6. IsTable(T)
  BY OrderedTable
<1> HIDE DEF T
<1>7. Folded(Through(q.select, T), keys, aggs, Memory) = Folded(T, keys, aggs, Memory)
  BY <1>6, FoldedThrough
<1> QED
  BY <1>4, <1>5, <1>7

\* The outcome of the stages, one after the other, starting from all rows
\* of the dataset.
LEMMA OutcomeIs ==
  ASSUME stages \in Seq(Range(stages))
  PROVE  /\ Outcome(0) = Meaning(AllRows).rows
         /\ \A n \in 1..Len(stages) : Outcome(n) = Documented(n, Outcome(n - 1))
<1> DEFINE A == Meaning(AllRows).rows
           l == Len(stages)
           P(m) == \E f : f = [n \in 0..m |-> IF n = 0 THEN A ELSE Documented(n, f[n - 1])]
<1>1. l \in Nat
  OBVIOUS
<1> HIDE DEF A
<1>2. P(0)
  <2> DEFINE f == [n \in 0..0 |-> A]
  <2>1. f = [n \in 0..0 |-> IF n = 0 THEN A ELSE Documented(n, f[n - 1])]
    OBVIOUS
  <2> QED
    BY <2>1
<1>3. ASSUME NEW m \in Nat, P(m)
      PROVE  P(m + 1)
  <2>1. PICK f : f = [n \in 0..m |-> IF n = 0 THEN A ELSE Documented(n, f[n - 1])]
    BY <1>3
  <2> DEFINE g == [n \in 0..(m + 1) |-> IF n = m + 1 THEN Documented(n, f[m]) ELSE f[n]]
  <2>2. ASSUME NEW n \in 0..(m + 1)
        PROVE  g[n] = IF n = 0 THEN A ELSE Documented(n, g[n - 1])
    <3>1. CASE n = 0
      BY <3>1, <2>1
    <3>2. CASE n = m + 1
      <4>1. g[n - 1] = f[m] /\ n # 0
        BY <3>2
      <4> QED
        BY <3>2, <4>1
    <3>3. CASE n # 0 /\ n # m + 1
      <4>1. n \in 0..m /\ n - 1 \in 0..m /\ n - 1 # m + 1
        BY <3>3
      <4>2. f[n] = Documented(n, f[n - 1])
        BY <2>1, <4>1, <3>3
      <4>3. g[n] = f[n] /\ g[n - 1] = f[n - 1]
        BY <4>1, <3>3
      <4> QED
        BY <4>2, <4>3, <3>3
    <3> QED
      BY <3>1, <3>2, <3>3
  <2>3. g = [n \in 0..(m + 1) |-> g[n]]
    OBVIOUS
  <2> HIDE DEF g
  <2>4. g = [n \in 0..(m + 1) |-> IF n = 0 THEN A ELSE Documented(n, g[n - 1])]
    BY <2>2, <2>3
  <2> QED
    BY <2>4
<1>4. \A m \in Nat : P(m)
  <2> HIDE DEF P
  <2> DEFINE N == {m \in Nat : P(m)}
  <2>1. N \in SUBSET Nat /\ 0 \in N /\ \A n \in N : n + 1 \in N
    BY <1>2, <1>3
  <2>2. N = Nat
    <3> HIDE DEF N
    <3> QED
      BY <2>1, AllNumbers
  <2> QED
    BY <2>2
<1> DEFINE after == CHOOSE f : f = [n \in 0..l |-> IF n = 0 THEN A ELSE Documented(n, f[n - 1])]
<1>5. after = [n \in 0..l |-> IF n = 0 THEN A ELSE Documented(n, after[n - 1])]
  BY <1>1, <1>4
<1>6. \A n : Outcome(n) = after[n]
  BY DEF Outcome, A
<1> HIDE DEF after, l
<1>7. after[0] = A /\ \A n \in 1..l : after[n] = Documented(n, after[n - 1])
  BY <1>1, <1>5
<1> QED
  BY <1>6, <1>7 DEF A, l

\* The query means what the first n stages do.
Follows(q, n) == Meaning(q).rows = Outcome(n)

\* What a query means, and the outcome of the stages, only change with the
\* dataset, the caller and the pipe.
LEMMA WrittenStays ==
  ASSUME UNCHANGED <<dataset, host>>, NEW joins
  PROVE  AsWritten(joins)' = AsWritten(joins)
BY DEF AsWritten, SeenThrough, PlanJoins, PlanJoin, SeenJoined, Owners, Tables

LEMMA CurrentStays ==
  ASSUME UNCHANGED <<dataset, host>>, NEW q
  PROVE  Current(q)' = Current(q)
BY DEF Current, SeenIn

LEMMA NamedStays ==
  ASSUME UNCHANGED <<dataset, host>>, NEW joins, NEW t
  PROVE  NamedByFirst(joins, t)' = NamedByFirst(joins, t)
BY DEF NamedByFirst, NamesIn, Owners, Tables

Shape(data, joins) ==
    InOrder([key \in Keys(data, joins) |->
                NamedByFirst(joins, RowsAt(Sources(data, joins), key))])

LEMMA ShapeStays ==
  ASSUME UNCHANGED <<dataset, host>>, NEW data, NEW joins
  PROVE  Shape(data, joins)' = Shape(data, joins)
<1>1. Keys(data, joins)' = Keys(data, joins)
  BY KeysStays
<1>2. \A t : NamedByFirst(joins, t)' = NamedByFirst(joins, t)
  BY NamedStays
<1> QED
  BY <1>1, <1>2 DEF Shape

LEMMA VisibleStays ==
  ASSUME UNCHANGED <<dataset, host>>, NEW q
  PROVE  Visible(q)' = Visible(q)
<1>1. Current(q)' = Current(q) /\ AsWritten(q.join)' = AsWritten(q.join)
  BY CurrentStays, WrittenStays
<1>2. PICK data, joins : data = Current(q) /\ joins = AsWritten(q.join)
  OBVIOUS
<1>3. Visible(q) = Shape(data, joins)
  BY <1>2 DEF Visible, Asked, AskedRows, Shape
<1>4. Visible(q)' = Shape(data, joins)'
  BY <1>1, <1>2 DEF Visible, Asked, AskedRows, Shape
<1> QED
  BY <1>3, <1>4, ShapeStays

LEMMA FollowsStays ==
  ASSUME UNCHANGED <<dataset, host, stages>>, NEW q, NEW n
  PROVE  Follows(q, n)' = Follows(q, n)
<1>1. Visible(q)' = Visible(q) /\ Visible(AllRows)' = Visible(AllRows)
  BY VisibleStays
<1>2. Meaning(q)' = Meaning(q) /\ Meaning(AllRows)' = Meaning(AllRows)
  BY <1>1 DEF Meaning
<1>3. Outcome(n)' = Outcome(n)
  BY <1>2 DEF Outcome, Documented, KeysOf
<1> QED
  BY <1>2, <1>3 DEF Follows

\* What is known of the query while stages are folded into it: a clause
\* that no stage has added is empty, the query was not grouped yet, and
\* while the folding is claimed to be exact (pipe/planner.go) the query
\* means what the stages before "at" do.
Clauses ==
    /\ "sort" \notin have => Unsorted(query)
    /\ "limit" \notin have => query.limit = NoLimit
    /\ "skip" \notin have => query.offset = 0
    /\ "select" \notin have => query.select = {}
FoldingInv ==
    phase = "folding" =>
        /\ DOMAIN query = DOMAIN AllRows /\ query.aggs = {} /\ query.groupBy = <<>>
        /\ at > 1 => stages[at - 1].op # "groupBy"
        /\ Clauses
        /\ exact => Plain(query)
StagesAre ==
    /\ stages \in Seq(Range(stages)) /\ \A s \in Range(stages) : IsStage(s)
    /\ at \in Nat \ {0}
FoldInv ==
    /\ IsDataset(dataset) /\ StagesAre /\ FoldingInv
    /\ stages # <<>> /\ phase \in {"folding", "query"} /\ exact =>
          \A q, n : q = query /\ n = at - 1 => Follows(q, n)

LEMMA AllRowsPlain ==
  /\ Plain(AllRows) /\ DOMAIN AllRows = DOMAIN AllRows
  /\ AllRows.aggs = {} /\ AllRows.groupBy = <<>> /\ Unsorted(AllRows) /\ Uncut(AllRows)
  /\ AllRows.select = {}
<1>1. /\ AllRows.where = NoWhere /\ AllRows.select = {} /\ AllRows.orderBy = <<>>
      /\ AllRows.offset = 0 /\ AllRows.limit = NoLimit /\ AllRows.aggs = {}
      /\ AllRows.groupBy = <<>>
  BY DEF AllRows
<1>2. IsTree(NoWhere) /\ ~NamesVersion(NoWhere)
  BY NoWhereHolds, NoVersionNamed
<1>3. <<>> \in Seq(Range(<<>>)) /\ 0 \in Nat /\ NoLimit \in Nat \cup {NoLimit}
  OBVIOUS
<1>4. Plain(AllRows)
  BY <1>1, <1>2, <1>3 DEF Plain
<1> QED
  BY <1>1, <1>4 DEF Unsorted, Uncut

LEMMA FoldInit == Init => FoldInv
<1> SUFFICES ASSUME Init PROVE FoldInv
  OBVIOUS
<1>1. PICK world \in Worlds :
          /\ dataset = world.dataset
          /\ \/ stages = <<>> /\ phase = "query"
             \/ stages \in world.pipes /\ query = AllRows /\ phase = "folding"
  BY DEF Init
<1>2. at = 1
  BY DEF Init
<1>3. IsDataset(dataset)
  BY <1>1, WorldsAssumption
<1>4. StagesAre
  <2>1. CASE stages = <<>>
    BY <1>2, <2>1 DEF StagesAre, Range
  <2>2. CASE stages \in world.pipes
    BY <1>2, <2>2, WorldsAssumption DEF StagesAre
  <2> QED
    BY <1>1, <2>1, <2>2
<1>5. FoldingInv
  BY <1>1, <1>2, AllRowsPlain DEF FoldingInv, Clauses, Uncut
<1>6. stages # <<>> => \A q, n : q = query /\ n = at - 1 => Follows(q, n)
  BY <1>1, <1>2, <1>4, OutcomeIs DEF Follows, StagesAre
<1> QED
  BY <1>3, <1>4, <1>5, <1>6 DEF FoldInv

\* The columns a stage reads are shown by the query folded so far.
LEMMA PresentShows ==
  ASSUME FoldInv, phase = "folding", NEW S, Present(S)
  PROVE  Shows(query.select, S)
<1>1. dataset.raw \cap DOMAIN Qualified = {}
  BY DEF FoldInv, IsDataset
<1>2. query.select # {} => "select" \in have
  BY DEF FoldInv, FoldingInv, Clauses
<1> QED
  BY <1>1, <1>2 DEF Present, Known, Shows

\* A step that folds one stage.
LEMMA FoldedOne ==
  ASSUME FoldInv, phase = "folding", at \in DOMAIN stages, NEW q,
         Plain(q), Meaning(q).rows = Documented(at, Meaning(query).rows), exact
  PROVE  Follows(q, at)
<1>1. at \in 1..Len(stages) /\ stages # <<>> /\ Len(stages) \in Nat
  BY DEF FoldInv, StagesAre
<1>2. Meaning(query).rows = Outcome(at - 1)
  BY <1>1 DEF FoldInv, Follows
<1>3. Outcome(at) = Documented(at, Outcome(at - 1))
  BY <1>1, OutcomeIs DEF FoldInv, StagesAre
<1> QED
  BY <1>2, <1>3 DEF Follows

\* A step that folds one stage, and goes on.
LEMMA FoldsOne ==
  ASSUME FoldInv, phase = "folding", phase' = "folding", at \in DOMAIN stages, at' = at + 1,
         UNCHANGED <<dataset, host, stages>>, Stage.op # "groupBy",
         NEW q, query' = q, DOMAIN q = DOMAIN AllRows, q.aggs = {}, q.groupBy = <<>>,
         Clauses', exact' => exact,
         exact' => Plain(q) /\ Meaning(q).rows = Documented(at, Meaning(query).rows)
  PROVE  FoldInv'
<1>1. IsDataset(dataset)' /\ StagesAre'
  BY DEF FoldInv, StagesAre
<1>2. at \in Nat \ {0} /\ at' - 1 = at
  BY DEF FoldInv, StagesAre
<1>3. exact' => Plain(query)'
  BY DEF Plain
<1>4. FoldingInv'
  BY <1>2, <1>3 DEF FoldingInv, Stage
<1>5. exact' => Follows(q, at)
  BY FoldedOne
<1>6. ASSUME exact', NEW p, NEW n, p = query', n = at' - 1
      PROVE  Follows(p, n)'
  <2>1. p = q /\ n = at
    BY <1>2, <1>6
  <2>2. Follows(p, n)
    BY <1>5, <1>6, <2>1
  <2>3. Follows(p, n)' = Follows(p, n)
    BY FollowsStays
  <2> QED
    BY <2>2, <2>3
<1> QED
  BY <1>1, <1>4, <1>6 DEF FoldInv

\* Each stage that can be folded, as planner.go folds it.
LEMMA StageIs ==
  ASSUME FoldInv, at \in DOMAIN stages
  PROVE  /\ IsStage(stages[at])
         /\ at + 1 \in DOMAIN stages => IsStage(stages[at + 1])
<1>1. stages \in Seq(Range(stages)) /\ \A s \in Range(stages) : IsStage(s)
  BY DEF FoldInv, StagesAre
<1> QED
  BY <1>1 DEF Range

LEMMA FilterFolded ==
  ASSUME FoldInv, FoldFilter
  PROVE  FoldInv'
<1> DEFINE w == Stage.where
           q == [query EXCEPT !.where = MergeAnd(@, w)]
<1>1. /\ phase = "folding" /\ phase' = phase /\ at \in DOMAIN stages /\ at' = at + 1
      /\ UNCHANGED <<dataset, host, stages>> /\ Stage.op = "filter"
      /\ query' = q /\ have' = have
      /\ exact' => exact /\ Present(Fields(w)) /\ (dataset.versioned => ~NamesVersion(w))
  BY DEF FoldFilter, Folding, Fold
<1>2. /\ DOMAIN query = DOMAIN AllRows /\ query.aggs = {} /\ query.groupBy = <<>>
      /\ Clauses /\ (exact => Plain(query)) /\ IsDataset(dataset)
  BY <1>1 DEF FoldInv, FoldingInv
<1>3. Unsorted(query) /\ Uncut(query)
  BY <1>2 DEF FoldFilter, FilterFolds, Clear, Clauses, Uncut
<1>4. IsTree(w)
  BY <1>1, StageIs DEF IsStage, Stage
<1>5. /\ DOMAIN q = DOMAIN AllRows /\ q.aggs = {} /\ q.groupBy = <<>>
      /\ q.orderBy = query.orderBy /\ q.offset = query.offset /\ q.limit = query.limit
      /\ q.select = query.select
  BY <1>2 DEF AllRows
<1>6. exact' => Plain(q) /\ Meaning(q).rows = Filtered(w, Meaning(query).rows)
  BY <1>1, <1>2, <1>3, <1>4, PresentShows, FilterMore
<1>7. Documented(at, Meaning(query).rows) = Filtered(w, Meaning(query).rows)
  BY <1>1 DEF Documented, Applied, Stage
<1> HIDE DEF q
<1>8. Clauses'
  BY <1>1, <1>2, <1>5 DEF Clauses, Unsorted
<1> QED
  BY <1>1, <1>5, <1>6, <1>7, <1>8, FoldsOne

LEMMA ProjectFolded ==
  ASSUME FoldInv, FoldProject
  PROVE  FoldInv'
<1> DEFINE cols == Stage.cols
           q == [query EXCEPT !.select = cols]
           in == Meaning(query).rows
<1>1. /\ phase = "folding" /\ phase' = phase /\ at \in DOMAIN stages /\ at' = at + 1
      /\ UNCHANGED <<dataset, host, stages>> /\ Stage.op = "project"
      /\ query' = q /\ have' = have \cup {"select"} /\ cols # {}
      /\ exact' => exact /\ "*" \notin cols
  BY DEF FoldProject, ProjectFolds, Folding, Fold
<1>2. /\ DOMAIN query = DOMAIN AllRows /\ query.aggs = {} /\ query.groupBy = <<>>
      /\ Clauses /\ (exact => Plain(query)) /\ IsDataset(dataset)
  BY <1>1 DEF FoldInv, FoldingInv
<1>3. query.select = {} /\ Uncut(query)
  BY <1>2 DEF FoldProject, ProjectFolds, Clear, Clauses, Uncut
<1>5. /\ DOMAIN q = DOMAIN AllRows /\ q.aggs = {} /\ q.groupBy = <<>>
      /\ q.orderBy = query.orderBy /\ q.offset = query.offset /\ q.limit = query.limit
  BY <1>2 DEF AllRows
<1>6. exact' => Plain(q) /\ Meaning(q).rows = [i \in DOMAIN in |-> Columns(in[i], cols)]
  BY <1>1, <1>2, <1>3, ProjectMore
<1>7. Documented(at, in) = [i \in DOMAIN in |-> Columns(in[i], cols)]
  BY <1>1 DEF Documented, Applied, Stage
<1> HIDE DEF q, in
<1>8. Clauses'
  BY <1>1, <1>2, <1>5 DEF Clauses, Unsorted
<1>9. exact' => Plain(q) /\ Meaning(q).rows = Documented(at, in)
  BY <1>6, <1>7
<1> QED
  BY <1>1, <1>5, <1>8, <1>9, FoldsOne DEF in

LEMMA SortFolded ==
  ASSUME FoldInv, FoldSort
  PROVE  FoldInv'
<1> DEFINE order == Stage.order
           q == [query EXCEPT !.orderBy = @ \o order]
<1>1. /\ phase = "folding" /\ phase' = phase /\ at \in DOMAIN stages /\ at' = at + 1
      /\ UNCHANGED <<dataset, host, stages>> /\ Stage.op = "sort"
      /\ query' = q /\ have' = have \cup {"sort"}
      /\ exact' => exact /\ Clear({"sort"}) /\ Present(FieldsOf(order))
  BY DEF FoldSort, Folding, Fold
<1>2. /\ DOMAIN query = DOMAIN AllRows /\ query.aggs = {} /\ query.groupBy = <<>>
      /\ Clauses /\ (exact => Plain(query)) /\ IsDataset(dataset)
  BY <1>1 DEF FoldInv, FoldingInv
<1>3. Uncut(query) /\ (exact' => Unsorted(query))
  BY <1>1, <1>2 DEF FoldSort, SortFolds, Clear, Clauses, Uncut
<1>4. order \in Seq(Range(order))
  BY <1>1, StageIs DEF IsStage, Stage
<1>5. /\ DOMAIN q = DOMAIN AllRows /\ q.aggs = {} /\ q.groupBy = <<>>
      /\ q.offset = query.offset /\ q.limit = query.limit /\ q.select = query.select
  BY <1>2 DEF AllRows
<1>6. exact' => Plain(q) /\ Meaning(q).rows = Sorted(order, Memory, Meaning(query).rows)
  BY <1>1, <1>2, <1>3, <1>4, PresentShows, SortMore
<1>7. Documented(at, Meaning(query).rows) = Sorted(order, Memory, Meaning(query).rows)
  BY <1>1 DEF Documented, Applied, Stage
<1> HIDE DEF q
<1>8. Clauses'
  BY <1>1, <1>2, <1>5 DEF Clauses
<1> QED
  BY <1>1, <1>5, <1>6, <1>7, <1>8, FoldsOne

LEMMA LimitFolded ==
  ASSUME FoldInv, FoldLimit
  PROVE  FoldInv'
<1> DEFINE l == Stage.n
           q == [query EXCEPT !.limit = l]
<1>1. /\ phase = "folding" /\ phase' = phase /\ at \in DOMAIN stages /\ at' = at + 1
      /\ UNCHANGED <<dataset, host, stages>> /\ Stage.op = "limit"
      /\ query' = q /\ have' = have \cup {"limit"}
      /\ exact' => exact /\ Clear({"limit"})
  BY DEF FoldLimit, Folding, Fold
<1>2. /\ DOMAIN query = DOMAIN AllRows /\ query.aggs = {} /\ query.groupBy = <<>>
      /\ Clauses /\ (exact => Plain(query)) /\ IsDataset(dataset)
  BY <1>1 DEF FoldInv, FoldingInv
<1>3. exact' => query.limit = NoLimit
  BY <1>1, <1>2 DEF Clear, Clauses
<1>4. l \in Nat
  BY <1>1, StageIs DEF IsStage, Stage
<1>5. /\ DOMAIN q = DOMAIN AllRows /\ q.aggs = {} /\ q.groupBy = <<>>
      /\ q.orderBy = query.orderBy /\ q.offset = query.offset /\ q.select = query.select
  BY <1>2 DEF AllRows
<1>6. exact' => Plain(q) /\ Meaning(q).rows = Page(Meaning(query).rows, 0, l)
  BY <1>1, <1>2, <1>3, <1>4, LimitMore
<1>7. Documented(at, Meaning(query).rows) = Page(Meaning(query).rows, 0, l)
  BY <1>1 DEF Documented, Applied, Stage
<1> HIDE DEF q
<1>8. Clauses'
  BY <1>1, <1>2, <1>5 DEF Clauses, Unsorted
<1> QED
  BY <1>1, <1>5, <1>6, <1>7, <1>8, FoldsOne

LEMMA SkipFolded ==
  ASSUME FoldInv, FoldSkip
  PROVE  FoldInv'
<1> DEFINE l == Stage.n
           q == [query EXCEPT !.offset = l]
<1>1. /\ phase = "folding" /\ phase' = phase /\ at \in DOMAIN stages /\ at' = at + 1
      /\ UNCHANGED <<dataset, host, stages>> /\ Stage.op = "skip"
      /\ query' = q /\ have' = have \cup {"skip"}
      /\ exact' => exact /\ Clear({"skip"})
  BY DEF FoldSkip, Folding, Fold
<1>2. /\ DOMAIN query = DOMAIN AllRows /\ query.aggs = {} /\ query.groupBy = <<>>
      /\ Clauses /\ (exact => Plain(query)) /\ IsDataset(dataset)
  BY <1>1 DEF FoldInv, FoldingInv
<1>3. exact' => Uncut(query)
  BY <1>1, <1>2 DEF FoldSkip, SkipFolds, Clear, Clauses, Uncut
<1>4. l \in Nat
  BY <1>1, StageIs DEF IsStage, Stage
<1>5. /\ DOMAIN q = DOMAIN AllRows /\ q.aggs = {} /\ q.groupBy = <<>>
      /\ q.orderBy = query.orderBy /\ q.limit = query.limit /\ q.select = query.select
  BY <1>2 DEF AllRows
<1>6. exact' => Plain(q) /\ Meaning(q).rows = Page(Meaning(query).rows, l, NoLimit)
  BY <1>1, <1>2, <1>3, <1>4, SkipMore
<1>7. Documented(at, Meaning(query).rows) = Page(Meaning(query).rows, l, NoLimit)
  BY <1>1 DEF Documented, Applied, Stage
<1> HIDE DEF q
<1>8. Clauses'
  BY <1>1, <1>2, <1>5 DEF Clauses, Unsorted
<1> QED
  BY <1>1, <1>5, <1>6, <1>7, <1>8, FoldsOne

\* Aggregates end the folding: what follows them is no clause of the query
\* any more.
LEMMA FoldsLast ==
  ASSUME FoldInv, phase' # "folding", UNCHANGED <<dataset, host, stages>>,
         NEW m \in Nat, at' = m + 1,
         NEW q, query' = q,
         stages # <<>> /\ exact' /\ phase' = "query" => Follows(q, m)
  PROVE  FoldInv'
<1>1. IsDataset(dataset)' /\ StagesAre'
  BY DEF FoldInv, StagesAre
<1>2. FoldingInv'
  BY DEF FoldingInv
<1>3. ASSUME stages # <<>>, phase' = "query", exact', NEW p, NEW n, p = query', n = at' - 1
      PROVE  Follows(p, n)'
  <2>1. p = q /\ n = m
    BY <1>3
  <2>2. Follows(p, n)
    BY <1>3, <2>1
  <2>3. Follows(p, n)' = Follows(p, n)
    BY FollowsStays
  <2> QED
    BY <2>2, <2>3
<1> QED
  BY <1>1, <1>2, <1>3 DEF FoldInv

LEMMA GroupByFolded ==
  ASSUME FoldInv, FoldGroupBy
  PROVE  FoldInv'
<1> DEFINE s == stages[at + 1]
           keys == Stage.keys
           q == [query EXCEPT !.groupBy = keys, !.aggs = s.aggs]
           in == Meaning(query).rows
<1>1. /\ phase = "folding" /\ phase' = "query" /\ at \in DOMAIN stages /\ at' = at + 2
      /\ UNCHANGED <<dataset, host, stages>> /\ Stage.op = "groupBy"
      /\ query' = q /\ at < Len(stages) /\ s.op = "aggregate"
      /\ exact' => exact /\ MayAggregate(keys, s)
  BY DEF FoldGroupBy, GroupByFolds, Folding, Fold
<1>2. /\ DOMAIN query = DOMAIN AllRows /\ query.aggs = {} /\ query.groupBy = <<>>
      /\ Clauses /\ (exact => Plain(query)) /\ IsDataset(dataset)
      /\ stages \in Seq(Range(stages)) /\ stages # <<>>
  BY <1>1 DEF FoldInv, FoldingInv, StagesAre
<1>3. at \in Nat \ {0} /\ at \in 1..Len(stages) /\ at + 1 \in 1..Len(stages)
      /\ at + 1 \in DOMAIN stages
  BY <1>1, <1>2
<1>4. \A a \in s.aggs : a.as \notin DOMAIN Qualified
  BY <1>3, StageIs DEF IsStage
<1>5. ASSUME exact'
      PROVE  Follows(q, at + 1)
  <2>1. /\ Unsorted(query) /\ Uncut(query) /\ Plain(query)
        /\ s.keys = <<>> /\ s.aggs # {} /\ Present(Range(keys) \cup ReadBy(s.aggs))
    BY <1>1, <1>2, <1>5 DEF MayAggregate, Clear, Clauses, Uncut
  <2>2. Shows(query.select, Range(keys) \cup ReadBy(s.aggs))
    BY <1>1, <2>1, PresentShows
  <2>3. /\ DOMAIN q = DOMAIN AllRows /\ q.aggs = s.aggs /\ q.groupBy = keys
        /\ \A f \in DOMAIN AllRows \ {"aggs", "groupBy"} : q[f] = query[f]
    BY <1>2 DEF AllRows
  <2> HIDE DEF q
  <2>4. Meaning(q).rows = Folded(in, keys, s.aggs, Memory)
    BY <1>2, <1>4, <2>1, <2>2, <2>3, AggregateMore
  <2>5. in = Outcome(at - 1)
    BY <1>1, <1>2, <1>5 DEF FoldInv, Follows
  <2> HIDE DEF in
  <2>6. Outcome(at) = Outcome(at - 1)
    <3>1. Outcome(at) = Documented(at, Outcome(at - 1))
      BY <1>2, <1>3, OutcomeIs
    <3> QED
      BY <1>1, <3>1 DEF Documented, Applied, Stage
  <2>7. Outcome(at + 1) = Folded(Outcome(at), keys, s.aggs, Memory)
    <3>1. (at + 1) - 1 = at /\ at + 1 # 1
      BY <1>3
    <3>2. Outcome(at + 1) = Documented(at + 1, Outcome((at + 1) - 1))
      BY <1>2, <1>3, OutcomeIs
    <3>3. KeysOf(at + 1) = keys
      BY <1>1, <2>1, <3>1 DEF KeysOf, Stage
    <3> QED
      BY <1>1, <3>1, <3>2, <3>3 DEF Documented
  <2> QED
    BY <2>4, <2>5, <2>6, <2>7 DEF Follows
<1>6. at' = (at + 1) + 1 /\ at + 1 \in Nat
  BY <1>1, <1>3
<1> HIDE DEF q
<1> QED
  BY <1>1, <1>5, <1>6, FoldsLast

LEMMA AggregateFolded ==
  ASSUME FoldInv, FoldAggregate
  PROVE  FoldInv'
<1> DEFINE s == Stage
           q == [query EXCEPT !.aggs = s.aggs]
           in == Meaning(query).rows
<1>1. /\ phase = "folding" /\ phase' = "query" /\ at \in DOMAIN stages /\ at' = at + 1
      /\ UNCHANGED <<dataset, host, stages>> /\ s.op = "aggregate" /\ query' = q
      /\ exact' => exact /\ MayAggregate(<<>>, s)
  BY DEF FoldAggregate, Folding, Fold
<1>2. /\ DOMAIN query = DOMAIN AllRows /\ query.aggs = {} /\ query.groupBy = <<>>
      /\ Clauses /\ (exact => Plain(query)) /\ IsDataset(dataset)
      /\ stages \in Seq(Range(stages)) /\ stages # <<>>
      /\ at > 1 => stages[at - 1].op # "groupBy"
  BY <1>1 DEF FoldInv, FoldingInv, StagesAre
<1>3. at \in Nat \ {0} /\ at \in 1..Len(stages)
  BY <1>1, <1>2
<1>4. \A a \in s.aggs : a.as \notin DOMAIN Qualified
  BY <1>1, StageIs DEF IsStage, Stage
<1>5. ASSUME exact'
      PROVE  Follows(q, at)
  <2>1. /\ Unsorted(query) /\ Uncut(query) /\ Plain(query)
        /\ s.keys = <<>> /\ s.aggs # {} /\ Present(Range(<<>>) \cup ReadBy(s.aggs))
    BY <1>1, <1>2, <1>5 DEF MayAggregate, Clear, Clauses, Uncut
  <2>2. Shows(query.select, Range(<<>>) \cup ReadBy(s.aggs))
    BY <1>1, <2>1, PresentShows
  <2>3. /\ DOMAIN q = DOMAIN AllRows /\ q.aggs = s.aggs /\ q.groupBy = <<>>
        /\ \A f \in DOMAIN AllRows \ {"aggs", "groupBy"} : q[f] = query[f]
    BY <1>2 DEF AllRows
  <2> HIDE DEF q
  <2>4. Meaning(q).rows = Folded(in, <<>>, s.aggs, Memory)
    BY <1>2, <1>4, <2>1, <2>2, <2>3, AggregateMore
  <2>5. in = Outcome(at - 1)
    BY <1>1, <1>2, <1>5 DEF FoldInv, Follows
  <2> HIDE DEF in
  <2>6. Outcome(at) = Documented(at, Outcome(at - 1))
    BY <1>2, <1>3, OutcomeIs
  <2>7. KeysOf(at) = <<>>
    <3>1. at = 1 \/ at > 1
      BY <1>3
    <3> QED
      BY <1>2, <2>1, <3>1 DEF KeysOf, Stage
  <2>8. Documented(at, in) = Folded(in, <<>>, s.aggs, Memory)
    BY <1>1, <2>7 DEF Documented, Stage
  <2> QED
    BY <2>4, <2>5, <2>6, <2>8 DEF Follows
<1>6. at \in Nat
  BY <1>3
<1> HIDE DEF q
<1> QED
  BY <1>1, <1>5, <1>6, FoldsLast

\* A stage that is not folded breaks the folding off; from then on neither
\* the query nor the stages folded into it change.
LEMMA BrokenOff ==
  ASSUME FoldInv, phase' \in {"query", "planned", "answered", "tail", "done", "failed"},
         phase' = "query" => phase = "folding" /\ query' = query,
         UNCHANGED <<dataset, host, stages>>, exact' = exact, at' = at
  PROVE  FoldInv'
<1> DEFINE m == at - 1
           q == query'
<1>1. m \in Nat /\ at' = m + 1
  BY DEF FoldInv, StagesAre
<1>2. ASSUME stages # <<>>, exact', phase' = "query"
      PROVE  Follows(query, m)
  BY <1>2 DEF FoldInv
<1>3. PICK p : p = query'
  OBVIOUS
<1>4. stages # <<>> /\ exact' /\ phase' = "query" => Follows(p, m)
  BY <1>2, <1>3
<1> HIDE DEF m
<1> QED
  BY <1>1, <1>3, <1>4, FoldsLast

\* Every step keeps the invariant.
LEMMA FoldNext == FoldInv /\ [Next]_vars => FoldInv'
<1> SUFFICES ASSUME FoldInv, [Next]_vars PROVE FoldInv'
  OBVIOUS
<1>1. CASE FoldFilter
  BY <1>1, FilterFolded
<1>2. CASE FoldProject
  BY <1>2, ProjectFolded
<1>3. CASE FoldSort
  BY <1>3, SortFolded
<1>4. CASE FoldLimit
  BY <1>4, LimitFolded
<1>5. CASE FoldSkip
  BY <1>5, SkipFolded
<1>6. CASE FoldGroupBy
  BY <1>6, GroupByFolded
<1>7. CASE FoldAggregate
  BY <1>7, AggregateFolded
<1>8. CASE Break
  BY <1>8, BrokenOff DEF Break
<1>9. CASE PlanQuery \/ Ask \/ Finish \/ Return
  BY <1>9, BrokenOff DEF PlanQuery, Ask, Finish, Return
<1>10. CASE ApplyStage
  <2>1. /\ phase' = "tail" /\ UNCHANGED <<dataset, host, stages>> /\ at' = at + 1
        /\ at \in Nat
    BY <1>10 DEF ApplyStage, FoldInv, StagesAre
  <2>2. PICK p : p = query'
    OBVIOUS
  <2> QED
    BY <2>1, <2>2, FoldsLast
<1>11. CASE UNCHANGED vars
  <2>1. UNCHANGED <<dataset, host, stages, query, have, exact, at, phase>>
    BY <1>11 DEF vars
  <2>2. ASSUME stages # <<>>, phase \in {"folding", "query"}, exact, NEW p, NEW n,
               p = query, n = at - 1
        PROVE  Follows(p, n)'
    <3>1. Follows(p, n)
      BY <2>2 DEF FoldInv
    <3>2. Follows(p, n)' = Follows(p, n)
      BY <2>1, FollowsStays
    <3> QED
      BY <3>1, <3>2
  <2>3. IsDataset(dataset)' /\ StagesAre' /\ FoldingInv'
    BY <2>1 DEF FoldInv, StagesAre, FoldingInv, Clauses, Plain, Unsorted
  <2> QED
    BY <2>1, <2>2, <2>3 DEF FoldInv
<1> QED
  BY <1>1, <1>2, <1>3, <1>4, <1>5, <1>6, <1>7, <1>8, <1>9, <1>10, <1>11 DEF Next, PlanPipe

LEMMA FoldMeans == FoldInv => FoldKeepsMeaning
BY DEF FoldInv, FoldKeepsMeaning, Follows

\* However many stages PlanPipe (pipe/planner.go) folds into the query:
\* while it only folded what it may without changing the result, the
\* folded query means what those stages, run one by one on all rows, would
\* have made of them (FoldKeepsMeaning). For every dataset, caller, pipe
\* and row.
THEOREM QueryFoldKeepsMeaning == Spec => []FoldKeepsMeaning
<1>1. Init => FoldInv
  BY FoldInit
<1>2. FoldInv /\ [Next]_vars => FoldInv'
  BY FoldNext
<1>3. FoldInv => FoldKeepsMeaning
  BY FoldMeans
<1> QED
  BY <1>1, <1>2, <1>3, PTL DEF Spec

-------------------------------------------------------------------------------
\* What is ordered: the k-th of a set is the one that k - 1 come before.
Placed(S, R, k) == CHOOSE i \in S : Cardinality(Under(S, R, i)) = k - 1

LEMMA PlacedAt ==
  ASSUME NEW S, IsFiniteSet(S), NEW R, Orders(R, S), NEW k \in 1..Cardinality(S)
  PROVE  Placed(S, R, k) \in S /\ Cardinality(Under(S, R, Placed(S, R, k))) = k - 1
<1>1. \E i \in S : Cardinality(Under(S, R, i)) = k - 1
  BY UnderAll, ZenonT(60)
<1> QED
  BY <1>1 DEF Placed

LEMMA PlacedLess ==
  ASSUME NEW S, IsFiniteSet(S), NEW R, Orders(R, S),
         NEW k \in 1..Cardinality(S), NEW l \in 1..Cardinality(S)
  PROVE  <<Placed(S, R, k), Placed(S, R, l)>> \in R <=> k < l
<1> DEFINE i == Placed(S, R, k)
           j == Placed(S, R, l)
<1>0. Cardinality(S) \in Nat
  BY FS_CardinalityType
<1>1. /\ i \in S /\ Cardinality(Under(S, R, i)) = k - 1
      /\ j \in S /\ Cardinality(Under(S, R, j)) = l - 1
  BY PlacedAt
<1> HIDE DEF i, j
<1>2. <<i, j>> \in R => k < l
  <2>1. <<i, j>> \in R => Cardinality(Under(S, R, i)) < Cardinality(Under(S, R, j))
    BY <1>1, UnderLess
  <2> QED
    BY <1>0, <1>1, <2>1
<1>3. <<j, i>> \in R => l < k
  <2>1. <<j, i>> \in R => Cardinality(Under(S, R, j)) < Cardinality(Under(S, R, i))
    BY <1>1, UnderLess
  <2> QED
    BY <1>0, <1>1, <2>1
<1>4. i = j => k = l
  BY <1>0, <1>1
<1>5. i = j \/ <<i, j>> \in R \/ <<j, i>> \in R
  BY <1>1 DEF Orders
<1> QED
  BY <1>0, <1>2, <1>3, <1>4, <1>5 DEF i, j

LEMMA PlacedIs ==
  ASSUME NEW S, IsFiniteSet(S), NEW R, Orders(R, S), NEW i \in S, NEW k,
         k = Cardinality(Under(S, R, i)) + 1
  PROVE  k \in 1..Cardinality(S) /\ Placed(S, R, k) = i
<1>1. Cardinality(S) \in Nat /\ Cardinality(Under(S, R, i)) \in 0..(Cardinality(S) - 1)
  BY FS_CardinalityType, UnderLess
<1>2. k \in 1..Cardinality(S)
  BY <1>1
<1> DEFINE j == Placed(S, R, k)
<1>3. j \in S /\ Cardinality(Under(S, R, j)) = k - 1
  BY <1>2, PlacedAt
<1> HIDE DEF j
<1>4. Cardinality(Under(S, R, j)) = Cardinality(Under(S, R, i))
  BY <1>1, <1>3
<1>5. <<i, j>> \notin R /\ <<j, i>> \notin R
  <2>1. /\ <<i, j>> \in R => Cardinality(Under(S, R, i)) < Cardinality(Under(S, R, j))
        /\ <<j, i>> \in R => Cardinality(Under(S, R, j)) < Cardinality(Under(S, R, i))
    BY <1>3, UnderLess
  <2> QED
    BY <1>1, <1>4, <2>1
<1>6. j = i
  BY <1>3, <1>5 DEF Orders
<1> QED
  BY <1>2, <1>6 DEF j

\* Whatever lists a set in its order lists it as Placed does.
LEMMA OnlyPlacing ==
  ASSUME NEW S, IsFiniteSet(S), NEW R, Orders(R, S),
         NEW g \in [1..Cardinality(S) -> S],
         \A k, l \in 1..Cardinality(S) : k < l => <<g[k], g[l]>> \in R,
         NEW k \in 1..Cardinality(S)
  PROVE  g[k] = Placed(S, R, k)
<1> DEFINE m == Cardinality(S)
           T == 1..m
<1>0. m \in Nat
  BY FS_CardinalityType
<1>1. IsFiniteSet(T) /\ Cardinality(T) = m
  <2>1. 1 \in Int /\ m \in Int
    BY <1>0
  <2>2. IsFiniteSet(1..m) /\ Cardinality(1..m) = IF 1 > m THEN 0 ELSE m - 1 + 1
    BY <2>1, FS_Interval
  <2> QED
    BY <1>0, <2>2
<1>2. \A i, j \in T : g[i] = g[j] => i = j
  <2> SUFFICES ASSUME NEW i \in T, NEW j \in T, g[i] = g[j], i # j PROVE FALSE
    OBVIOUS
  <2>1. i < j \/ j < i
    BY <1>0
  <2>2. <<g[i], g[i]>> \in R
    BY <2>1
  <2> QED
    BY <2>2 DEF Orders
<1>3. g \in Surjection(T, S)
  <2>1. g \in Injection(T, S)
    BY <1>2 DEF Injection, IsInjective
  <2> HIDE DEF T
  <2> QED
    BY <1>1, <2>1, FS_Injection
<1>4. \A s \in S : \E i \in T : g[i] = s
  BY <1>3 DEF Surjection
<1> DEFINE U == Under(S, R, g[k])
           B == 1..(k - 1)
           h == [i \in B |-> g[i]]
<1>5. \A i \in T : <<g[i], g[k]>> \in R <=> i < k
  <2> SUFFICES ASSUME NEW i \in T, <<g[i], g[k]>> \in R, ~(i < k) PROVE FALSE
    OBVIOUS
  <2>1. i = k \/ k < i
    BY <1>0
  <2>2. <<g[k], g[i]>> \in R \/ g[i] = g[k]
    BY <2>1
  <2>3. g[i] \in S /\ g[k] \in S
    OBVIOUS
  <2> QED
    BY <2>2, <2>3 DEF Orders
<1>6. B \subseteq T /\ \A i \in T : i < k <=> i \in B
  BY <1>0
<1>7. h \in [B -> U]
  BY <1>5, <1>6 DEF Under
<1>8. \A u \in U : \E i \in B : h[i] = u
  <2> SUFFICES ASSUME NEW u \in U PROVE \E i \in B : h[i] = u
    OBVIOUS
  <2>1. u \in S /\ <<u, g[k]>> \in R
    BY DEF Under
  <2>2. PICK i \in T : g[i] = u
    BY <1>4, <2>1
  <2>3. i \in B
    BY <1>5, <1>6, <2>1, <2>2
  <2> QED
    BY <2>2, <2>3
<1>9. \A i, j \in B : h[i] = h[j] => i = j
  BY <1>2, <1>6
<1>10. IsFiniteSet(B) /\ Cardinality(B) = k - 1
  <2>1. 1 \in Int /\ k - 1 \in Int
    BY <1>0
  <2>2. IsFiniteSet(1..(k - 1)) /\ Cardinality(1..(k - 1)) = IF 1 > k - 1 THEN 0 ELSE (k - 1) - 1 + 1
    BY <2>1, FS_Interval
  <2> QED
    BY <1>0, <2>2
<1>11. Cardinality(U) = k - 1
  <2> HIDE DEF U, B, h
  <2> QED
    BY <1>7, <1>8, <1>9, <1>10, SameSize
<1>12. k = Cardinality(Under(S, R, g[k])) + 1
  BY <1>0, <1>11
<1> QED
  BY <1>12, PlacedIs

\* What is kept of an ordered set is in the same order.
LEMMA OrdersPart ==
  ASSUME NEW S, NEW R, Orders(R, S), NEW C \in SUBSET S
  PROVE  Orders(R, C)
BY DEF Orders

LEMMA PlacedPart ==
  ASSUME NEW S, IsFiniteSet(S), NEW R, Orders(R, S), NEW C \in SUBSET S, NEW B,
         B = {k \in 1..Cardinality(S) : Placed(S, R, k) \in C}
  PROVE  /\ B \in SUBSET Nat /\ IsFiniteSet(B) /\ IsFiniteSet(C)
         /\ Cardinality(B) = Cardinality(C)
         /\ \A k \in 1..Cardinality(C) :
               Nth(B, k) \in B /\ Placed(S, R, Nth(B, k)) = Placed(C, R, k)
<1> DEFINE m == Cardinality(S)
           f == [k \in B |-> Placed(S, R, k)]
           g == [k \in 1..Cardinality(C) |-> Placed(S, R, Nth(B, k))]
<1>0. m \in Nat
  BY FS_CardinalityType
<1>1. B \in SUBSET (1..m) /\ B \in SUBSET Nat
  BY <1>0
<1>2. IsFiniteSet(B)
  <2>1. IsFiniteSet(1..m)
    BY <1>0, FS_Interval
  <2> QED
    BY <1>1, <2>1, FS_Subset
<1>3. f \in [B -> C]
  OBVIOUS
<1>4. \A k, l \in B : f[k] = f[l] => k = l
  <2> SUFFICES ASSUME NEW k \in B, NEW l \in B, Placed(S, R, k) = Placed(S, R, l) PROVE k = l
    OBVIOUS
  <2>1. Cardinality(Under(S, R, Placed(S, R, k))) = k - 1
        /\ Cardinality(Under(S, R, Placed(S, R, l))) = l - 1
    BY <1>1, PlacedAt
  <2> QED
    BY <1>0, <1>1, <2>1
<1>5. \A c \in C : \E k \in B : f[k] = c
  <2> SUFFICES ASSUME NEW c \in C PROVE \E k \in B : Placed(S, R, k) = c
    OBVIOUS
  <2> DEFINE k == Cardinality(Under(S, R, c)) + 1
  <2>1. c \in S
    OBVIOUS
  <2>2. k \in 1..Cardinality(S) /\ Placed(S, R, k) = c
    BY <2>1, PlacedIs
  <2> QED
    BY <2>2
<1>6. IsFiniteSet(C) /\ Cardinality(C) = Cardinality(B)
  <2> HIDE DEF f
  <2> QED
    BY <1>2, <1>3, <1>4, <1>5, SameSize
<1>7. \A k \in 1..Cardinality(C) : Nth(B, k) \in B
  BY <1>1, <1>2, <1>6, NthAt
<1>8. Orders(R, C)
  BY OrdersPart
<1>9. g \in [1..Cardinality(C) -> C]
  BY <1>7
<1>10. ASSUME NEW k \in 1..Cardinality(C), NEW l \in 1..Cardinality(C), k < l
       PROVE  <<g[k], g[l]>> \in R
  <2>1. Nth(B, k) < Nth(B, l)
    BY <1>1, <1>2, <1>6, <1>10, NthLess
  <2>2. Nth(B, k) \in 1..m /\ Nth(B, l) \in 1..m
    BY <1>1, <1>7
  <2> QED
    BY <2>1, <2>2, PlacedLess
<1>11. ASSUME NEW k \in 1..Cardinality(C)
       PROVE  g[k] = Placed(C, R, k)
  <2> HIDE DEF g
  <2> QED
    BY <1>6, <1>8, <1>9, <1>10, OnlyPlacing
<1> QED
  BY <1>1, <1>2, <1>6, <1>7, <1>11

\* Rows of a table, some of them, in some order.
Pick(U, S, R) == [k \in 1..Cardinality(S) |-> U[Placed(S, R, k)]]

LEMMA PickTable ==
  ASSUME NEW U, IsTable(U), NEW S, S \subseteq DOMAIN U, NEW R, Orders(R, S)
  PROVE  /\ IsTable(Pick(U, S, R)) /\ Len(Pick(U, S, R)) = Cardinality(S)
         /\ DOMAIN Pick(U, S, R) = 1..Cardinality(S)
         /\ \A k \in 1..Cardinality(S) :
               Placed(S, R, k) \in S /\ Pick(U, S, R)[k] = U[Placed(S, R, k)]
<1>1. IsFiniteSet(S) /\ Cardinality(S) \in Nat
  BY TableIs
<1>2. \A k \in 1..Cardinality(S) : Placed(S, R, k) \in S
  BY <1>1, PlacedAt
<1> DEFINE Y == Pick(U, S, R)
<1>3. Y = [k \in 1..Cardinality(S) |-> Y[k]]
  BY DEF Pick
<1>4. \A k \in 1..Cardinality(S) : Y[k] = U[Placed(S, R, k)]
  BY DEF Pick
<1>5. \A k \in 1..Cardinality(S) : IsRow(Y[k])
  BY <1>2, <1>4 DEF IsTable
<1>6. DOMAIN Y = 1..Cardinality(S)
  BY DEF Pick
<1> HIDE DEF Y
<1>7. IsTable(Y) /\ Len(Y) = Cardinality(S)
  BY <1>1, <1>3, <1>5, TableMade
<1> QED
  BY <1>2, <1>4, <1>6, <1>7 DEF Y

LEMMA PickKept ==
  ASSUME NEW U, IsTable(U), NEW S, S \subseteq DOMAIN U, NEW R, Orders(R, S),
         NEW C \in SUBSET S, NEW B, B = {k \in 1..Cardinality(S) : Placed(S, R, k) \in C}
  PROVE  Kept(Pick(U, S, R), B) = Pick(U, C, R)
<1>1. IsFiniteSet(S)
  BY TableIs
<1>2. /\ B \in SUBSET Nat /\ IsFiniteSet(B) /\ IsFiniteSet(C)
      /\ Cardinality(B) = Cardinality(C)
      /\ \A k \in 1..Cardinality(C) :
            Nth(B, k) \in B /\ Placed(S, R, Nth(B, k)) = Placed(C, R, k)
  BY <1>1, PlacedPart
<1>3. \A k \in 1..Cardinality(S) : Pick(U, S, R)[k] = U[Placed(S, R, k)]
  BY DEF Pick
<1>4. \A k \in 1..Cardinality(C) : Pick(U, S, R)[Nth(B, k)] = U[Placed(C, R, k)]
  BY <1>2, <1>3
<1> QED
  BY <1>2, <1>4 DEF Kept, Pick

LEMMA PickFiltered ==
  ASSUME NEW U, IsTable(U), NEW S, S \subseteq DOMAIN U, NEW R, Orders(R, S), NEW w
  PROVE  Filtered(w, Pick(U, S, R)) = Pick(U, S \cap Meeting(w, U), R)
<1>0. /\ IsTable(Pick(U, S, R)) /\ Len(Pick(U, S, R)) = Cardinality(S)
      /\ DOMAIN Pick(U, S, R) = 1..Cardinality(S)
      /\ \A k \in 1..Cardinality(S) :
            Placed(S, R, k) \in S /\ Pick(U, S, R)[k] = U[Placed(S, R, k)]
  BY PickTable
<1> DEFINE X == Pick(U, S, R)
           C == S \cap Meeting(w, U)
           B == Meeting(w, X)
<1>1. /\ IsTable(X) /\ DOMAIN X = 1..Cardinality(S)
      /\ \A k \in 1..Cardinality(S) : Placed(S, R, k) \in S /\ X[k] = U[Placed(S, R, k)]
  BY <1>0
<1> HIDE DEF X
<1>2. Filtered(w, X) = Kept(X, B)
  BY <1>1, FilteredTable
<1>3. B = {k \in 1..Cardinality(S) : Placed(S, R, k) \in C}
  BY <1>1 DEF Meeting
<1> HIDE DEF B, C
<1>4. C \in SUBSET S
  BY DEF C
<1>5. Kept(X, B) = Pick(U, C, R)
  BY <1>3, <1>4, PickKept DEF X
<1> QED
  BY <1>2, <1>5 DEF X, C

\* What is kept of a table is in the order of the table, which is the
\* order by nothing.
Ordering(order, U) == Ahead(order, Memory, U, Len(U))

LEMMA OrderingOrders ==
  ASSUME NEW U, IsTable(U), NEW order, order \in Seq(Range(order))
  PROVE  /\ Orders(Ordering(order, U), DOMAIN U)
         /\ \A S : S \subseteq DOMAIN U => Orders(Ordering(order, U), S)
         /\ \A i, j \in DOMAIN U : <<i, j>> \in Ordering(order, U)
                                   <=> Precedes(order, Memory, U, i, j)
<1>1. Len(U) \in Nat /\ DOMAIN U = 1..Len(U)
  BY TableIs
<1>2. \A i \in 1..Len(U) : Keyed(order, Memory, U[i])
  BY <1>1, RowsKeyed DEF IsTable
<1>3. Len(order) \in Nat /\ DOMAIN order = 1..Len(order)
  OBVIOUS
<1>4. /\ Orders(Ahead(order, Memory, U, Len(U)), 1..Len(U))
      /\ \A i, j \in 1..Len(U) : <<i, j>> \in Ahead(order, Memory, U, Len(U))
                                <=> Precedes(order, Memory, U, i, j)
  BY <1>1, <1>2, <1>3, AheadOrders
<1>5. \A S : S \subseteq DOMAIN U => Orders(Ordering(order, U), S)
  BY <1>1, <1>4, OrdersPart DEF Ordering
<1> QED
  BY <1>1, <1>4, <1>5 DEF Ordering

LEMMA PickOfKept ==
  ASSUME NEW U, IsTable(U), NEW S, S \subseteq DOMAIN U
  PROVE  Kept(U, S) = Pick(U, S, Ordering(<<>>, U))
<1>1. S \in SUBSET Nat /\ DOMAIN U \in SUBSET Nat
  BY TableIs
<1>2. <<>> \in Seq(Range(<<>>))
  BY DEF Range
<1>3. \A i, j \in DOMAIN U : <<i, j>> \in Ordering(<<>>, U) <=> i < j
  <2>1. \A r, s : ~Before(<<>>, Memory, r, s)
    BY DEF Before
  <2>2. \A i, j : Precedes(<<>>, Memory, U, i, j) <=> i < j
    BY <2>1 DEF Precedes
  <2> QED
    BY <1>2, <2>2, OrderingOrders
<1>4. \A i \in S : {j \in S : j < i} = Under(S, Ordering(<<>>, U), i)
  BY <1>3 DEF Under
<1>5. \A k : Nth(S, k) = Placed(S, Ordering(<<>>, U), k)
  BY <1>4 DEF Nth, Placed
<1> QED
  BY <1>5 DEF Kept, Pick

\* A stable sort of what is already in a coarser order is the sort of what
\* was there first.
LEMMA SortedPlaceIs ==
  ASSUME NEW X, IsTable(X), NEW order, order \in Seq(Range(order)), NEW k \in DOMAIN X
  PROVE  SortedPlace(order, Memory, X, k) = Placed(DOMAIN X, Ordering(order, X), k)
<1>1. \A i \in DOMAIN X : Under(DOMAIN X, Ordering(order, X), i) =
               {j \in DOMAIN X : \/ Before(order, Memory, X[j], X[i])
                                 \/ ~Before(order, Memory, X[i], X[j]) /\ j < i}
  BY OrderingOrders DEF Under, Precedes
<1> QED
  BY <1>1 DEF SortedPlace, Placed

Coarser(order, other, U) ==
    \A i, j \in DOMAIN U : Tie(other, Memory, U[i], U[j]) => Tie(order, Memory, U[i], U[j])

LEMMA TiesDontWin ==
  ASSUME NEW order, order \in Seq(Range(order)), NEW r, NEW s, IsRow(r), IsRow(s),
         Tie(order, Memory, r, s)
  PROVE  ~Before(order, Memory, r, s) /\ ~Before(order, Memory, s, r)
<1>1. \A n \in DOMAIN order : KeyOf(order, Memory, r, n) \in Int
                             /\ KeyOf(order, Memory, r, n) = KeyOf(order, Memory, s, n)
  BY RowsKeyed DEF Tie, Keyed
<1>2. \A n \in DOMAIN order : ~Wins(order, Memory, r, s, n) /\ ~Wins(order, Memory, s, r, n)
  BY <1>1 DEF Wins
<1> QED
  BY <1>2, BeforeIs

LEMMA PickSorted ==
  ASSUME NEW U, IsTable(U), NEW S, S \subseteq DOMAIN U,
         NEW order, order \in Seq(Range(order)), NEW other, other \in Seq(Range(other)),
         Coarser(order, other, U)
  PROVE  Sorted(other, Memory, Pick(U, S, Ordering(order, U))) = Pick(U, S, Ordering(other, U))
<1> DEFINE R == Ordering(order, U)
           Q == Ordering(other, U)
           X == Pick(U, S, R)
           m == Cardinality(S)
<1>0. IsFiniteSet(S) /\ m \in Nat /\ S \in SUBSET Nat
  BY TableIs
<1>1. /\ Orders(R, S) /\ Orders(Q, S)
      /\ \A i, j \in S : /\ <<i, j>> \in R <=> Precedes(order, Memory, U, i, j)
                         /\ <<i, j>> \in Q <=> Precedes(other, Memory, U, i, j)
  BY OrderingOrders
<1> HIDE DEF R, Q
<1>2. /\ IsTable(X) /\ Len(X) = m /\ DOMAIN X = 1..m
      /\ \A k \in 1..m : Placed(S, R, k) \in S /\ X[k] = U[Placed(S, R, k)]
  <2>1. Orders(R, S)
    BY <1>1
  <2>2. IsTable(X) /\ Len(X) = m /\ DOMAIN X = 1..m
    BY <2>1, PickTable
  <2>3. \A k \in 1..m : Placed(S, R, k) \in S /\ X[k] = U[Placed(S, R, k)]
    BY <2>1, PickTable
  <2> QED
    BY <2>2, <2>3
<1> HIDE DEF X
<1> DEFINE T == 1..m
           sort == Ordering(other, X)
           a(k) == Placed(T, sort, k)
           g == [k \in T |-> Placed(S, R, a(k))]
<1>3. IsFiniteSet(T) /\ Cardinality(T) = m
  <2>1. 1 \in Int /\ m \in Int
    BY <1>0
  <2>2. IsFiniteSet(1..m) /\ Cardinality(1..m) = IF 1 > m THEN 0 ELSE m - 1 + 1
    BY <2>1, FS_Interval
  <2> QED
    BY <1>0, <2>2
<1>4. /\ Orders(sort, T)
      /\ \A k, l \in T : <<k, l>> \in sort <=> Precedes(other, Memory, X, k, l)
  BY <1>2, OrderingOrders
<1> HIDE DEF sort
<1>5. \A k \in T : a(k) \in T
  BY <1>3, <1>4, PlacedAt
<1>6. \A k, l \in T : k < l => <<a(k), a(l)>> \in sort
  BY <1>3, <1>4, PlacedLess
<1>7. \A k, l \in T : k < l => <<Placed(S, R, k), Placed(S, R, l)>> \in R
  BY <1>0, <1>1, PlacedLess
<1>8. ASSUME NEW k \in T, NEW l \in T, k < l
      PROVE  <<Placed(S, R, a(k)), Placed(S, R, a(l))>> \in Q
  <2> DEFINE b == a(k)
             c == a(l)
             i == Placed(S, R, b)
             j == Placed(S, R, c)
  <2>1. b \in T /\ c \in T /\ <<b, c>> \in sort
    BY <1>5, <1>6, <1>8
  <2> HIDE DEF b, c
  <2>2. i \in S /\ j \in S /\ X[b] = U[i] /\ X[c] = U[j]
    BY <1>2, <2>1
  <2>3. \/ Before(other, Memory, U[i], U[j])
        \/ ~Before(other, Memory, U[j], U[i]) /\ b < c
    BY <1>4, <2>1, <2>2 DEF Precedes
  <2>4. b < c => <<i, j>> \in R
    BY <1>7, <2>1
  <2> HIDE DEF i, j
  <2>5. CASE Before(other, Memory, U[i], U[j])
    <3>1. Precedes(other, Memory, U, i, j)
      BY <2>5 DEF Precedes
    <3> QED
      BY <1>1, <2>2, <3>1 DEF i, j, b, c
  <2>6. CASE ~Before(other, Memory, U[i], U[j])
    <3>1. ~Before(other, Memory, U[j], U[i]) /\ b < c
      BY <2>3, <2>6
    <3>2. IsRow(U[i]) /\ IsRow(U[j]) /\ i \in DOMAIN U /\ j \in DOMAIN U
      BY <2>2 DEF IsTable
    <3>3. Len(other) \in Nat /\ DOMAIN other = 1..Len(other)
      OBVIOUS
    <3>4. Keyed(other, Memory, U[i]) /\ Keyed(other, Memory, U[j])
      BY <3>2, RowsKeyed
    <3>5. Tie(other, Memory, U[i], U[j])
      BY <2>6, <3>1, <3>3, <3>4, BeforeTotal
    <3>6. Tie(order, Memory, U[i], U[j])
      BY <3>2, <3>5 DEF Coarser
    <3>7. ~Before(order, Memory, U[i], U[j]) /\ ~Before(order, Memory, U[j], U[i])
      BY <3>2, <3>6, TiesDontWin
    <3>8. i < j
      BY <1>1, <2>2, <2>4, <3>1, <3>7 DEF Precedes
    <3>9. Precedes(other, Memory, U, i, j)
      BY <3>1, <3>8 DEF Precedes
    <3> QED
      BY <1>1, <2>2, <3>9 DEF i, j, b, c
  <2> QED
    BY <2>5, <2>6
<1>9. g \in [T -> S]
  BY <1>2, <1>5
<1>10. \A k, l \in T : k < l => <<g[k], g[l]>> \in Q
  BY <1>8
<1>11. ASSUME NEW k \in T PROVE g[k] = Placed(S, Q, k)
  <2> HIDE DEF g
  <2> QED
    BY <1>0, <1>1, <1>9, <1>10, OnlyPlacing
<1>12. ASSUME NEW k \in T PROVE X[SortedPlace(other, Memory, X, k)] = U[Placed(S, Q, k)]
  <2>1. SortedPlace(other, Memory, X, k) = a(k)
    BY <1>2, SortedPlaceIs DEF sort
  <2>2. X[a(k)] = U[Placed(S, R, a(k))]
    BY <1>2, <1>5
  <2>3. Placed(S, R, a(k)) = Placed(S, Q, k)
    BY <1>11
  <2> QED
    BY <2>1, <2>2, <2>3
<1>13. Sorted(other, Memory, X) = [k \in 1..m |-> X[SortedPlace(other, Memory, X, k)]]
  BY <1>2, SortedIs
<1>14. Sorted(other, Memory, X) = [k \in 1..m |-> U[Placed(S, Q, k)]]
  BY <1>12, <1>13
<1> QED
  BY <1>14 DEF X, Pick, R, Q

\* The order of keys: the first place that differs decides, and no place
\* comes last.
Sooner(x, y) == x # y /\ x # NoPlace /\ (y = NoPlace \/ x < y)
HasPlaces(key, width) == IsKey(key, width) /\ \A k \in 1..width : key[k] \in Nat
IsKeySet(K, width) == IsFiniteSet(K) /\ \A key \in K : HasPlaces(key, width)

LEMMA EarlierIs ==
  ASSUME NEW width \in Nat, NEW key, HasPlaces(key, width), NEW other, HasPlaces(other, width)
  PROVE  Earlier(key, other) <=>
            \E n \in 1..width : /\ \A m \in 1..(n - 1) : key[m] = other[m]
                                /\ Sooner(key[n], other[n])
<1>1. DOMAIN key = 1..width
  BY DEF HasPlaces, IsKey
<1> QED
  BY <1>1 DEF Earlier, Sooner

LEMMA EarlierOrders ==
  ASSUME NEW width \in Nat, NEW key, HasPlaces(key, width), NEW other, HasPlaces(other, width),
         NEW third, HasPlaces(third, width)
  PROVE  /\ ~Earlier(key, key)
         /\ key # other => Earlier(key, other) \/ Earlier(other, key)
         /\ Earlier(key, other) /\ Earlier(other, third) => Earlier(key, third)
<1>1. ~Earlier(key, key)
  BY EarlierIs DEF Sooner
<1>2. ASSUME key # other PROVE Earlier(key, other) \/ Earlier(other, key)
  <2> DEFINE D == {n \in 1..width : key[n] # other[n]}
  <2>1. D \in SUBSET Nat
    OBVIOUS
  <2>2. D # {}
    <3> SUFFICES ASSUME D = {} PROVE FALSE
      OBVIOUS
    <3>1. \A n \in 1..width : key[n] = other[n]
      OBVIOUS
    <3>2. key = [n \in 1..width |-> key[n]] /\ other = [n \in 1..width |-> other[n]]
      BY DEF HasPlaces, IsKey
    <3>3. [n \in 1..width |-> key[n]] = [n \in 1..width |-> other[n]]
      BY <3>1
    <3>4. key = other
      BY <3>2, <3>3
    <3> QED
      BY <3>4, <1>2
  <2>3. PICK n \in D : \A m \in D : n <= m
    BY <2>1, <2>2, LeastOf
  <2>4. /\ n \in 1..width /\ key[n] # other[n] /\ key[n] \in Nat /\ other[n] \in Nat
    BY DEF HasPlaces
  <2>5. \A m \in 1..(n - 1) : key[m] = other[m] /\ other[m] = key[m]
    <3> SUFFICES ASSUME NEW m \in 1..(n - 1), key[m] # other[m] PROVE FALSE
      OBVIOUS
    <3>1. m \in 1..width /\ m < n
      BY <2>4
    <3>2. m \in D
      BY <3>1
    <3> QED
      BY <2>3, <2>4, <3>1, <3>2
  <2>6. Sooner(key[n], other[n]) \/ Sooner(other[n], key[n])
    BY <2>4 DEF Sooner, NoPlace
  <2> HIDE DEF D
  <2>7. CASE Sooner(key[n], other[n])
    BY <2>4, <2>5, <2>7, EarlierIs
  <2>8. CASE Sooner(other[n], key[n])
    BY <2>4, <2>5, <2>8, EarlierIs
  <2> QED
    BY <2>6, <2>7, <2>8
<1>3. ASSUME Earlier(key, other), Earlier(other, third) PROVE Earlier(key, third)
  <2>1. PICK n \in 1..width : /\ \A m \in 1..(n - 1) : key[m] = other[m]
                              /\ Sooner(key[n], other[n])
    BY <1>3, EarlierIs
  <2>2. PICK l \in 1..width : /\ \A m \in 1..(l - 1) : other[m] = third[m]
                              /\ Sooner(other[l], third[l])
    BY <1>3, EarlierIs
  <2>3. \A k \in 1..width : key[k] \in Nat /\ other[k] \in Nat /\ third[k] \in Nat
    BY DEF HasPlaces
  <2>4. CASE n < l
    <3>1. n \in 1..(l - 1) /\ \A m \in 1..(n - 1) : m \in 1..(l - 1)
      BY <2>4
    <3>2. \A m \in 1..(n - 1) : key[m] = third[m]
      BY <2>1, <2>2, <3>1
    <3>3. Sooner(key[n], third[n])
      BY <2>1, <2>2, <3>1
    <3> QED
      BY <3>2, <3>3, EarlierIs
  <2>5. CASE l < n
    <3>1. l \in 1..(n - 1) /\ \A m \in 1..(l - 1) : m \in 1..(n - 1)
      BY <2>5
    <3>2. \A m \in 1..(l - 1) : key[m] = third[m]
      BY <2>1, <2>2, <3>1
    <3>3. Sooner(key[l], third[l])
      BY <2>1, <2>2, <3>1
    <3> QED
      BY <3>2, <3>3, EarlierIs
  <2>6. CASE n = l
    <3>1. \A m \in 1..(n - 1) : key[m] = third[m]
      BY <2>1, <2>2, <2>6
    <3>2. Sooner(key[n], other[n]) /\ Sooner(other[n], third[n])
      BY <2>1, <2>2, <2>6
    <3>3. Sooner(key[n], third[n])
      BY <2>3, <3>2 DEF Sooner
    <3> QED
      BY <3>1, <3>3, EarlierIs
  <2>7. n < l \/ l < n \/ n = l
    OBVIOUS
  <2> QED
    BY <2>4, <2>5, <2>6, <2>7
<1> QED
  BY <1>1, <1>2, <1>3

LEMMA KeySetOrders ==
  ASSUME NEW width \in Nat, NEW K, IsKeySet(K, width)
  PROVE  /\ Orders(Places(K), K)
         /\ \A S \in SUBSET K : \A key \in S :
               Under(S, Places(K), key) = {k \in S : Earlier(k, key)}
<1>1. \A k, l \in K : <<k, l>> \in Places(K) <=> Earlier(k, l)
  BY DEF Places
<1>2. \A key, other, third \in K :
          /\ ~Earlier(key, key)
          /\ key # other => Earlier(key, other) \/ Earlier(other, key)
          /\ Earlier(key, other) /\ Earlier(other, third) => Earlier(key, third)
  BY EarlierOrders DEF IsKeySet
<1> HIDE DEF Places
<1>3. Orders(Places(K), K)
  BY <1>1, <1>2 DEF Orders
<1>4. \A S \in SUBSET K : \A key \in S :
               Under(S, Places(K), key) = {k \in S : Earlier(k, key)}
  BY <1>1 DEF Under
<1> QED
  BY <1>3, <1>4

\* What comes in the order of keys: of some of them, what is kept of all.
LEMMA InOrderIs ==
  ASSUME NEW width \in Nat, NEW K, IsKeySet(K, width), NEW S \in SUBSET K,
         NEW data, DOMAIN data = S
  PROVE  InOrder(data) = [n \in 1..Cardinality(S) |-> data[Placed(S, Places(K), n)]]
<1>1. \A key \in S : Under(S, Places(K), key) = {k \in S : Earlier(k, key)}
  BY KeySetOrders
<1>2. \A n : Placed(S, Places(K), n)
              = CHOOSE key \in S : Cardinality({k \in S : Earlier(k, key)}) = n - 1
  BY <1>1 DEF Placed
<1>3. InOrder(data) = [n \in 1..Cardinality(S) |->
          data[CHOOSE key \in S : Cardinality({k \in S : Earlier(k, key)}) = n - 1]]
  BY DEF InOrder
<1> QED
  BY <1>2, <1>3, ZenonT(40)

LEMMA InOrderKept ==
  ASSUME NEW width \in Nat, NEW K, IsKeySet(K, width), NEW S \in SUBSET K,
         NEW data, DOMAIN data = K, NEW B,
         B = {n \in 1..Cardinality(K) : Placed(K, Places(K), n) \in S}
  PROVE  Kept(InOrder(data), B) = InOrder([key \in S |-> data[key]])
<1> DEFINE R == Places(K)
           part == [key \in S |-> data[key]]
<1>1. IsFiniteSet(K) /\ Orders(R, K)
  BY KeySetOrders DEF IsKeySet
<1>2. InOrder(data) = [n \in 1..Cardinality(K) |-> data[Placed(K, R, n)]]
  BY InOrderIs
<1>3. DOMAIN part = S
  OBVIOUS
<1> HIDE DEF part
<1>4. InOrder(part) = [n \in 1..Cardinality(S) |-> part[Placed(S, R, n)]]
  BY <1>3, InOrderIs
<1> HIDE DEF R
<1>5. B = {n \in 1..Cardinality(K) : Placed(K, R, n) \in S}
  BY DEF R
<1>6. /\ B \in SUBSET Nat /\ IsFiniteSet(B) /\ IsFiniteSet(S)
      /\ Cardinality(B) = Cardinality(S)
      /\ \A k \in 1..Cardinality(S) :
            Nth(B, k) \in B /\ Placed(K, R, Nth(B, k)) = Placed(S, R, k)
  BY <1>1, <1>5, PlacedPart, SMTT(30)
<1>7. Orders(R, S)
  BY <1>1, OrdersPart
<1>8. \A k \in 1..Cardinality(S) : InOrder(data)[Nth(B, k)] = data[Placed(S, R, k)]
  BY <1>2, <1>5, <1>6
<1>9. \A k \in 1..Cardinality(S) : Placed(S, R, k) \in S
  BY <1>6, <1>7, PlacedAt
<1>10. \A k \in 1..Cardinality(S) : part[Placed(S, R, k)] = data[Placed(S, R, k)]
  BY <1>9 DEF part
<1>11. Kept(InOrder(data), B) = [k \in 1..Cardinality(S) |-> InOrder(data)[Nth(B, k)]]
  BY <1>6 DEF Kept
<1>12. Kept(InOrder(data), B) = [k \in 1..Cardinality(S) |-> part[Placed(S, R, k)]]
  BY <1>8, <1>10, <1>11
<1> QED
  BY <1>4, <1>12 DEF part

\* The keys of a statement are finitely many.
Bounded(data) == IsFiniteSet(DOMAIN data) /\ DOMAIN data \subseteq Nat

LEMMA JoinedIs ==
  ASSUME NEW src, NEW keys, NEW j, NEW width, NEW x
  PROVE  x \in JoinedTo(src, keys, j, width) <=>
             \/ \E key \in keys :
                   \E p \in Partners(src, key, j) : x = Longer(key, p)
             \/ /\ j.type \in {"left", "full"}
                /\ \E key \in keys :
                      Partners(src, key, j) = {} /\ x = Longer(key, NoPlace)
             \/ /\ j.type \in {"right", "full"}
                /\ \E p \in Lone(src, keys, j) : x = LoneKey(p, width)
BY DEF JoinedTo, Partners, Lone, LoneKey, Longer

LEMMA JoinedKeySet ==
  ASSUME NEW src, NEW width \in Nat \ {0}, NEW keys, IsKeySet(keys, width),
         NEW j, Bounded(j.of.rows)
  PROVE  IsKeySet(JoinedTo(src, keys, j, width), width + 1)
<1> DEFINE D == DOMAIN j.of.rows
           E == D \cup {NoPlace}
           T == {Longer(x[1], x[2]) : x \in keys \X E}
           U == {LoneKey(p, width) : p \in D}
           K == JoinedTo(src, keys, j, width)
<1>0. width \in Nat /\ NoPlace \in Nat
  BY DEF NoPlace
<1>1. IsFiniteSet(D) /\ D \subseteq Nat /\ IsFiniteSet(E) /\ E \subseteq Nat
  <2>1. IsFiniteSet(D) /\ D \subseteq Nat
    BY DEF Bounded
  <2> HIDE DEF D
  <2> QED
    BY <1>0, <2>1, FS_AddElement
<1>2. ASSUME NEW key \in keys, NEW p \in E
      PROVE  HasPlaces(Longer(key, p), width + 1) /\ Longer(key, p) \in T
  <2>1. IsKey(key, width) /\ \A k \in 1..width : key[k] \in Nat
    BY DEF IsKeySet, HasPlaces
  <2>2. /\ IsKey(Longer(key, p), width + 1)
        /\ Longer(key, p)[width + 1] = p
        /\ \A k \in 1..width : Longer(key, p)[k] = key[k]
    BY <1>0, <2>1, LongerAt
  <2>3. \A k \in 1..(width + 1) : k \in 1..width \/ k = width + 1
    BY <1>0
  <2>4. \A k \in 1..(width + 1) : Longer(key, p)[k] \in Nat
    BY <1>1, <2>1, <2>2, <2>3
  <2>5. <<key, p>> \in keys \X E /\ <<key, p>>[1] = key /\ <<key, p>>[2] = p
    OBVIOUS
  <2>6. Longer(key, p) \in T
    BY <2>5
  <2> QED
    BY <2>2, <2>4, <2>6 DEF HasPlaces
<1>3. ASSUME NEW p \in D
      PROVE  HasPlaces(LoneKey(p, width), width + 1)
  BY <1>0, <1>1 DEF HasPlaces, IsKey, LoneKey
<1>4. \A key : Partners(src, key, j) \subseteq D
  BY DEF Partners
<1>5. Lone(src, keys, j) \subseteq D
  BY DEF Lone
<1>6. ASSUME NEW x \in K
      PROVE  HasPlaces(x, width + 1) /\ x \in T \cup U
  <2>1. CASE \E key \in keys : \E p \in Partners(src, key, j) : x = Longer(key, p)
    <3>1. PICK key \in keys, p \in E : x = Longer(key, p)
      BY <1>4, <2>1
    <3> QED
      BY <1>2, <3>1
  <2>2. CASE \E key \in keys : x = Longer(key, NoPlace)
    <3>1. PICK key \in keys : x = Longer(key, NoPlace)
      BY <2>2
    <3> QED
      BY <1>2, <3>1
  <2>3. CASE \E p \in Lone(src, keys, j) : x = LoneKey(p, width)
    <3>1. PICK p \in D : x = LoneKey(p, width)
      BY <1>5, <2>3
    <3> QED
      BY <1>3, <3>1
  <2>4. \/ \E key \in keys : \E p \in Partners(src, key, j) : x = Longer(key, p)
        \/ \E key \in keys : x = Longer(key, NoPlace)
        \/ \E p \in Lone(src, keys, j) : x = LoneKey(p, width)
    BY JoinedIs
  <2> QED
    BY <2>1, <2>2, <2>3, <2>4
<1>7. IsFiniteSet(T)
  <2> DEFINE f == [x \in keys \X E |-> Longer(x[1], x[2])]
  <2>1. f \in Surjection(keys \X E, T)
    BY DEF Surjection
  <2>2. IsFiniteSet(keys \X E)
    <3> HIDE DEF E
    <3> QED
      BY <1>1, FS_Product DEF IsKeySet
  <2> HIDE DEF f, T
  <2> QED
    BY <2>1, <2>2, FS_Surjection
<1>8. IsFiniteSet(U)
  <2> DEFINE f == [p \in D |-> LoneKey(p, width)]
  <2>1. f \in Surjection(D, U)
    BY DEF Surjection
  <2> HIDE DEF f, U, D
  <2> QED
    BY <1>1, <2>1, FS_Surjection
<1>9. IsFiniteSet(K)
  <2>1. K \in SUBSET (T \cup U)
    BY <1>6
  <2> HIDE DEF K, T, U
  <2>2. IsFiniteSet(T \cup U)
    BY <1>7, <1>8, FS_Union
  <2> QED
    BY <2>1, <2>2, FS_Subset
<1> QED
  BY <1>6, <1>9 DEF IsKeySet

LEMMA KeysBounded ==
  ASSUME NEW data, Bounded(data), NEW joins, joins \in Seq(Range(joins)),
         \A n \in DOMAIN joins : Bounded(joins[n].of.rows)
  PROVE  IsKeySet(Keys(data, joins), Len(joins) + 1)
<1>1. PICK upTo :
        /\ Keys(data, joins) = upTo[Len(joins)]
        /\ upTo[0] = {<<p>> : p \in DOMAIN data}
        /\ \A n \in 1..Len(joins) :
              upTo[n] = JoinedTo(Sources(data, joins), upTo[n - 1], joins[n], n)
  BY KeysUnfold
<1>2. Len(joins) \in Nat /\ DOMAIN joins = 1..Len(joins)
  OBVIOUS
<1> DEFINE N == {n \in Nat : n <= Len(joins) => IsKeySet(upTo[n], n + 1)}
<1>3. 0 \in N
  <2> DEFINE D == DOMAIN data
             K == {<<p>> : p \in D}
             f == [p \in D |-> <<p>>]
  <2>1. IsFiniteSet(D) /\ D \subseteq Nat
    BY DEF Bounded
  <2>2. f \in Surjection(D, K)
    BY DEF Surjection
  <2>3. \A p \in D : HasPlaces(<<p>>, 1)
    BY <2>1 DEF HasPlaces, IsKey
  <2>4. \A key \in K : HasPlaces(key, 1)
    BY <2>3
  <2>5. upTo[0] = K
    BY <1>1
  <2> HIDE DEF K, f, D
  <2>6. IsFiniteSet(K)
    BY <2>1, <2>2, FS_Surjection
  <2>7. IsKeySet(upTo[0], 1)
    BY <2>4, <2>5, <2>6 DEF IsKeySet
  <2> QED
    BY <2>7
<1>4. ASSUME NEW n \in N PROVE n + 1 \in N
  <2> SUFFICES ASSUME n + 1 <= Len(joins) PROVE IsKeySet(upTo[n + 1], (n + 1) + 1)
    OBVIOUS
  <2>1. n + 1 \in 1..Len(joins) /\ (n + 1) - 1 = n /\ IsKeySet(upTo[n], n + 1)
        /\ n + 1 \in Nat \ {0}
    BY <1>2
  <2>2. upTo[n + 1] = JoinedTo(Sources(data, joins), upTo[n], joins[n + 1], n + 1)
    BY <1>1, <2>1
  <2>3. Bounded(joins[n + 1].of.rows)
    BY <1>2, <2>1
  <2> QED
    BY <2>1, <2>2, <2>3, JoinedKeySet
<1>5. N = Nat
  <2>1. N \in SUBSET Nat
    OBVIOUS
  <2> HIDE DEF N
  <2> QED
    BY <1>3, <1>4, <2>1, AllNumbers
<1> QED
  BY <1>1, <1>2, <1>5

\* Where no join keeps rows that the first table has no partner for, the
\* keys of a part of the first table are those that start in this part.
Inward(joins) == \A n \in DOMAIN joins : joins[n].type \notin {"right", "full"}

LEMMA RowsOfPart ==
  ASSUME NEW data, NEW S, S \subseteq DOMAIN data, NEW joins, joins \in Seq(Range(joins)),
         NEW width \in 1..(Len(joins) + 1), NEW key, IsKey(key, width), key[1] \in S
  PROVE  RowsAt(Sources(Restrict(data, S), joins), key) = RowsAt(Sources(data, joins), key)
<1> DEFINE src == Sources(data, joins)
           other == Sources(Restrict(data, S), joins)
<1>1. src[1] = data /\ \A n \in 1..Len(joins) : src[n + 1] = joins[n].of.rows
  BY SourcesAt
<1>2. other[1] = Restrict(data, S) /\ \A n \in 1..Len(joins) : other[n + 1] = joins[n].of.rows
  BY SourcesAt
<1>3. Len(joins) \in Nat /\ DOMAIN key = 1..width
  BY DEF IsKey
<1> HIDE DEF src, other
<1>4. ASSUME NEW k \in 1..width
      PROVE  src[k][key[k]] = other[k][key[k]]
  <2>1. CASE k = 1
    <3>1. Restrict(data, S)[key[1]] = data[key[1]]
      BY DEF Restrict
    <3> QED
      BY <1>1, <1>2, <2>1, <3>1
  <2>2. CASE k # 1
    <3>1. k - 1 \in 1..Len(joins) /\ (k - 1) + 1 = k
      BY <1>3, <2>2
    <3> QED
      BY <1>1, <1>2, <3>1
  <2> QED
    BY <2>1, <2>2
<1> QED
  BY <1>3, <1>4 DEF RowsAt, src, other

LEMMA JoinedInward ==
  ASSUME NEW src, NEW keys, NEW j, NEW width, j.type \notin {"right", "full"}
  PROVE  \A x : x \in JoinedTo(src, keys, j, width) <=>
             \/ \E key \in keys : \E p \in Partners(src, key, j) : x = Longer(key, p)
             \/ /\ j.type = "left"
                /\ \E key \in keys : Partners(src, key, j) = {} /\ x = Longer(key, NoPlace)
<1> TAKE x
<1> DEFINE A == \E key \in keys : \E p \in Partners(src, key, j) : x = Longer(key, p)
           B == \E key \in keys : Partners(src, key, j) = {} /\ x = Longer(key, NoPlace)
           C == \E p \in Lone(src, keys, j) : x = LoneKey(p, width)
<1>1. x \in JoinedTo(src, keys, j, width) <=>
          A \/ (j.type \in {"left", "full"} /\ B) \/ (j.type \in {"right", "full"} /\ C)
  BY JoinedIs
<1> HIDE DEF A, B, C
<1>2. x \in JoinedTo(src, keys, j, width) <=> A \/ (j.type = "left" /\ B)
  BY <1>1
<1> QED
  BY <1>2 DEF A, B

Starting(keys, S) == {key \in keys : key[1] \in S}

LEMMA JoinOfPart ==
  ASSUME NEW src, NEW other, NEW all, NEW part, NEW S, NEW j, NEW m \in Nat \ {0},
         j.type \notin {"right", "full"},
         part = Starting(all, S),
         \A key \in all : IsKey(key, m),
         \A key \in all : key[1] \in S => RowsAt(other, key) = RowsAt(src, key)
  PROVE  /\ JoinedTo(other, part, j, m) = Starting(JoinedTo(src, all, j, m), S)
         /\ \A key \in JoinedTo(src, all, j, m) :
               IsKey(key, m + 1) /\ \E k \in all : k[1] = key[1]
<1> DEFINE A == JoinedTo(src, all, j, m)
           P == JoinedTo(other, part, j, m)
<1>1. ASSUME NEW key \in all
      PROVE  /\ key[1] \in S => Partners(other, key, j) = Partners(src, key, j)
             /\ \A p : Longer(key, p)[1] = key[1] /\ IsKey(Longer(key, p), m + 1)
  <2>1. key[1] \in S => Partners(other, key, j) = Partners(src, key, j)
    BY DEF Partners
  <2>2. 1 \in 1..m
    OBVIOUS
  <2>3. \A p : Longer(key, p)[1] = key[1] /\ IsKey(Longer(key, p), m + 1)
    BY <2>2, LongerAt
  <2> QED
    BY <2>1, <2>3
<1>2. \A x : x \in A <=>
             \/ \E key \in all : \E p \in Partners(src, key, j) : x = Longer(key, p)
             \/ /\ j.type = "left"
                /\ \E key \in all : Partners(src, key, j) = {} /\ x = Longer(key, NoPlace)
  BY JoinedInward
<1>3. \A x : x \in P <=>
             \/ \E key \in part : \E p \in Partners(other, key, j) : x = Longer(key, p)
             \/ /\ j.type = "left"
                /\ \E key \in part : Partners(other, key, j) = {} /\ x = Longer(key, NoPlace)
  BY JoinedInward
<1> HIDE DEF A, P
<1>4. \A x \in A : IsKey(x, m + 1) /\ \E k \in all : k[1] = x[1]
  BY <1>1, <1>2
<1>5. ASSUME NEW x \in P PROVE x \in A /\ x[1] \in S
  <2>1. PICK key \in part :
           \/ \E p \in Partners(other, key, j) : x = Longer(key, p)
           \/ j.type = "left" /\ Partners(other, key, j) = {} /\ x = Longer(key, NoPlace)
    BY <1>3, <1>5
  <2>2. key \in all /\ key[1] \in S
    BY DEF Starting
  <2>3. Partners(other, key, j) = Partners(src, key, j) /\ x[1] = key[1]
    BY <1>1, <2>1, <2>2
  <2> QED
    BY <1>2, <2>1, <2>2, <2>3
<1>6. ASSUME NEW x \in A, x[1] \in S PROVE x \in P
  <2>1. PICK key \in all :
           \/ \E p \in Partners(src, key, j) : x = Longer(key, p)
           \/ j.type = "left" /\ Partners(src, key, j) = {} /\ x = Longer(key, NoPlace)
    BY <1>2, <1>6
  <2>2. x[1] = key[1]
    BY <1>1, <2>1
  <2>3. key \in part /\ Partners(other, key, j) = Partners(src, key, j)
    BY <1>1, <1>6, <2>2 DEF Starting
  <2> QED
    BY <1>3, <2>1, <2>3
<1>7. P = Starting(A, S)
  BY <1>5, <1>6 DEF Starting
<1> QED
  BY <1>4, <1>7 DEF A, P

LEMMA KeysOfPart ==
  ASSUME NEW data, NEW S, S \subseteq DOMAIN data, NEW joins, joins \in Seq(Range(joins)),
         Inward(joins)
  PROVE  /\ Keys(Restrict(data, S), joins) = {key \in Keys(data, joins) : key[1] \in S}
         /\ \A key \in Keys(data, joins) : IsKey(key, Len(joins) + 1) /\ key[1] \in DOMAIN data
<1> DEFINE whole == Sources(data, joins)
           less == Sources(Restrict(data, S), joins)
<1>1. PICK base :
        /\ Keys(data, joins) = base[Len(joins)]
        /\ base[0] = {<<p>> : p \in DOMAIN data}
        /\ \A n \in 1..Len(joins) : base[n] = JoinedTo(whole, base[n - 1], joins[n], n)
  BY KeysUnfold
<1>2. PICK kept :
        /\ Keys(Restrict(data, S), joins) = kept[Len(joins)]
        /\ kept[0] = {<<p>> : p \in DOMAIN Restrict(data, S)}
        /\ \A n \in 1..Len(joins) : kept[n] = JoinedTo(less, kept[n - 1], joins[n], n)
  BY KeysUnfold
<1>3. Len(joins) \in Nat /\ DOMAIN joins = 1..Len(joins)
  OBVIOUS
<1> DEFINE Fine(n) == /\ kept[n] = {key \in base[n] : key[1] \in S}
                      /\ \A key \in base[n] : IsKey(key, n + 1) /\ key[1] \in DOMAIN data
           N == {n \in Nat : n <= Len(joins) => Fine(n)}
<1>4. 0 \in N
  <2>1. DOMAIN Restrict(data, S) = S
    BY DEF Restrict
  <2>2. \A p : <<p>>[1] = p /\ IsKey(<<p>>, 1)
    BY DEF IsKey
  <2>3. Fine(0)
    BY <1>1, <1>2, <2>1, <2>2
  <2> QED
    BY <2>3
<1>5. ASSUME NEW n \in N PROVE n + 1 \in N
  <2> SUFFICES ASSUME n + 1 <= Len(joins) PROVE Fine(n + 1)
    OBVIOUS
  <2> DEFINE next == n + 1
             clause == joins[next]
  <2>1. next \in 1..Len(joins) /\ next - 1 = n /\ Fine(n) /\ next \in Nat \ {0} /\ next \in Nat
        /\ next \in 1..(Len(joins) + 1)
    BY <1>3
  <2>2. base[next] = JoinedTo(whole, base[n], clause, next) /\ kept[next] = JoinedTo(less, kept[n], clause, next)
    BY <1>1, <1>2, <2>1
  <2>3. clause.type \notin {"right", "full"}
    BY <1>3, <2>1 DEF Inward
  <2>4. \A key \in base[n] : IsKey(key, next) /\ key[1] \in DOMAIN data
    BY <2>1
  <2>5. \A key \in base[n] : key[1] \in S => RowsAt(less, key) = RowsAt(whole, key)
    BY <2>1, <2>4, RowsOfPart
  <2>6. kept[n] = {key \in base[n] : key[1] \in S}
    BY <2>1
  <2>8. next \in Nat \ {0}
    BY <2>1
  <2>7. PICK b, k, w, l, c, m : b = base[n] /\ k = kept[n] /\ w = whole /\ l = less
                                /\ c = clause /\ m = next
    OBVIOUS
  <2> HIDE DEF Fine, N, next, clause, whole, less
  <2>9. /\ c.type \notin {"right", "full"} /\ m \in Nat \ {0}
        /\ k = Starting(b, S)
        /\ \A key \in b : IsKey(key, m) /\ key[1] \in DOMAIN data
        /\ \A key \in b : key[1] \in S => RowsAt(l, key) = RowsAt(w, key)
    BY <2>3, <2>4, <2>5, <2>6, <2>7, <2>8 DEF Starting
  <2>10. /\ JoinedTo(l, k, c, m) = Starting(JoinedTo(w, b, c, m), S)
         /\ \A key \in JoinedTo(w, b, c, m) :
               IsKey(key, m + 1) /\ \E x \in b : x[1] = key[1]
    BY <2>9, JoinOfPart
  <2>11. base[next] = JoinedTo(w, b, c, m) /\ kept[next] = JoinedTo(l, k, c, m)
    BY <2>2, <2>7
  <2> QED
    BY <2>7, <2>9, <2>10, <2>11 DEF next, Fine, Starting
<1>6. N = Nat
  <2>1. N \in SUBSET Nat
    OBVIOUS
  <2> HIDE DEF N
  <2> QED
    BY <1>4, <1>5, <2>1, AllNumbers
<1>7. Fine(Len(joins))
  BY <1>3, <1>6
<1> QED
  BY <1>1, <1>2, <1>7

-------------------------------------------------------------------------------
\* The truth of a condition in the database, and how a condition is split,
\* are read in the same way.
Judging(row, h) ==
    CHOOSE read : read = [v \in Trees[h] |-> SqlTruthIf(v, row, {read[u] : u \in v.of})]
Dividing(computed, h) ==
    CHOOSE read : read = [v \in Trees[h] |-> SplitIf(v, computed, {read[u] : u \in v.of})]
Truth(w, row) == Judging(row, w.height)[w]

LEMMA TruthIs ==
  ASSUME NEW w, NEW row
  PROVE  SqlHolds(w, row) <=> Truth(w, row) = 2
BY DEF SqlHolds, Read, Judging, Truth

LEMMA SplitIs ==
  ASSUME NEW w, NEW computed
  PROVE  Split(w, computed) = Dividing(computed, w.height)[w]
BY DEF Split, Read, Dividing

LEMMA MoreReadingIs ==
  ASSUME NEW h \in Nat, NEW row
  PROVE  ReadsAs("truth", row, h, Judging(row, h)) /\ ReadsAs("split", row, h, Dividing(row, h))
<1>1. PICK f : ReadsAs("truth", row, h, f)
  BY ReadingsExist
<1>2. f = [v \in Trees[h] |-> SqlTruthIf(v, row, {f[u] : u \in v.of})]
  BY <1>1 DEF ReadsAs, StepOf
<1>3. Judging(row, h) = [v \in Trees[h] |-> SqlTruthIf(v, row, {Judging(row, h)[u] : u \in v.of})]
  BY <1>2, Zenon DEF Judging
<1>4. PICK g : ReadsAs("split", row, h, g)
  BY ReadingsExist
<1>5. g = [v \in Trees[h] |-> SplitIf(v, row, {g[u] : u \in v.of})]
  BY <1>4 DEF ReadsAs, StepOf
<1>6. Dividing(row, h) = [v \in Trees[h] |-> SplitIf(v, row, {Dividing(row, h)[u] : u \in v.of})]
  BY <1>5, Zenon DEF Dividing
<1> QED
  BY <1>3, <1>6 DEF ReadsAs, StepOf

LEMMA TruthOf ==
  ASSUME NEW w, IsTree(w), NEW row
  PROVE  Truth(w, row) = SqlTruthIf(w, row, {Truth(u, row) : u \in w.of})
<1> DEFINE F == [h \in Nat |-> Judging(row, h)]
           h == w.height
<1>1. \A k \in Nat : ReadsAs("truth", row, k, F[k])
  BY MoreReadingIs
<1>2. h \in Nat /\ w \in Trees[h] /\ w.of \subseteq Trees[h]
      /\ \A u \in w.of : u.height \in Nat /\ u.height <= h /\ u \in Trees[u.height]
  BY TreeOf DEF IsTree
<1>3. \A v : v.height \in Nat => Truth(v, row) = F[v.height][v]
  BY DEF Truth
<1> HIDE DEF F, h
<1>4. \A u \in w.of : F[h][u] = F[u.height][u]
  BY <1>1, <1>2, ReadingsAgree, SMTT(30)
<1>5. F[h][w] = SqlTruthIf(w, row, {F[h][u] : u \in w.of})
  BY <1>1, <1>2 DEF ReadsAs, StepOf
<1>6. {F[h][u] : u \in w.of} = {Truth(u, row) : u \in w.of}
  BY <1>2, <1>3, <1>4
<1> QED
  BY <1>2, <1>3, <1>5, <1>6 DEF h

LEMMA SplitOf ==
  ASSUME NEW w, IsTree(w), NEW computed
  PROVE  Split(w, computed) = SplitIf(w, computed, {Split(u, computed) : u \in w.of})
<1> DEFINE F == [h \in Nat |-> Dividing(computed, h)]
           h == w.height
<1>1. \A k \in Nat : ReadsAs("split", computed, k, F[k])
  BY MoreReadingIs
<1>2. h \in Nat /\ w \in Trees[h] /\ w.of \subseteq Trees[h]
      /\ \A u \in w.of : u.height \in Nat /\ u.height <= h /\ u \in Trees[u.height]
  BY TreeOf DEF IsTree
<1>3. \A v : v.height \in Nat => Split(v, computed) = F[v.height][v]
  BY SplitIs
<1> HIDE DEF F, h
<1>4. \A u \in w.of : F[h][u] = F[u.height][u]
  <2>1. \A m \in Nat : \A k \in Nat : m <= k => \A u \in Trees[m] : F[k][u] = F[m][u]
    BY <1>1, ReadingsAgree
  <2> QED
    BY <1>2, <2>1
<1>5. F[h][w] = SplitIf(w, computed, {F[h][u] : u \in w.of})
  BY <1>1, <1>2 DEF ReadsAs, StepOf
<1>6. {F[h][u] : u \in w.of} = {Split(u, computed) : u \in w.of}
  BY <1>2, <1>3, <1>4
<1> QED
  BY <1>2, <1>3, <1>5, <1>6 DEF h

\* A leaf has no parts, and a compound with other parts, that are no
\* higher, is a tree.
LEMMA TreeLayer ==
  ASSUME NEW w, IsTree(w)
  PROVE  /\ w.height = 0 => w \in Layer(0, {})
         /\ w.height > 0 => w \in Layer(w.height, Trees[w.height - 1])
         /\ w.type \in Leaves => w.of = {}
<1>1. w.height \in Nat /\ w \in Trees[w.height]
  BY DEF IsTree
<1>2. w.height = 0 => w \in Layer(0, {})
  BY <1>1, TreesAre
<1>3. ASSUME w.height > 0
      PROVE  w \in Layer(w.height, Trees[w.height - 1])
  <2> DEFINE h == w.height - 1
  <2>1. h \in Nat /\ w.height = h + 1
    BY <1>1, <1>3
  <2>2. w \in Trees[h] \cup Layer(h + 1, Trees[h])
    BY <1>1, <2>1, TreesAre
  <2>3. w \notin Trees[h]
    BY <2>1, TreesOf
  <2> QED
    BY <2>1, <2>2, <2>3
<1>4. \A h, lower : w \in Layer(h, lower) => (w.type \in Leaves => w.of = {})
  BY DEF Layer
<1>5. w.height = 0 \/ w.height > 0
  BY <1>1
<1> QED
  BY <1>2, <1>3, <1>4, <1>5

LEMMA Pruned ==
  ASSUME NEW w, IsTree(w), w.type \notin Leaves, w.height > 0,
         NEW S, \A u \in S : IsTree(u) /\ u.height <= w.height - 1
  PROVE  LET p == [w EXCEPT !.of = S]
         IN  IsTree(p) /\ p.of = S /\ p.type = w.type /\ p.height = w.height
             /\ p.field = w.field /\ p.expr = w.expr
<1> DEFINE p == [w EXCEPT !.of = S]
           h == w.height - 1
<1>1. h \in Nat /\ w.height = h + 1 /\ w \in Layer(h + 1, Trees[h])
  BY TreeLayer DEF IsTree
<1>2. S \subseteq Trees[h]
  <2>1. ASSUME NEW u \in S
        PROVE  u \in Trees[h]
    <3>1. u.height \in Nat /\ u \in Trees[u.height] /\ u.height <= h
      BY DEF IsTree
    <3> QED
      BY <1>1, <3>1, TreesRise
  <2> QED
    BY <2>1
<1> HIDE DEF h
<1>3. w \in [type : Types, field : STRING, op : STRING, value : Int, expr : SUBSET STRING,
             of : SUBSET Trees[h], height : {h + 1}]
  BY <1>1 DEF Layer
<1>4. p \in [type : Types, field : STRING, op : STRING, value : Int, expr : SUBSET STRING,
             of : SUBSET Trees[h], height : {h + 1}]
  BY <1>2, <1>3
<1>5. p.of = S /\ p.type = w.type /\ p.height = w.height /\ p.field = w.field /\ p.expr = w.expr
  BY <1>3
<1>6. p \in Layer(h + 1, Trees[h])
  BY <1>4, <1>5 DEF Layer
<1>7. p \in Trees[h + 1]
  BY <1>1, <1>6, TreesAre
<1>8. IsTree(p)
  BY <1>1, <1>5, <1>7 DEF IsTree
<1> QED
  BY <1>5, <1>8

\* What is pushed of a condition names no computed column and no
\* expression, every row the condition holds of holds it, and if nothing
\* is held back it is the condition.
Parted(w, computed, s) ==
    /\ s.rest \in BOOLEAN
    /\ IsTree(s.pushed) /\ s.pushed.height <= w.height
    /\ \A v \in Parts(s.pushed) : v.type # "expr" /\ (v.type = "simple" => v.field \notin computed)
    /\ Negates(s.pushed) => Negates(w)
    /\ \A row : /\ Holds(w, row) => Holds(s.pushed, row)
                /\ ~s.rest => Holds(w, row) = Holds(s.pushed, row)

LEMMA PartsWithin ==
  ASSUME NEW w, IsTree(w)
  PROVE  /\ w \in Parts(w)
         /\ \A u \in w.of : Parts(u) \subseteq Parts(w) /\ (Negates(u) => Negates(w))
         /\ \A u \in w.of : IsTree(u) /\ u.height <= w.height - 1 /\ w.height > 0
<1>1. Parts(w) = {w} \cup UNION {Parts(u) : u \in w.of}
  BY PartsOf
<1>2. \A u \in w.of : Parts(u) \subseteq Parts(w)
  BY <1>1
<1>3. ASSUME NEW u \in w.of
      PROVE  IsTree(u) /\ u.height <= w.height - 1 /\ w.height > 0
  <2>1. w.height \in Nat /\ w.height > 0 /\ w.of \subseteq Trees[w.height - 1]
    BY TreeOf
  <2>2. w.height - 1 \in Nat /\ u \in Trees[w.height - 1]
    BY <2>1
  <2>3. IsTree(u) /\ u.height <= w.height - 1
    BY <2>2, TreesOf
  <2> QED
    BY <2>1, <2>3
<1> QED
  BY <1>1, <1>2, <1>3 DEF Negates

LEMMA NothingPushed ==
  ASSUME NEW w, IsTree(w), NEW computed, NEW rest \in BOOLEAN,
         ~rest => \A row : Holds(w, row) = TRUE
  PROVE  Parted(w, computed, [pushed |-> NoWhere, rest |-> rest])
<1>1. IsTree(NoWhere) /\ Parts(NoWhere) = {NoWhere} /\ (\A row : Holds(NoWhere, row) = TRUE)
  BY NoWhereHolds
<1>2. NoWhere.height = 0 /\ NoWhere.type = "none" /\ w.height \in Nat
  BY DEF NoWhere, IsTree
<1> DEFINE s == [pushed |-> NoWhere, rest |-> rest]
<1>3. s.pushed = NoWhere /\ s.rest = rest
  OBVIOUS
<1> HIDE DEF s
<1>4. ~Negates(NoWhere)
  BY <1>1, <1>2 DEF Negates
<1>5. \A row : /\ Holds(w, row) => Holds(NoWhere, row)
               /\ ~rest => Holds(w, row) = Holds(NoWhere, row)
  BY <1>1
<1>6. NoWhere.height <= w.height
  BY <1>2
<1>7. \A v \in Parts(NoWhere) : v.type # "expr" /\ (v.type = "simple" => v.field \notin computed)
  BY <1>1, <1>2
<1> QED
  BY <1>1, <1>3, <1>4, <1>5, <1>6, <1>7 DEF Parted, s

LEMMA LeafParted ==
  ASSUME NEW w, IsTree(w), NEW computed, w.type \in Leaves
  PROVE  Parted(w, computed, SplitLeaf(w, computed))
<1>1. w.of = {} /\ Parts(w) = {w}
  <2>1. w.of = {}
    BY TreeLayer
  <2> QED
    BY <2>1, PartsOf
<1>2. CASE w.type = "none"
  <2>1. \A row : Holds(w, row) = TRUE
    BY <1>2, HoldsOf DEF HoldsIf
  <2>2. SplitLeaf(w, computed) = [pushed |-> NoWhere, rest |-> FALSE]
    BY <1>2 DEF SplitLeaf
  <2> QED
    BY <2>1, <2>2, NothingPushed
<1>3. CASE w.type = "expr" \/ (w.type = "simple" /\ w.field \in computed)
  <2>1. SplitLeaf(w, computed) = [pushed |-> NoWhere, rest |-> TRUE]
    BY <1>3 DEF SplitLeaf, InMemory
  <2> QED
    BY <2>1, NothingPushed
<1>4. CASE w.type = "simple" /\ w.field \notin computed
  <2>1. SplitLeaf(w, computed) = [pushed |-> w, rest |-> FALSE]
    BY <1>4 DEF SplitLeaf
  <2> DEFINE s == [pushed |-> w, rest |-> FALSE]
  <2>2. s.pushed = w /\ s.rest = FALSE
    OBVIOUS
  <2> HIDE DEF s
  <2>3. \A v \in Parts(w) : v.type # "expr" /\ (v.type = "simple" => v.field \notin computed)
    BY <1>1, <1>4
  <2>4. w.height <= w.height
    BY DEF IsTree
  <2>5. Parted(w, computed, s)
    BY <2>2, <2>3, <2>4 DEF Parted
  <2> QED
    BY <2>1, <2>5 DEF s
<1> QED
  BY <1>2, <1>3, <1>4 DEF Leaves

\* A compound with what its parts push.
LEMMA CompoundPruned ==
  ASSUME NEW w, IsTree(w), w.type \in {"and", "or", "not"}, NEW computed, NEW S,
         \A x \in S : \E u \in w.of : Parted(u, computed, Split(u, computed))
                                      /\ x = Split(u, computed).pushed
  PROVE  LET p == [w EXCEPT !.of = S]
         IN  /\ IsTree(p) /\ p.of = S /\ p.type = w.type /\ p.height <= w.height
             /\ \A v \in Parts(p) : v.type # "expr"
                                    /\ (v.type = "simple" => v.field \notin computed)
             /\ Negates(p) => Negates(w)
<1> DEFINE p == [w EXCEPT !.of = S]
<1>1. \A u \in w.of : IsTree(u) /\ u.height <= w.height - 1 /\ w.height > 0
  BY PartsWithin
<1>2. w.height \in Nat
  BY DEF IsTree
<1>3. \A x \in S : IsTree(x) /\ x.height <= w.height - 1 /\ w.height > 0
  <2>1. ASSUME NEW x \in S
        PROVE  IsTree(x) /\ x.height <= w.height - 1 /\ w.height > 0
    <3>1. PICK u \in w.of : Parted(u, computed, Split(u, computed))
                            /\ x = Split(u, computed).pushed
      OBVIOUS
    <3>2. IsTree(x) /\ x.height <= u.height
      BY <3>1 DEF Parted
    <3>3. u.height \in Nat /\ x.height \in Nat /\ u.height <= w.height - 1 /\ w.height > 0
      BY <1>1, <3>1, <3>2 DEF IsTree
    <3> QED
      BY <1>2, <3>2, <3>3
  <2> QED
    BY <2>1
<1>4. IsTree(p) /\ p.of = S /\ p.type = w.type /\ p.height = w.height
  <2>1. w.type \notin Leaves
    BY DEF Leaves
  <2>2. CASE w.height > 0
    BY <1>3, <2>1, <2>2, Pruned
  <2>3. CASE w.height = 0
    <3>1. w.of = {} /\ S = {}
      BY <1>3, <2>3, TreeOf
    <3>2. w \in Layer(0, {})
      BY <2>3, TreeLayer
    <3>3. w \in [type : Types, field : STRING, op : STRING, value : Int, expr : SUBSET STRING,
                 of : SUBSET {}, height : {0}]
      BY <3>2 DEF Layer
    <3>4. p = w
      BY <3>1, <3>3
    <3> QED
      BY <3>1, <3>4
  <2> QED
    BY <1>2, <2>2, <2>3
<1> HIDE DEF p
<1>5. Parts(p) = {p} \cup UNION {Parts(x) : x \in S}
  BY <1>4, PartsOf
<1>6. \A x \in S : \A v \in Parts(x) : v.type # "expr"
                                       /\ (v.type = "simple" => v.field \notin computed)
  BY DEF Parted
<1>7. \A v \in Parts(p) : v.type # "expr" /\ (v.type = "simple" => v.field \notin computed)
  BY <1>4, <1>5, <1>6
<1>8. ASSUME Negates(p)
      PROVE  Negates(w)
  <2>1. CASE w.type = "not"
    BY <2>1, PartsWithin DEF Negates
  <2>2. CASE w.type # "not"
    <3>1. PICK v \in Parts(p) : v.type = "not"
      BY <1>8 DEF Negates
    <3>2. PICK x \in S : v \in Parts(x)
      BY <1>4, <1>5, <2>2, <3>1
    <3>3. PICK u \in w.of : Parted(u, computed, Split(u, computed))
                            /\ x = Split(u, computed).pushed
      OBVIOUS
    <3>4. Negates(x)
      BY <3>1, <3>2 DEF Negates
    <3>5. Negates(u)
      BY <3>3, <3>4 DEF Parted
    <3> QED
      BY <3>3, <3>5, PartsWithin
  <2> QED
    BY <2>1, <2>2
<1>9. p.height <= w.height
  BY <1>2, <1>4
<1> QED
  BY <1>4, <1>7, <1>8, <1>9 DEF p

SplitsOf(w, computed) == {Split(u, computed) : u \in w.of}
SplitWell(w, computed) == Parted(w, computed, Split(w, computed))

LEMMA AndParted ==
  ASSUME NEW w, IsTree(w), w.type = "and", NEW computed,
         \A u \in w.of : SplitWell(u, computed)
  PROVE  Parted(w, computed, SplitPart(w, SplitsOf(w, computed)))
<1> DEFINE parts == SplitsOf(w, computed)
           P == Pushed(parts)
           p == [w EXCEPT !.of = P]
<1>1. \A part : part \in parts <=> \E u \in w.of : part = Split(u, computed)
  BY DEF SplitsOf
<1>2. \A x : x \in P <=> x # NoWhere /\ \E part \in parts : x = part.pushed
  BY DEF Pushed
<1>3. \A u \in w.of : Parted(u, computed, Split(u, computed)) /\ IsTree(u)
  BY TreeOf DEF SplitWell
<1>4. Rest(parts) <=> \E u \in w.of : Split(u, computed).rest
  BY <1>1 DEF Rest
<1>5. \A u \in w.of : Split(u, computed).rest \in BOOLEAN
  BY <1>3 DEF Parted
<1>6. Rest(parts) \in BOOLEAN
  BY DEF Rest
<1>7. ASSUME NEW row
      PROVE  Holds(w, row) <=> \A u \in w.of : Holds(u, row)
  <2>1. Holds(w, row) = (FALSE \notin {Holds(u, row) : u \in w.of})
    BY HoldsOf DEF HoldsIf
  <2>2. \A u \in w.of : Holds(u, row) \in BOOLEAN
    BY <1>3, HoldsBoolean
  <2> QED
    BY <2>1, <2>2
<1>8. CASE P = {}
  <2>1. SplitPart(w, parts) = [pushed |-> NoWhere, rest |-> Rest(parts)]
    BY <1>8 DEF SplitPart
  <2>2. ASSUME ~Rest(parts), NEW row
        PROVE  Holds(w, row) = TRUE
    <3>1. \A u \in w.of : Holds(u, row) = TRUE
      <4>1. ASSUME NEW u \in w.of
            PROVE  Holds(u, row) = TRUE
        <5>1. Split(u, computed).pushed = NoWhere /\ ~Split(u, computed).rest
          BY <1>1, <1>2, <1>4, <1>8, <2>2
        <5>2. Holds(u, row) = Holds(NoWhere, row)
          BY <1>3, <5>1 DEF Parted
        <5> QED
          BY <5>2, NoWhereHolds
      <4> QED
        BY <4>1
    <3>2. Holds(w, row) \in BOOLEAN
      BY HoldsBoolean
    <3> QED
      BY <1>7, <3>1, <3>2
  <2> QED
    BY <1>6, <2>1, <2>2, NothingPushed
<1>9. CASE P # {}
  <2> DEFINE s == SplitPart(w, parts)
  <2>1. s.pushed = p /\ s.rest = Rest(parts)
    BY <1>9 DEF SplitPart
  <2>2. \A x \in P : \E u \in w.of : Parted(u, computed, Split(u, computed))
                                     /\ x = Split(u, computed).pushed
    BY <1>1, <1>2, <1>3
  <2> HIDE DEF P
  <2>3. /\ IsTree(p) /\ p.of = P /\ p.type = w.type /\ p.height <= w.height
        /\ \A v \in Parts(p) : v.type # "expr" /\ (v.type = "simple" => v.field \notin computed)
        /\ Negates(p) => Negates(w)
    BY <2>2, CompoundPruned
  <2> HIDE DEF p, s, parts
  <2>4. ASSUME NEW row
        PROVE  Holds(p, row) <=> \A x \in P : Holds(x, row)
    <3>1. Holds(p, row) = (FALSE \notin {Holds(x, row) : x \in P})
      BY <2>3, HoldsOf DEF HoldsIf
    <3>2. \A x \in P : Holds(x, row) \in BOOLEAN
      BY <2>3, TreeOf, HoldsBoolean
    <3> QED
      BY <3>1, <3>2
  <2>5. ASSUME NEW row, Holds(w, row)
        PROVE  Holds(p, row)
    <3>1. ASSUME NEW x \in P
          PROVE  Holds(x, row)
      <4>1. PICK u \in w.of : x = Split(u, computed).pushed
        BY <2>2
      <4>2. Holds(u, row)
        BY <1>7, <2>5
      <4> QED
        BY <1>3, <4>1, <4>2 DEF Parted
    <3> QED
      BY <2>4, <3>1
  <2>6. ASSUME NEW row, ~Rest(parts)
        PROVE  Holds(w, row) = Holds(p, row)
    <3>1. ASSUME Holds(p, row), NEW u \in w.of
          PROVE  Holds(u, row)
      <4>1. ~Split(u, computed).rest
        BY <1>4, <2>6
      <4>2. Holds(u, row) = Holds(Split(u, computed).pushed, row)
        BY <1>3, <4>1 DEF Parted
      <4>3. CASE Split(u, computed).pushed = NoWhere
        BY <4>2, <4>3, NoWhereHolds
      <4>4. CASE Split(u, computed).pushed # NoWhere
        <5>1. Split(u, computed).pushed \in P
          BY <1>1, <1>2, <4>4
        <5> QED
          BY <2>4, <3>1, <4>2, <5>1
      <4> QED
        BY <4>3, <4>4
    <3>2. Holds(p, row) => Holds(w, row)
      BY <1>7, <3>1
    <3>3. Holds(p, row) \in BOOLEAN /\ Holds(w, row) \in BOOLEAN
      BY <2>3, HoldsBoolean
    <3> QED
      BY <2>5, <3>2, <3>3
  <2>7. Parted(w, computed, s)
    BY <1>6, <2>1, <2>3, <2>5, <2>6 DEF Parted
  <2> QED
    BY <2>7 DEF s, parts
<1> QED
  BY <1>8, <1>9

LEMMA WholeParted ==
  ASSUME NEW w, IsTree(w), w.type \in {"or", "not"}, NEW computed,
         \A u \in w.of : SplitWell(u, computed)
  PROVE  Parted(w, computed, SplitIf(w, computed, SplitsOf(w, computed)))
<1> DEFINE parts == SplitsOf(w, computed)
           P == Pushed(parts)
           p == [w EXCEPT !.of = P]
           held == Rest(parts) \/ \E part \in parts : part.pushed = NoWhere
<1>1. \A part : part \in parts <=> \E u \in w.of : part = Split(u, computed)
  BY DEF SplitsOf
<1>2. \A x : x \in P <=> x # NoWhere /\ \E part \in parts : x = part.pushed
  BY DEF Pushed
<1>3. \A u \in w.of : Parted(u, computed, Split(u, computed)) /\ IsTree(u)
  BY TreeOf DEF SplitWell
<1>4. SplitIf(w, computed, parts) =
          IF held THEN InMemory ELSE [pushed |-> p, rest |-> FALSE]
  BY DEF SplitIf
<1>5. CASE held
  <2>1. SplitIf(w, computed, parts) = [pushed |-> NoWhere, rest |-> TRUE]
    BY <1>4, <1>5 DEF InMemory
  <2> QED
    BY <2>1, NothingPushed
<1>6. CASE ~held
  <2> DEFINE s == SplitIf(w, computed, parts)
  <2>1. s.pushed = p /\ s.rest = FALSE
    BY <1>4, <1>6
  <2>2. \A u \in w.of : ~Split(u, computed).rest /\ Split(u, computed).pushed # NoWhere
    BY <1>1, <1>6 DEF Rest
  <2>3. \A x : x \in P <=> \E u \in w.of : x = Split(u, computed).pushed
    BY <1>1, <1>2, <2>2
  <2>4. \A x \in P : \E u \in w.of : Parted(u, computed, Split(u, computed))
                                     /\ x = Split(u, computed).pushed
    BY <1>3, <2>3
  <2> HIDE DEF P
  <2>5. /\ IsTree(p) /\ p.of = P /\ p.type = w.type /\ p.height <= w.height
        /\ \A v \in Parts(p) : v.type # "expr" /\ (v.type = "simple" => v.field \notin computed)
        /\ Negates(p) => Negates(w)
    BY <2>4, CompoundPruned
  <2> HIDE DEF p, s, parts
  <2>6. ASSUME NEW row
        PROVE  Holds(w, row) = Holds(p, row)
    <3>1. \A u \in w.of : Holds(u, row) = Holds(Split(u, computed).pushed, row)
      BY <1>3, <2>2 DEF Parted
    <3>2. {Holds(u, row) : u \in w.of} = {Holds(x, row) : x \in P}
      BY <2>3, <3>1
    <3>3. Holds(w, row) = HoldsIf(w, row, {Holds(u, row) : u \in w.of})
      BY HoldsOf
    <3>4. Holds(p, row) = HoldsIf(p, row, {Holds(x, row) : x \in P})
      BY <2>5, HoldsOf
    <3>5. \A of : HoldsIf(p, row, of) = HoldsIf(w, row, of)
      BY <2>5 DEF HoldsIf
    <3> QED
      BY <3>2, <3>3, <3>4, <3>5, Zenon
  <2>7. Parted(w, computed, s)
    BY <2>1, <2>5, <2>6 DEF Parted
  <2> QED
    BY <2>7 DEF s, parts
<1> QED
  BY <1>5, <1>6

\* splitWhere (planner/planner.go), for conditions of any height: every row the whole
\* condition holds of holds the part that is pushed, which reads nothing only memory knows;
\* and with nothing held back the two are one.
THEOREM SplitIsSafe ==
  ASSUME NEW w, IsTree(w), NEW computed
  PROVE  SplitWell(w, computed)
<1> DEFINE N == {h \in Nat : \A v \in Trees[h] : SplitWell(v, computed)}
<1>1. ASSUME NEW v, IsTree(v), \A u \in v.of : SplitWell(u, computed)
      PROVE  SplitWell(v, computed)
  <2>1. Split(v, computed) = SplitIf(v, computed, SplitsOf(v, computed))
    BY <1>1, SplitOf DEF SplitsOf
  <2>2. v.type \in Types
    BY <1>1, TreeOf
  <2>3. CASE v.type \in Leaves
    <3>1. SplitIf(v, computed, SplitsOf(v, computed)) = SplitLeaf(v, computed)
      BY <2>3 DEF SplitIf, Leaves
    <3> QED
      BY <1>1, <2>1, <2>3, <3>1, LeafParted DEF SplitWell
  <2>4. CASE v.type = "and"
    <3>1. SplitIf(v, computed, SplitsOf(v, computed)) = SplitPart(v, SplitsOf(v, computed))
      BY <2>4 DEF SplitIf
    <3> QED
      BY <1>1, <2>1, <2>4, <3>1, AndParted DEF SplitWell
  <2>5. CASE v.type \in {"or", "not"}
    BY <1>1, <2>1, <2>5, WholeParted DEF SplitWell
  <2> QED
    BY <2>2, <2>3, <2>4, <2>5 DEF Types, Leaves
<1>2. 0 \in N
  <2>1. ASSUME NEW v \in Trees[0]
        PROVE  SplitWell(v, computed)
    <3>1. IsTree(v) /\ v.of = {}
      BY TreesOf
    <3> QED
      BY <1>1, <3>1
  <2> QED
    BY <2>1
<1>3. ASSUME NEW n \in N
      PROVE  n + 1 \in N
  <2>1. n \in Nat /\ n + 1 \in Nat /\ n + 1 > 0 /\ (n + 1) - 1 = n
        /\ \A v \in Trees[n] : SplitWell(v, computed)
    OBVIOUS
  <2>2. ASSUME NEW v \in Trees[n + 1]
        PROVE  SplitWell(v, computed)
    <3>1. IsTree(v) /\ v.of \subseteq Trees[n]
      BY <2>1, TreesOf
    <3> QED
      BY <1>1, <2>1, <3>1
  <2> QED
    BY <2>1, <2>2
<1>4. N \in SUBSET Nat
  OBVIOUS
<1>5. N = Nat
  <2> HIDE DEF N
  <2> QED
    BY <1>2, <1>3, <1>4, AllNumbers
<1> QED
  BY <1>5 DEF IsTree

\* A row is calm for a condition that compares no null of it.
Calm(w, row) == \A v \in Parts(w) : v.type = "simple" => Get(row, v.field) # Null
Spoken(w) == \A v \in Parts(w) : v.type # "expr"
Judged(w, row) ==
    Spoken(w) =>
        /\ Truth(w, row) \in {0, 1, 2}
        /\ Calm(w, row) => Truth(w, row) # 1
        /\ Calm(w, row) \/ ~Negates(w) => (Truth(w, row) = 2 <=> Holds(w, row))

LEMMA TruthSets ==
  ASSUME NEW S \in SUBSET {0, 1, 2}
  PROVE  /\ Min(S \cup {2}) \in S \cup {2} /\ \A y \in S \cup {2} : Min(S \cup {2}) <= y
         /\ Max(S \cup {0}) \in S \cup {0} /\ \A y \in S \cup {0} : Max(S \cup {0}) >= y
<1>1. \E x \in S \cup {2} : \A y \in S \cup {2} : x <= y
  <2>1. CASE 0 \in S
    BY <2>1
  <2>2. CASE 0 \notin S /\ 1 \in S
    BY <2>2
  <2>3. CASE 0 \notin S /\ 1 \notin S
    <3>1. \A y \in S \cup {2} : y = 2
      BY <2>3
    <3> QED
      BY <3>1
  <2> QED
    BY <2>1, <2>2, <2>3
<1>2. \E x \in S \cup {0} : \A y \in S \cup {0} : x >= y
  <2>1. CASE 2 \in S
    BY <2>1
  <2>2. CASE 2 \notin S /\ 1 \in S
    BY <2>2
  <2>3. CASE 2 \notin S /\ 1 \notin S
    <3>1. \A y \in S \cup {0} : y = 0
      BY <2>3
    <3> QED
      BY <3>1
  <2> QED
    BY <2>1, <2>2, <2>3
<1> QED
  BY <1>1, <1>2 DEF Min, Max

LEMMA LeafJudged ==
  ASSUME NEW w, IsTree(w), w.type \in Leaves, NEW row
  PROVE  Judged(w, row)
<1>1. w.of = {} /\ w \in Parts(w)
  BY TreeLayer, PartsWithin
<1>2. Truth(w, row) = SqlTruthIf(w, row, {})
  BY <1>1, TruthOf
<1>3. Holds(w, row) = HoldsIf(w, row, {})
  BY <1>1, HoldsOf
<1>4. CASE w.type = "none"
  <2>1. Truth(w, row) = 2 /\ Holds(w, row) = TRUE
    BY <1>2, <1>3, <1>4 DEF SqlTruthIf, HoldsIf
  <2> QED
    BY <2>1 DEF Judged
<1>5. CASE w.type = "simple"
  <2>1. Truth(w, row) = IF Undecided(w, row) THEN 1 ELSE IF SimpleHolds(w, row) THEN 2 ELSE 0
    BY <1>2, <1>5 DEF SqlTruthIf
  <2>2. Holds(w, row) = SimpleHolds(w, row)
    BY <1>3, <1>5 DEF HoldsIf
  <2>3. Undecided(w, row) => ~SimpleHolds(w, row)
    BY DEF Undecided, SimpleHolds
  <2>4. Calm(w, row) => ~Undecided(w, row)
    BY <1>1, <1>5 DEF Calm, Undecided
  <2> QED
    BY <2>1, <2>2, <2>3, <2>4 DEF Judged
<1>6. CASE w.type = "expr"
  BY <1>1, <1>6 DEF Judged, Spoken
<1> QED
  BY <1>4, <1>5, <1>6 DEF Leaves

LEMMA CompoundJudged ==
  ASSUME NEW w, IsTree(w), w.type \in {"and", "or", "not"}, NEW row,
         \A u \in w.of : Judged(u, row)
  PROVE  Judged(w, row)
<1> DEFINE T == {Truth(u, row) : u \in w.of}
           H == {Holds(u, row) : u \in w.of}
<1> SUFFICES ASSUME Spoken(w)
             PROVE  /\ Truth(w, row) \in {0, 1, 2}
                    /\ Calm(w, row) => Truth(w, row) # 1
                    /\ Calm(w, row) \/ ~Negates(w) => (Truth(w, row) = 2 <=> Holds(w, row))
  BY DEF Judged
<1>1. \A u \in w.of : Spoken(u) /\ (Calm(w, row) => Calm(u, row)) /\ (Negates(u) => Negates(w))
  BY PartsWithin DEF Spoken, Calm
<1>2. \A u \in w.of : Truth(u, row) \in {0, 1, 2}
  BY <1>1 DEF Judged
<1>3. T \in SUBSET {0, 1, 2}
  BY <1>2
<1>4. Calm(w, row) => 1 \notin T
  BY <1>1 DEF Judged
<1>5. Calm(w, row) \/ ~Negates(w) =>
          \A u \in w.of : Truth(u, row) = 2 <=> Holds(u, row)
  BY <1>1 DEF Judged
<1>6. \A u \in w.of : Holds(u, row) \in BOOLEAN
  BY TreeOf, HoldsBoolean
<1>7. Truth(w, row) = SqlTruthIf(w, row, T)
  BY TruthOf
<1>8. Holds(w, row) = HoldsIf(w, row, H)
  BY HoldsOf
<1>9. /\ (FALSE \notin H) <=> \A u \in w.of : Holds(u, row)
      /\ (TRUE \in H) <=> \E u \in w.of : Holds(u, row)
  BY <1>6
<1>10. \A t : t \in T <=> \E u \in w.of : t = Truth(u, row)
  OBVIOUS
<1>11. w.type = "not" => Negates(w)
  BY PartsWithin DEF Negates
<1> HIDE DEF T, H
<1>12. CASE w.type = "and"
  <2> DEFINE m == Min(T \cup {2})
  <2>1. Truth(w, row) = m /\ (Holds(w, row) <=> FALSE \notin H)
    BY <1>7, <1>8, <1>12 DEF SqlTruthIf, HoldsIf
  <2>2. m \in T \cup {2} /\ \A y \in T \cup {2} : m <= y
    BY <1>3, TruthSets
  <2> HIDE DEF m
  <2>3. m \in {0, 1, 2} /\ (m = 2 <=> \A t \in T : t = 2) /\ (1 \notin T => m # 1)
    BY <1>3, <2>2
  <2>4. (m = 2) <=> \A u \in w.of : Truth(u, row) = 2
    BY <1>10, <2>3
  <2> QED
    BY <1>4, <1>5, <1>9, <2>1, <2>3, <2>4
<1>13. CASE w.type = "or"
  <2> DEFINE m == Max(T \cup {0})
  <2>1. Truth(w, row) = m /\ (Holds(w, row) <=> TRUE \in H)
    BY <1>7, <1>8, <1>13 DEF SqlTruthIf, HoldsIf
  <2>2. m \in T \cup {0} /\ \A y \in T \cup {0} : m >= y
    BY <1>3, TruthSets
  <2> HIDE DEF m
  <2>3. m \in {0, 1, 2} /\ (m = 2 <=> 2 \in T) /\ (1 \notin T => m # 1)
    BY <1>3, <2>2
  <2>4. (m = 2) <=> \E u \in w.of : Truth(u, row) = 2
    BY <1>10, <2>3
  <2> QED
    BY <1>4, <1>5, <1>9, <2>1, <2>3, <2>4
<1>14. CASE w.type = "not"
  <2> DEFINE m == Max(T \cup {0})
  <2>1. Truth(w, row) = 2 - m /\ (Holds(w, row) <=> ~(TRUE \in H))
    BY <1>7, <1>8, <1>14 DEF SqlTruthIf, HoldsIf
  <2>2. m \in T \cup {0} /\ \A y \in T \cup {0} : m >= y
    BY <1>3, TruthSets
  <2> HIDE DEF m
  <2>3. m \in {0, 1, 2} /\ (m = 0 <=> \A t \in T : t = 0) /\ (1 \notin T => m # 1)
    BY <1>3, <2>2
  <2>4. Calm(w, row) => ((m = 0) <=> \A u \in w.of : Truth(u, row) # 2)
    BY <1>2, <1>4, <1>10, <2>3
  <2>5. 2 - m \in {0, 1, 2} /\ (2 - m = 2 <=> m = 0) /\ (2 - m = 1 <=> m = 1)
    BY <2>3
  <2> QED
    BY <1>4, <1>5, <1>9, <1>11, <1>14, <2>1, <2>3, <2>4, <2>5
<1> QED
  BY <1>12, <1>13, <1>14

LEMMA AllJudged ==
  ASSUME NEW w, IsTree(w), NEW row
  PROVE  Judged(w, row)
<1> DEFINE N == {h \in Nat : \A v \in Trees[h] : Judged(v, row)}
<1>1. ASSUME NEW v, IsTree(v), \A u \in v.of : Judged(u, row)
      PROVE  Judged(v, row)
  <2>1. v.type \in Leaves \/ v.type \in {"and", "or", "not"}
    BY <1>1, TreeOf DEF Types, Leaves
  <2> QED
    BY <1>1, <2>1, LeafJudged, CompoundJudged
<1>2. 0 \in N
  <2>1. ASSUME NEW v \in Trees[0]
        PROVE  Judged(v, row)
    <3>1. IsTree(v) /\ v.of = {}
      BY TreesOf
    <3> QED
      BY <1>1, <3>1
  <2> QED
    BY <2>1
<1>3. ASSUME NEW n \in N
      PROVE  n + 1 \in N
  <2>1. n \in Nat /\ n + 1 \in Nat /\ n + 1 > 0 /\ (n + 1) - 1 = n
        /\ \A v \in Trees[n] : Judged(v, row)
    OBVIOUS
  <2>2. ASSUME NEW v \in Trees[n + 1]
        PROVE  Judged(v, row)
    <3>1. IsTree(v) /\ v.of \subseteq Trees[n]
      BY <2>1, TreesOf
    <3> QED
      BY <1>1, <2>1, <3>1
  <2> QED
    BY <2>1, <2>2
<1>4. N \in SUBSET Nat
  OBVIOUS
<1>5. N = Nat
  <2> HIDE DEF N
  <2> QED
    BY <1>2, <1>3, <1>4, AllNumbers
<1> QED
  BY <1>5 DEF IsTree

\* A condition without an expression keeps the same rows in the database, where a null makes
\* it unknown, and in memory (evalWhereExpr of processor/processor.go), where it makes it
\* false: as long as it compares no null, or negates nothing.
THEOREM SqlAlike ==
  ASSUME NEW w, IsTree(w), Spoken(w), NEW row, Calm(w, row) \/ ~Negates(w)
  PROVE  SqlHolds(w, row) <=> Holds(w, row)
BY AllJudged, TruthIs DEF Judged

\* The empty condition.
LEMMA NothingAsked ==
  /\ IsTree(NoWhere) /\ Spoken(NoWhere) /\ ~Negates(NoWhere) /\ ~HasExpr(NoWhere)
  /\ Fields(NoWhere) = {}
  /\ \A row : Holds(NoWhere, row) /\ SqlHolds(NoWhere, row)
  /\ \A computed : Split(NoWhere, computed) = [pushed |-> NoWhere, rest |-> FALSE]
<1>1. NoWhere.type = "none" /\ NoWhere.expr = {} /\ NoWhere.of = {}
  BY DEF NoWhere
<1>2. IsTree(NoWhere) /\ Parts(NoWhere) = {NoWhere} /\ \A row : Holds(NoWhere, row)
  BY NoWhereHolds
<1>3. Spoken(NoWhere) /\ ~Negates(NoWhere) /\ ~HasExpr(NoWhere)
  BY <1>1, <1>2 DEF Spoken, Negates, HasExpr
<1>4. Fields(NoWhere) = {}
  BY <1>1, <1>2 DEF Fields
<1>5. \A row : SqlHolds(NoWhere, row)
  BY <1>2, <1>3, SqlAlike
<1>6. \A computed : Split(NoWhere, computed) = [pushed |-> NoWhere, rest |-> FALSE]
  BY <1>1, <1>2, SplitOf DEF SplitIf, SplitLeaf
<1> QED
  BY <1>2, <1>3, <1>4, <1>5, <1>6

-------------------------------------------------------------------------------
\* The condition that a version is the current one.
LEMMA CurrentRowIs ==
  /\ IsTree(CurrentRow) /\ CurrentRow # NoWhere
  /\ CurrentRow.type = "simple" /\ CurrentRow.field = "cur" /\ CurrentRow.expr = {}
  /\ Parts(CurrentRow) = {CurrentRow}
  /\ \A row : (Holds(CurrentRow, row) <=> Get(row, "cur") = 1)
              /\ (SqlHolds(CurrentRow, row) <=> Get(row, "cur") = 1)
<1>1. CurrentRow = [type |-> "simple", field |-> "cur", op |-> "==", value |-> 1,
                    expr |-> {}, of |-> {}, height |-> 0]
  <2>1. DOMAIN NoWhere = {"type", "field", "op", "value", "expr", "of", "height"}
    BY DEF NoWhere
  <2>2. CurrentRow = [NoWhere EXCEPT !.type = "simple", !.field = "cur", !.op = "==",
                                     !.value = 1]
    BY DEF CurrentRow, Simple
  <2>3. /\ NoWhere.expr = {} /\ NoWhere.of = {} /\ NoWhere.height = 0
    BY DEF NoWhere
  <2> QED
    BY <2>1, <2>2, <2>3
<1>2. CurrentRow \in Layer(0, {})
  <2>1. "cur" \in STRING /\ "==" \in STRING
    BY CurrentRowAssumption, Zenon
  <2>2. "simple" \in Types /\ {} \in SUBSET STRING /\ 1 \in Int /\ {} \in SUBSET {}
    BY DEF Types
  <2> DEFINE r == [type |-> "simple", field |-> "cur", op |-> "==", value |-> 1,
                   expr |-> {}, of |-> {}, height |-> 0]
  <2>3. r \in [type : Types, field : STRING, op : STRING, value : Int, expr : SUBSET STRING,
               of : SUBSET {}, height : {0}]
    BY <2>1, <2>2
  <2>4. r.of = {}
    OBVIOUS
  <2> HIDE DEF r
  <2>5. r \in Layer(0, {})
    BY <2>3, <2>4 DEF Layer
  <2> QED
    BY <1>1, <2>5 DEF r
<1>3. IsTree(CurrentRow)
  BY <1>1, <1>2, TreesAre DEF IsTree
<1>4. Parts(CurrentRow) = {CurrentRow}
  BY <1>1, <1>3, PartsOf
<1>5. ASSUME NEW row
      PROVE  /\ Holds(CurrentRow, row) <=> Get(row, "cur") = 1
             /\ SqlHolds(CurrentRow, row) <=> Get(row, "cur") = 1
  <2>1. SimpleHolds(CurrentRow, row) <=> Get(row, "cur") = 1
    BY <1>1 DEF SimpleHolds, Compare, Null
  <2>2. Holds(CurrentRow, row) = SimpleHolds(CurrentRow, row)
    <3>1. Holds(CurrentRow, row) = HoldsIf(CurrentRow, row, {Holds(u, row) : u \in {}})
      BY <1>1, <1>3, HoldsOf
    <3>2. CurrentRow.type = "simple"
      BY <1>1
    <3>3. \A of : HoldsIf(CurrentRow, row, of) = SimpleHolds(CurrentRow, row)
      BY <3>2 DEF HoldsIf
    <3> QED
      BY <3>1, <3>3
  <2>3. Truth(CurrentRow, row) = SqlTruthIf(CurrentRow, row, {})
    BY <1>1, <1>3, TruthOf
  <2>4. Undecided(CurrentRow, row) => Get(row, "cur") # 1
    BY <1>1 DEF Undecided, Null
  <2>5. Truth(CurrentRow, row) = 2 <=> SimpleHolds(CurrentRow, row)
    BY <1>1, <2>1, <2>3, <2>4 DEF SqlTruthIf
  <2> QED
    BY <2>1, <2>2, <2>5, TruthIs
<1>6. CurrentRow # NoWhere
  BY <1>1 DEF NoWhere
<1> QED
  BY <1>1, <1>3, <1>4, <1>5, <1>6

\* Merged with that condition, a condition is split into it and into what
\* the condition was split into.
LEMMA MergedIs ==
  ASSUME NEW w, IsTree(w)
  PROVE  LET m == MergeAnd(CurrentRow, w)
         IN  /\ IsTree(m) /\ m # w
             /\ \A row : Holds(m, row) <=> Get(row, "cur") = 1 /\ Holds(w, row)
             /\ HasExpr(m) <=> HasExpr(w)
             /\ NamesVersion(m)
             /\ Fields(w) \subseteq Fields(m)
<1> DEFINE m == MergeAnd(CurrentRow, w)
           a == And({CurrentRow, w})
<1>1. IsTree(CurrentRow) /\ CurrentRow # NoWhere
  BY CurrentRowIs
<1>2. IsTree(m) /\ \A row : Holds(m, row) = (Holds(CurrentRow, row) /\ Holds(w, row))
  BY <1>1, MergeOf
<1>3. \A row : Holds(w, row) \in BOOLEAN
  BY HoldsBoolean
<1>4. \A row : Holds(m, row) <=> Get(row, "cur") = 1 /\ Holds(w, row)
  BY <1>2, <1>3, CurrentRowIs
<1>5. CASE w = NoWhere
  <2>1. m = CurrentRow
    BY <1>1, <1>5 DEF MergeAnd
  <2>2. ~HasExpr(w) /\ ~HasExpr(CurrentRow) /\ NamesVersion(CurrentRow)
    BY <1>5, CurrentRowIs, NothingAsked DEF HasExpr, NamesVersion
  <2>3. Fields(w) = {}
    BY <1>5, NothingAsked
  <2> QED
    BY <1>1, <1>2, <1>4, <1>5, <2>1, <2>2, <2>3
<1>6. CASE w # NoWhere
  <2>1. m = a
    BY <1>1, <1>6 DEF MergeAnd
  <2>2. IsTree(a) /\ Parts(a) = {a} \cup Parts(CurrentRow) \cup Parts(w) /\ a.field = ""
    BY <1>1, AndOf
  <2>3. a.type = "and" /\ a.of = {CurrentRow, w}
    BY AndIs
  <2>4. w.height <= a.height - 1
    BY <2>2, <2>3, PartsWithin
  <2>5. w.height \in Nat /\ a.height \in Nat
    BY <2>2 DEF IsTree
  <2>6. a # w
    BY <2>4, <2>5
  <2>7. HasExpr(a) <=> HasExpr(w)
    BY <2>2, <2>3, CurrentRowIs DEF HasExpr
  <2>8. NamesVersion(a)
    BY <2>2, CurrentRowIs DEF NamesVersion
  <2>9. Fields(w) \subseteq Fields(a)
    BY <2>2, <2>3, FieldsHave
  <2> QED
    BY <1>2, <1>4, <2>1, <2>6, <2>7, <2>8, <2>9
<1> QED
  BY <1>5, <1>6

LEMMA MergedSplit ==
  ASSUME NEW w, IsTree(w), NEW computed, "cur" \notin computed
  PROVE  LET s == Split(MergeAnd(CurrentRow, w), computed)
             t == Split(w, computed)
         IN  /\ s.rest <=> t.rest
             /\ \A row : SqlHolds(s.pushed, row)
                            <=> Get(row, "cur") = 1 /\ SqlHolds(t.pushed, row)
             /\ "cur" \in Fields(s.pushed)
             /\ Fields(t.pushed) \subseteq Fields(s.pushed)
<1> DEFINE m == MergeAnd(CurrentRow, w)
           s == Split(m, computed)
           t == Split(w, computed)
<1>1. IsTree(CurrentRow) /\ CurrentRow # NoWhere /\ IsTree(m)
  BY CurrentRowIs, MergedIs
<1>2. Split(CurrentRow, computed) = [pushed |-> CurrentRow, rest |-> FALSE]
  <2>1. CurrentRow.type = "simple" /\ CurrentRow.field \notin computed
    BY CurrentRowIs
  <2> QED
    BY <1>1, <2>1, SplitOf DEF SplitIf, SplitLeaf
<1>3. Parted(m, computed, s) /\ Parted(w, computed, t)
  BY <1>1, SplitIsSafe DEF SplitWell
<1>4. IsTree(s.pushed) /\ IsTree(t.pushed) /\ Spoken(s.pushed) /\ Spoken(t.pushed)
      /\ s.rest \in BOOLEAN /\ t.rest \in BOOLEAN
  BY <1>3 DEF Parted, Spoken
<1>5. CASE w = NoWhere
  <2>1. m = CurrentRow
    BY <1>1, <1>5 DEF MergeAnd
  <2>2. t = [pushed |-> NoWhere, rest |-> FALSE]
    BY <1>5, NothingAsked
  <2>3. \A row : SqlHolds(NoWhere, row)
    BY NothingAsked
  <2>4. Fields(NoWhere) = {}
    BY NothingAsked
  <2>5. "cur" \in Fields(CurrentRow)
    BY CurrentRowIs DEF Fields
  <2>6. s = [pushed |-> CurrentRow, rest |-> FALSE]
    BY <1>2, <2>1
  <2> QED
    BY <2>2, <2>3, <2>4, <2>5, <2>6, CurrentRowIs
<1>6. CASE w # NoWhere
  <2> DEFINE a == And({CurrentRow, w})
             parts == {Split(CurrentRow, computed), t}
             P == Pushed(parts)
  <2>1. m = a
    BY <1>1, <1>6 DEF MergeAnd
  <2>2. a.type = "and" /\ a.of = {CurrentRow, w}
    BY AndIs
  <2>3. s = SplitPart(a, parts)
    <3>1. {Split(u, computed) : u \in a.of} = parts
      BY <2>2
    <3> QED
      BY <1>1, <2>1, <2>2, <3>1, SplitOf, ZenonT(40) DEF SplitIf
  <2>4. P = {CurrentRow} \cup ({t.pushed} \ {NoWhere})
    BY <1>1, <1>2 DEF Pushed
  <2>5. s.pushed = [a EXCEPT !.of = P] /\ s.rest = Rest(parts)
    BY <2>3, <2>4 DEF SplitPart
  <2>6. s.rest <=> t.rest
    BY <1>2, <1>4, <2>5 DEF Rest
  <2>7. s.pushed.of = P /\ s.pushed.type = "and"
    <3>1. DOMAIN a = {"type", "field", "op", "value", "expr", "of", "height"}
      BY AndIs
    <3> QED
      BY <2>2, <2>5, <3>1
  <2> HIDE DEF s, t, a, m, parts, P
  <2>8. ASSUME NEW row
        PROVE  SqlHolds(s.pushed, row) <=> Get(row, "cur") = 1 /\ SqlHolds(t.pushed, row)
    <3> DEFINE T == {Truth(u, row) : u \in P}
               least == Min(T \cup {2})
    <3>1. Truth(s.pushed, row) = least
      BY <1>4, <2>7, TruthOf DEF SqlTruthIf
    <3>2. \A u \in P : IsTree(u) /\ Spoken(u)
      BY <1>1, <1>4, <2>4, CurrentRowIs DEF Spoken
    <3>3. \A u \in P : Truth(u, row) \in {0, 1, 2}
      BY <3>2, AllJudged DEF Judged
    <3>4. T \in SUBSET {0, 1, 2}
      BY <3>3
    <3>5. least \in T \cup {2} /\ \A y \in T \cup {2} : least <= y
      BY <3>4, TruthSets
    <3>6. \A x : x \in T <=> \E u \in P : x = Truth(u, row)
      OBVIOUS
    <3> HIDE DEF T, least
    <3>7. least = 2 <=> \A u \in P : Truth(u, row) = 2
      <4>1. least = 2 <=> \A x \in T : x = 2
        <5>1. ASSUME least = 2, NEW x \in T
              PROVE  x = 2
          <6>1. x \in {0, 1, 2} /\ 2 <= x
            BY <3>4, <3>5, <5>1
          <6> QED
            BY <6>1
        <5>2. ASSUME \A x \in T : x = 2
              PROVE  least = 2
          BY <3>5, <5>2
        <5> QED
          BY <5>1, <5>2
      <4> QED
        BY <3>6, <4>1
    <3>8. t.pushed = NoWhere => SqlHolds(t.pushed, row)
      BY NothingAsked
    <3>9. (\A u \in P : Truth(u, row) = 2) <=> SqlHolds(CurrentRow, row) /\ SqlHolds(t.pushed, row)
      BY <2>4, <3>8, TruthIs
    <3> QED
      BY <3>1, <3>7, <3>9, TruthIs, CurrentRowIs
  <2>9. "cur" \in Fields(CurrentRow)
    BY CurrentRowIs DEF Fields
  <2>10. "cur" \in Fields(s.pushed)
    BY <1>4, <2>4, <2>7, <2>9, FieldsHave
  <2>11. Fields(t.pushed) \subseteq Fields(s.pushed)
    BY <1>4, <2>4, <2>7, NothingAsked, FieldsHave
  <2> QED
    BY <2>6, <2>8, <2>10, <2>11 DEF s, t, m
<1> QED
  BY <1>5, <1>6

\* What the planner makes of a query, clause by clause.
Marks(q) == dataset.versioned /\ "cur" \in dataset.raw /\ ~NamesVersion(q.where)

LEMMA CurrentOnlyOf ==
  ASSUME NEW q, IsQuery(q), IsTree(q.where)
  PROVE  LET C == CurrentOnly(q)
         IN  /\ C.where = IF Marks(q) THEN MergeAnd(CurrentRow, q.where) ELSE q.where
             /\ C.join = q.join /\ C.select = q.select /\ C.computed = q.computed
             /\ C.groupBy = q.groupBy /\ C.aggs = q.aggs /\ C.having = q.having
             /\ C.orderBy = q.orderBy /\ C.limit = q.limit /\ C.offset = q.offset
             /\ Computed(C) = Computed(q)
             /\ IsTree(C.where) /\ (HasExpr(C.where) <=> HasExpr(q.where))
             /\ Fields(q.where) \subseteq Fields(C.where)
             /\ C = q => ~Marks(q)
<1> DEFINE C == CurrentOnly(q)
<1>1. DOMAIN q = {"join", "select", "computed", "where", "groupBy", "aggs", "having", "orderBy",
                  "limit", "offset", "expand"}
  BY DEF IsQuery, AllRows
<1>2. /\ IsTree(MergeAnd(CurrentRow, q.where)) /\ MergeAnd(CurrentRow, q.where) # q.where
      /\ HasExpr(MergeAnd(CurrentRow, q.where)) <=> HasExpr(q.where)
      /\ Fields(q.where) \subseteq Fields(MergeAnd(CurrentRow, q.where))
  BY MergedIs
<1>3. CASE Marks(q)
  <2>1. C = [q EXCEPT !.where = MergeAnd(CurrentRow, q.where)]
    BY <1>3 DEF CurrentOnly, Marks
  <2>2. /\ C.where = MergeAnd(CurrentRow, q.where)
        /\ C.join = q.join /\ C.select = q.select /\ C.computed = q.computed
        /\ C.groupBy = q.groupBy /\ C.aggs = q.aggs /\ C.having = q.having
        /\ C.orderBy = q.orderBy /\ C.limit = q.limit /\ C.offset = q.offset
    BY <1>1, <2>1
  <2>3. Computed(C) = Computed(q)
    BY <2>2 DEF Computed
  <2>4. C # q
    BY <1>2, <2>2
  <2> QED
    BY <1>2, <1>3, <2>2, <2>3, <2>4
<1>4. CASE ~Marks(q)
  BY <1>4 DEF CurrentOnly, Marks
<1> QED
  BY <1>3, <1>4

Bases(q) == Range(q.groupBy) \subseteq RawColumns(PlanJoins(q.join))

LEMMA PlanOf ==
  ASSUME NEW q, IsQuery(q), IsTree(q.where)
  PROVE  LET p == Plan(q)
             raw == RawColumns(PlanJoins(q.join))
             split == Split(CurrentOnly(q).where, Computed(q))
         IN  /\ p.joins = PlanJoins(q.join) /\ p.select = PlanSelect(q)
             /\ p.where = split.pushed
             /\ p.group = IF Bases(q) THEN q.groupBy ELSE <<>>
             /\ p.having = IF Bases(q) THEN q.having ELSE NoWhere
             /\ p.aggs = {a \in q.aggs : Bases(q) /\ Pushable(a) /\ a.field \in raw}
             /\ p.order = Kept(q.orderBy, {n \in DOMAIN q.orderBy :
                                              q.orderBy[n].field \in raw \ Computed(q)})
             /\ p.limit = (IF PagePushed(p.memory) THEN q.limit ELSE NoLimit)
             /\ p.offset = (IF PagePushed(p.memory) THEN q.offset ELSE 0)
             /\ "filter_expr" \in p.memory <=> split.rest
             /\ "aggregate" \in p.memory <=> p.aggs # q.aggs
             /\ "having" \in p.memory <=> q.having # NoWhere /\ ~Bases(q)
             /\ "sort" \in p.memory <=> p.order # q.orderBy
             /\ "computed_columns" \in p.memory <=> Computed(q) # {}
             /\ "paginate" \in p.memory <=> ~PagePushed(p.memory)
<1> DEFINE C == CurrentOnly(q)
           joins == PlanJoins(q.join)
           raw == RawColumns(joins)
           computed == Computed(q)
           split == Split(C.where, computed)
           aggs == {a \in q.aggs : Bases(q) /\ Pushable(a) /\ a.field \in raw}
           order == Kept(q.orderBy, {n \in DOMAIN q.orderBy :
                                        q.orderBy[n].field \in raw \ computed})
           left == (IF split.rest THEN {"filter_expr"} ELSE {})
                   \cup (IF aggs # q.aggs THEN {"aggregate"} ELSE {})
                   \cup (IF q.having # NoWhere /\ ~Bases(q) THEN {"having"} ELSE {})
                   \cup (IF order # q.orderBy THEN {"sort"} ELSE {})
                   \cup (IF computed # {} THEN {"computed_columns"} ELSE {})
           paged == PagePushed(left)
<1>1. /\ C.join = q.join /\ C.groupBy = q.groupBy /\ C.aggs = q.aggs /\ C.having = q.having
      /\ C.orderBy = q.orderBy /\ C.limit = q.limit /\ C.offset = q.offset
      /\ Computed(C) = Computed(q)
  BY CurrentOnlyOf
<1>2. Plan(q) =
         [joins  |-> joins,
          select |-> PlanSelect(q),
          where  |-> split.pushed,
          group  |-> IF Bases(q) THEN q.groupBy ELSE <<>>,
          aggs   |-> aggs,
          having |-> IF Bases(q) THEN q.having ELSE NoWhere,
          order  |-> order,
          limit  |-> IF paged THEN q.limit ELSE NoLimit,
          offset |-> IF paged THEN q.offset ELSE 0,
          memory |-> left \cup (IF paged THEN {} ELSE {"paginate"})]
  BY <1>1 DEF Plan, Bases
<1> HIDE DEF raw, split, aggs, order, joins
<1> DEFINE memory == left \cup (IF paged THEN {} ELSE {"paginate"})
<1>3. /\ Plan(q).joins = joins /\ Plan(q).select = PlanSelect(q)
      /\ Plan(q).where = split.pushed
      /\ Plan(q).group = (IF Bases(q) THEN q.groupBy ELSE <<>>)
      /\ Plan(q).aggs = aggs
      /\ Plan(q).having = (IF Bases(q) THEN q.having ELSE NoWhere)
      /\ Plan(q).order = order
      /\ Plan(q).limit = (IF paged THEN q.limit ELSE NoLimit)
      /\ Plan(q).offset = (IF paged THEN q.offset ELSE 0)
      /\ Plan(q).memory = memory
  BY <1>2
<1>4. /\ "filter_expr" \in left <=> split.rest
      /\ "aggregate" \in left <=> aggs # q.aggs
      /\ "having" \in left <=> q.having # NoWhere /\ ~Bases(q)
      /\ "sort" \in left <=> order # q.orderBy
      /\ "computed_columns" \in left <=> computed # {}
      /\ "paginate" \notin left
  OBVIOUS
<1> HIDE DEF left
<1>5. \A x : x \in memory <=> x \in left \/ (~paged /\ x = "paginate")
  OBVIOUS
<1>6. PagePushed(memory) <=> paged
  BY <1>5 DEF PagePushed
<1>7. /\ "filter_expr" \in memory <=> split.rest
      /\ "aggregate" \in memory <=> aggs # q.aggs
      /\ "having" \in memory <=> q.having # NoWhere /\ ~Bases(q)
      /\ "sort" \in memory <=> order # q.orderBy
      /\ "computed_columns" \in memory <=> computed # {}
      /\ "paginate" \in memory <=> ~paged
  BY <1>4, <1>5
<1> HIDE DEF memory, paged
<1> QED
  BY <1>3, <1>6, <1>7 DEF raw, split, aggs, order, joins

\* The joins as they are written, if each starts from the first table.
LEMMA WrittenIs ==
  ASSUME NEW q, IsQuery(q), \A n \in DOMAIN q.join : AsWritten(q.join)[n].at = 1
  PROVE  /\ AsWritten(q.join) = SeenThrough(PlanJoins(q.join))
         /\ IsJoins(PlanJoins(q.join))
<1> DEFINE joins == PlanJoins(q.join)
           seen == SeenThrough(joins)
           owners(n) == Owners(SubSeq(seen, 1, n - 1), q.join[n].left)
           from(n) == IF owners(n) = {} THEN 1 ELSE Min(owners(n))
<1>1. IsJoins(joins)
  <2>1. Plan(q).joins = joins
    BY DEF Plan, CurrentOnly, IsQuery, AllRows
  <2> QED
    BY <2>1, PlanIsPlan DEF IsPlan
<1>2. DOMAIN joins = DOMAIN q.join /\ DOMAIN seen = DOMAIN q.join
  BY DEF PlanJoins, SeenThrough
<1>3. AsWritten(q.join) = [n \in DOMAIN q.join |-> [seen[n] EXCEPT !.at = from(n)]]
  BY DEF AsWritten
<1>4. ASSUME NEW n \in DOMAIN q.join
      PROVE  seen[n].at = 1 /\ "at" \in DOMAIN seen[n]
             /\ seen[n] = [f \in DOMAIN seen[n] |-> seen[n][f]]
  <2>1. seen[n] = [joins[n] EXCEPT !.of = SeenJoined(@)]
    BY <1>2 DEF SeenThrough
  <2>2. "at" \in DOMAIN joins[n] /\ joins[n].at = 1
    BY <1>1, <1>2 DEF IsJoins
  <2> QED
    BY <2>1, <2>2
<1> HIDE DEF seen, joins, from
<1>5. ASSUME NEW n \in DOMAIN q.join
      PROVE  [seen[n] EXCEPT !.at = from(n)] = seen[n]
  <2>1. from(n) = 1
    BY <1>3, <1>4
  <2> QED
    BY <1>4, <2>1
<1>6. seen = [n \in DOMAIN q.join |-> seen[n]]
  BY <1>2 DEF seen, SeenThrough
<1>7. AsWritten(q.join) = seen
  BY <1>3, <1>5, <1>6
<1> QED
  BY <1>1, <1>7 DEF seen, joins

\* A classic query that the database did not refuse and that is well
\* divided; the keys of the rows the caller sees, and the rows of a key.
Executed(q) ==
    /\ Wired /\ IsQuery(q) /\ HasClauses(q) /\ q.limit \in Nat
    /\ ~Refused(Plan(q)) /\ WellDivided(Plan(q), q)
JoinsOf(q) == SeenThrough(PlanJoins(q.join))
Base(q) == Keys(SeenIn(dataset), JoinsOf(q))
At(q, key) == RowsAt(Sources(SeenIn(dataset), JoinsOf(q)), key)
Showing(q, key) == Marks(q) => Get(At(q, key)[1], "cur") = 1

LEMMA ExecutedIs ==
  ASSUME NEW q, Executed(q)
  PROVE  LET joins == PlanJoins(q.join)
         IN  /\ IsQuery(q) /\ IsTree(q.where) /\ IsTree(q.having)
             /\ Plan(q).joins = joins /\ Wanted(joins)
             /\ AsWritten(q.join) = JoinsOf(q)
             /\ dataset.versioned /\ ~NamesVersion(q.where) <=> Marks(q)
             /\ Marks(q) => "cur" \notin Computed(q)
             /\ Len(joins) = Len(q.join)
<1> DEFINE joins == PlanJoins(q.join)
           p == Plan(q)
<1>1. IsQuery(q) /\ IsTree(q.where) /\ IsTree(q.having)
  BY DEF Executed, HasClauses
<1>2. p.joins = joins
  BY <1>1, PlanOf
<1>3. /\ ScopeReaches(joins)
      /\ \A n \in DOMAIN joins : AsWritten(q.join)[n].at = 1
      /\ dataset.versioned /\ ~NamesVersion(q.where) => "cur" \in dataset.raw \ Computed(q)
  BY <1>2 DEF Executed, WellDivided, JoinsSaid, FiltersAll
<1>4. DOMAIN joins = DOMAIN q.join
  BY DEF PlanJoins
<1>5. AsWritten(q.join) = JoinsOf(q) /\ IsJoins(joins)
  BY <1>1, <1>3, <1>4, WrittenIs DEF JoinsOf
<1>6. \A c \in ScopedBy(dataset) : c.name \in dataset.columns
  BY <1>2 DEF Executed, Refused, NoSuchSource
<1>7. Wanted(joins)
  BY <1>3, <1>5, <1>6 DEF Wanted, Executed, Wired
<1>8. Len(joins) = Len(q.join)
  BY <1>1, <1>4, <1>5 DEF IsQuery, IsJoins
<1>9. /\ dataset.versioned /\ ~NamesVersion(q.where) <=> Marks(q)
      /\ Marks(q) => "cur" \notin Computed(q)
  BY <1>3 DEF Marks
<1> QED
  BY <1>1, <1>2, <1>5, <1>7, <1>8, <1>9

LEMMA DataBounded ==
  ASSUME NEW d, IsDataset(d), NEW scope
  PROVE  /\ Bounded(Within(d.rows, scope))
         /\ \A p \in DOMAIN Within(d.rows, scope) :
               /\ p # NoPlace /\ IsRow(Within(d.rows, scope)[p])
               /\ \A c : Get(Within(d.rows, scope)[p], c) \in Nat \cup {Null}
<1> DEFINE n == Len(d.rows)
           W == Within(d.rows, scope)
<1>1. n \in Nat /\ DOMAIN d.rows = 1..n
      /\ \A p \in 1..n : IsRow(d.rows[p]) /\ Range(d.rows[p]) \subseteq Nat \cup {Null}
  BY DEF IsDataset, Range
<1>2. /\ \A p \in DOMAIN W : p \in DOMAIN d.rows /\ W[p] = d.rows[p]
  BY WithinAt
<1> HIDE DEF n, W
<1>3. DOMAIN W \subseteq 1..n /\ DOMAIN W \subseteq Nat
  BY <1>1, <1>2
<1>4. IsFiniteSet(DOMAIN W)
  <2>1. IsFiniteSet(1..n)
    BY <1>1, FS_Interval
  <2> QED
    BY <1>3, <2>1, FS_Subset
<1>5. ASSUME NEW p \in DOMAIN W
      PROVE  /\ p # NoPlace /\ IsRow(W[p])
             /\ \A c : Get(W[p], c) \in Nat \cup {Null}
  <2>1. p \in 1..n /\ W[p] = d.rows[p]
    BY <1>1, <1>2
  <2>2. p # NoPlace
    BY <1>1, <2>1 DEF NoPlace
  <2>3. IsRow(W[p]) /\ \A c \in DOMAIN W[p] : W[p][c] \in Nat \cup {Null}
    BY <1>1, <2>1 DEF Range
  <2> QED
    BY <2>2, <2>3 DEF Get
<1> QED
  BY <1>3, <1>4, <1>5 DEF Bounded, W

LEMMA BaseIs ==
  ASSUME NEW q, Executed(q)
  PROVE  /\ IsKeySet(Base(q), Len(q.join) + 1)
         /\ Asked(q) = {key \in Base(q) : Showing(q, key)}
         /\ \A key \in Base(q) : Inside(At(q, key)[1], ScopedBy(dataset))
         /\ \A key \in Asked(q) : AskedRows(q, key) = At(q, key)
<1> DEFINE joins == PlanJoins(q.join)
           J == JoinsOf(q)
           seen == SeenIn(dataset)
           S == DOMAIN Current(q)
           l == Len(q.join)
<1>1. /\ Wanted(joins) /\ AsWritten(q.join) = J /\ Plan(q).joins = joins /\ Len(joins) = l
      /\ dataset.versioned /\ ~NamesVersion(q.where) <=> Marks(q)
      /\ IsQuery(q) /\ IsTree(q.where)
  BY ExecutedIs
<1>2. IsJoins(joins) /\ IsDataset(dataset)
  BY <1>1 DEF Wanted
<1>3. /\ DOMAIN J = DOMAIN joins /\ Len(J) = l /\ J \in Seq(Range(J)) /\ l \in Nat
      /\ \A n \in DOMAIN joins : /\ J[n].type = joins[n].type /\ IsDataset(joins[n].of)
                                 /\ J[n].of.rows = Within(joins[n].of.rows, JoinedScope(joins[n].of))
  <2>1. l \in Nat
    BY <1>1 DEF IsQuery
  <2> QED
    BY <1>1, <1>2, <2>1, SeenThroughLike DEF JoinsOf, IsJoins
<1>4. seen = Within(dataset.rows, ScopedBy(dataset))
  BY <1>1, PartOfAll
<1>5. Bounded(seen) /\ \A p \in DOMAIN seen : p # NoPlace /\ Inside(seen[p], ScopedBy(dataset))
  <2>1. /\ Bounded(Within(dataset.rows, ScopedBy(dataset)))
        /\ \A p \in DOMAIN Within(dataset.rows, ScopedBy(dataset)) :
              /\ p # NoPlace /\ IsRow(Within(dataset.rows, ScopedBy(dataset))[p])
              /\ \A c : Get(Within(dataset.rows, ScopedBy(dataset))[p], c) \in Nat \cup {Null}
    BY <1>2, DataBounded
  <2>2. \A p \in DOMAIN seen : Inside(seen[p], ScopedBy(dataset))
    BY <1>4, WithinAt
  <2> QED
    BY <1>4, <2>1, <2>2
<1>6. \A n \in DOMAIN J : Bounded(J[n].of.rows)
  <2>1. ASSUME NEW n \in DOMAIN J
        PROVE  Bounded(J[n].of.rows)
    <3>1. /\ J[n].of.rows = Within(joins[n].of.rows, JoinedScope(joins[n].of))
          /\ IsDataset(joins[n].of)
      BY <1>3, <2>1
    <3>2. \A d, scope : IsDataset(d) => Bounded(Within(d.rows, scope))
      BY DataBounded
    <3> QED
      BY <3>1, <3>2
  <2> QED
    BY <2>1
<1>7. IsKeySet(Base(q), l + 1)
  BY <1>3, <1>5, <1>6, KeysBounded DEF Base
<1>8. /\ Current(q) = Restrict(seen, S) /\ S \subseteq DOMAIN seen
      /\ \A p : p \in S <=> p \in DOMAIN seen /\ (Marks(q) => Get(seen[p], "cur") = 1)
  <2> DEFINE T == {p \in DOMAIN seen :
                      dataset.versioned => NamesVersion(q.where) \/ Get(seen[p], "cur") = 1}
  <2>1. Current(q) = Restrict(seen, T)
    BY DEF Current
  <2>2. S = T
    BY <2>1 DEF Restrict
  <2>3. \A p : p \in T <=> p \in DOMAIN seen /\ (Marks(q) => Get(seen[p], "cur") = 1)
    BY <1>1
  <2> QED
    BY <2>1, <2>2, <2>3
<1>9. Asked(q) = Keys(Current(q), J) /\ \A key : AskedRows(q, key) = RowsAt(Sources(Current(q), J), key)
  BY <1>1 DEF Asked, AskedRows
<1>10. CASE Inward(J)
  <2>1. /\ Keys(Restrict(seen, S), J) = {key \in Keys(seen, J) : key[1] \in S}
        /\ \A key \in Keys(seen, J) : IsKey(key, Len(J) + 1) /\ key[1] \in DOMAIN seen
    BY <1>3, <1>8, <1>10, KeysOfPart
  <2>2. Asked(q) = {key \in Base(q) : key[1] \in S}
    BY <1>8, <1>9, <2>1 DEF Base
  <2>3. \A key \in Base(q) : IsKey(key, l + 1) /\ key[1] \in DOMAIN seen
    BY <1>3, <2>1 DEF Base
  <2>4. ASSUME NEW key \in Base(q)
        PROVE  At(q, key)[1] = seen[key[1]]
    <3>1. Sources(seen, J)[1] = seen
      BY <1>3, SourcesAt
    <3>2. 1 \in DOMAIN key /\ key[1] # NoPlace
      BY <1>3, <1>5, <2>3 DEF IsKey
    <3> QED
      BY <3>1, <3>2 DEF At, RowsAt
  <2>5. \A key \in Base(q) : key[1] \in S <=> Showing(q, key)
    BY <1>8, <2>3, <2>4 DEF Showing
  <2>6. ASSUME NEW key \in Asked(q)
        PROVE  AskedRows(q, key) = At(q, key)
    <3>1. key \in Base(q) /\ key[1] \in S /\ IsKey(key, l + 1)
      BY <2>2, <2>3
    <3>2. l + 1 \in 1..(Len(J) + 1)
      BY <1>3
    <3>3. RowsAt(Sources(Restrict(seen, S), J), key) = RowsAt(Sources(seen, J), key)
      BY <1>3, <1>8, <3>1, <3>2, RowsOfPart, SMTT(30)
    <3> QED
      BY <1>8, <1>9, <3>3 DEF At
  <2>7. \A key \in Base(q) : Inside(At(q, key)[1], ScopedBy(dataset))
    BY <1>5, <2>3, <2>4
  <2> QED
    BY <1>7, <2>2, <2>5, <2>6, <2>7
<1>11. CASE ~Inward(J)
  <2>1. PICK n \in DOMAIN joins : joins[n].type \in {"right", "full"}
    BY <1>3, <1>11 DEF Inward
  <2>2. host.scope = {} /\ CurrentOnly(q) = q
    BY <1>1, <2>1 DEF Executed, WellDivided, JoinsSaid, Range
  <2>3. ~Marks(q)
    BY <1>1, <2>2, CurrentOnlyOf
  <2>4. S = DOMAIN seen
    BY <1>8, <2>3
  <2>5. Current(q) = seen
    BY <1>8, <2>4 DEF Restrict, SeenIn, Within
  <2>6. ScopedBy(dataset) = {}
    BY <2>2 DEF ScopedBy
  <2> QED
    BY <1>7, <1>9, <2>3, <2>5, <2>6 DEF Base, At, Showing, Inside
<1> QED
  BY <1>10, <1>11

LEMMA GreatestOf ==
  ASSUME NEW n \in Nat, NEW S \in SUBSET (1..n), S # {}
  PROVE  Max(S) \in S /\ Min(S) \in S
<1>1. S \in SUBSET Nat
  OBVIOUS
<1>2. \E x \in S : \A y \in S : x <= y
  BY <1>1, LeastOf
<1> DEFINE T == {n - x : x \in S}
<1>3. T \in SUBSET Nat /\ T # {}
  <2>1. \A x \in S : x \in 1..n
    OBVIOUS
  <2>2. \A x \in 1..n : n - x \in Nat
    OBVIOUS
  <2> QED
    BY <2>1, <2>2
<1>4. PICK t \in T : \A u \in T : t <= u
  BY <1>3, LeastOf
<1>5. PICK x \in S : t = n - x
  BY <1>4
<1>6. \A y \in S : x >= y
  <2>1. ASSUME NEW y \in S
        PROVE  x >= y
    <3>1. n - x <= n - y
      BY <1>4, <1>5
    <3>2. x \in Nat /\ y \in Nat
      OBVIOUS
    <3> QED
      BY <3>1, <3>2
  <2> QED
    BY <2>1
<1>7. \E z \in S : \A y \in S : z >= y
  BY <1>6
<1> QED
  BY <1>2, <1>7, Zenon DEF Max, Min

LEMMA TablesAt ==
  ASSUME NEW joins, joins \in Seq(Range(joins))
  PROVE  /\ DOMAIN Tables(joins) = 1..(Len(joins) + 1) /\ Len(joins) \in Nat
         /\ Tables(joins)[1].cols = dataset.columns
         /\ \A n \in 1..Len(joins) : Tables(joins)[n + 1].cols = joins[n].of.columns
<1> DEFINE l == Len(joins)
           rest == [n \in DOMAIN joins |-> [alias |-> joins[n].alias, cols |-> joins[n].of.columns]]
           first == [alias |-> dataset.table, cols |-> dataset.columns]
           T == {rest[n] : n \in DOMAIN joins} \cup {first}
<1>1. l \in Nat /\ DOMAIN joins = 1..l
  OBVIOUS
<1>2. rest \in Seq(T) /\ Len(rest) = l
  BY <1>1
<1>3. <<first>> \in Seq(T) /\ Len(<<first>>) = 1 /\ <<first>>[1] = first
  OBVIOUS
<1>4. first.cols = dataset.columns /\ \A n \in 1..l : rest[n].cols = joins[n].of.columns
  BY <1>1
<1>5. Tables(joins) = <<first>> \o rest
  BY DEF Tables
<1> HIDE DEF rest, first, T
<1>6. DOMAIN (<<first>> \o rest) = 1..(l + 1)
  <2>1. DOMAIN (<<first>> \o rest) = 1..(1 + l)
    BY <1>2, <1>3
  <2>2. 1 + l = l + 1
    BY <1>1
  <2> QED
    BY <2>1, <2>2
<1>7. (<<first>> \o rest)[1] = first
  BY <1>2, <1>3
<1>8. ASSUME NEW n \in 1..l
      PROVE  (<<first>> \o rest)[n + 1] = rest[n]
  BY <1>1, <1>2, <1>3
<1> QED
  BY <1>1, <1>4, <1>5, <1>6, <1>7, <1>8

LEMMA OwnersAre ==
  ASSUME NEW joins, joins \in Seq(Range(joins)), NEW c
  PROVE  /\ Owners(joins, c) \in SUBSET (1..(Len(joins) + 1))
         /\ c \in NamesIn(joins) <=> Owners(joins, c) # {}
         /\ c \in dataset.columns => 1 \in Owners(joins, c)
         /\ Cardinality(Owners(joins, c)) = 1 =>
               \E o \in 1..(Len(joins) + 1) : Owners(joins, c) = {o}
<1>1. /\ DOMAIN Tables(joins) = 1..(Len(joins) + 1) /\ Len(joins) \in Nat
      /\ Tables(joins)[1].cols = dataset.columns
  BY TablesAt
<1>2. Owners(joins, c) \in SUBSET (1..(Len(joins) + 1))
  BY <1>1 DEF Owners
<1>3. c \in NamesIn(joins) <=> Owners(joins, c) # {}
  BY DEF NamesIn, Owners, Range
<1>4. c \in dataset.columns => 1 \in Owners(joins, c)
  BY <1>1 DEF Owners, NamesFor
<1>5. ASSUME Cardinality(Owners(joins, c)) = 1
      PROVE  \E o \in 1..(Len(joins) + 1) : Owners(joins, c) = {o}
  <2>1. IsFiniteSet(Owners(joins, c))
    <3>1. IsFiniteSet(1..(Len(joins) + 1))
      <4>1. 1 \in Int /\ Len(joins) + 1 \in Int
        BY <1>1
      <4> QED
        BY <4>1, FS_Interval
    <3> QED
      BY <1>2, <3>1, FS_Subset
  <2>2. \E o : Owners(joins, c) = {o}
    BY <1>5, <2>1, FS_Singleton
  <2> QED
    BY <1>2, <2>2
<1> QED
  BY <1>2, <1>3, <1>4, <1>5

LEMMA LoneExtremes ==
  ASSUME NEW o \in Nat
  PROVE  Max({o}) = o /\ Min({o}) = o
BY DEF Max, Min

\* The named values of a joined row; where only one table has the name,
\* first and last are the same.
Alone(joins, c) == Cardinality(Owners(joins, c)) = 1

LEMMA NamedRow ==
  ASSUME NEW joins, joins \in Seq(Range(joins)), NEW t,
         \A k \in 1..(Len(joins) + 1) : \A c : Get(t[k], c) \in Nat \cup {Null}
  PROVE  /\ DOMAIN NamedByFirst(joins, t) = NamesIn(joins)
         /\ DOMAIN NamedByLast(joins, t) = NamesIn(joins)
         /\ \A c \in NamesIn(joins) : /\ NamedByFirst(joins, t)[c] \in Nat \cup {Null}
                                      /\ NamedByLast(joins, t)[c] \in Nat \cup {Null}
<1>1. Len(joins) \in Nat
  OBVIOUS
<1>2. ASSUME NEW c \in NamesIn(joins)
      PROVE  /\ NamedByFirst(joins, t)[c] \in Nat \cup {Null}
             /\ NamedByLast(joins, t)[c] \in Nat \cup {Null}
  <2>1. Owners(joins, c) \in SUBSET (1..(Len(joins) + 1)) /\ Owners(joins, c) # {}
    BY <1>2, OwnersAre
  <2>2. /\ Max(Owners(joins, c)) \in 1..(Len(joins) + 1)
        /\ Min(Owners(joins, c)) \in 1..(Len(joins) + 1)
    <3>1. Len(joins) + 1 \in Nat
      BY <1>1
    <3> QED
      BY <2>1, <3>1, GreatestOf
  <2> QED
    BY <2>2 DEF NamedByFirst, NamedByLast
<1> QED
  BY <1>2 DEF NamedByFirst, NamedByLast

LEMMA NamedAlone ==
  ASSUME NEW joins, joins \in Seq(Range(joins)), NEW t, NEW c, Alone(joins, c)
  PROVE  /\ c \in NamesIn(joins)
         /\ NamedByFirst(joins, t)[c] = NamedByLast(joins, t)[c]
         /\ c \in dataset.columns /\ c \notin DOMAIN Qualified
               => NamedByFirst(joins, t)[c] = Get(t[1], c)
<1>1. PICK o \in 1..(Len(joins) + 1) : Owners(joins, c) = {o}
  BY OwnersAre DEF Alone
<1>2. c \in NamesIn(joins)
  BY <1>1, OwnersAre
<1>3. Max(Owners(joins, c)) = o /\ Min(Owners(joins, c)) = o
  BY <1>1, LoneExtremes
<1>4. NamedByFirst(joins, t)[c] = Get(t[o], BareName(c))
      /\ NamedByLast(joins, t)[c] = Get(t[o], BareName(c))
  BY <1>2, <1>3 DEF NamedByFirst, NamedByLast
<1>5. c \in dataset.columns => o = 1
  BY <1>1, OwnersAre
<1>6. c \notin DOMAIN Qualified => BareName(c) = c
  BY DEF BareName
<1> QED
  BY <1>2, <1>4, <1>5, <1>6

LEMMA KeyRows ==
  ASSUME NEW q, Executed(q), NEW key \in Base(q)
  PROVE  \A k \in 1..(Len(q.join) + 1) : \A c : Get(At(q, key)[k], c) \in Nat \cup {Null}
<1> DEFINE joins == PlanJoins(q.join)
           l == Len(q.join)
           t == At(q, key)
           scope == ScopedBy(dataset)
           one == Keys(dataset.rows, joins)
<1>1. Wanted(joins) /\ Len(joins) = l /\ IsQuery(q)
  BY ExecutedIs
<1>2. l \in Nat
  BY <1>1 DEF IsQuery
<1>3. t = RowsAt(Part(joins), key) /\ Base(q) = Keys(SeenIn(dataset), SeenThrough(joins))
  BY DEF At, Part, JoinsOf, Base
<1>4. /\ Scoped(All(joins), one, scope) = Scoped(Part(joins), Base(q), scope)
      /\ \A k \in Scoped(All(joins), one, scope) : Good(joins, k)
  BY <1>1, <1>3, KeysAlike DEF Alike
<1>5. Inside(t[1], scope)
  BY BaseIs
<1>6. key \in Scoped(Part(joins), Base(q), scope)
  BY <1>3, <1>5 DEF Scoped, First
<1>7. Good(joins, key)
  BY <1>4, <1>6
<1>8. IsKey(key, l + 1)
  BY BaseIs DEF IsKeySet, HasPlaces
<1>9. /\ Part(joins)[1] = Within(dataset.rows, scope) /\ IsDataset(dataset)
      /\ \A n \in 1..l : /\ Part(joins)[n + 1] = Within(joins[n].of.rows, JoinedScope(joins[n].of))
                         /\ IsDataset(joins[n].of)
  <2>1. IsJoins(joins) /\ IsDataset(dataset)
    BY <1>1 DEF Wanted
  <2>2. DOMAIN joins = 1..l
    BY <1>1, <2>1 DEF IsJoins
  <2> QED
    BY <1>1, <2>1, <2>2, PartOfAll DEF IsJoins
<1> HIDE DEF t, l, joins, scope
<1>10. ASSUME NEW k \in 1..(l + 1), NEW c
       PROVE  Get(t[k], c) \in Nat \cup {Null}
  <2>1. k \in DOMAIN key
    BY <1>8 DEF IsKey
  <2>2. CASE key[k] = NoPlace
    <3>1. t[k] = NoRow
      BY <1>3, <2>1, <2>2 DEF RowsAt
    <3>2. Get(NoRow, c) = Null
      BY DEF Get, NoRow
    <3> QED
      BY <3>1, <3>2
  <2>3. CASE key[k] # NoPlace
    <3>1. key[k] \in DOMAIN Part(joins)[k]
      BY <1>7, <2>1, <2>3 DEF Good
    <3>2. t[k] = Part(joins)[k][key[k]]
      BY <1>3, <2>1, <2>3 DEF RowsAt
    <3>3. k = 1 \/ \E n \in 1..l : k = n + 1
      <4>1. k # 1 => k - 1 \in 1..l /\ k = (k - 1) + 1
        BY <1>2
      <4> QED
        BY <4>1
    <3>4. \E d, s : IsDataset(d) /\ Part(joins)[k] = Within(d.rows, s)
      BY <1>9, <3>3
    <3> QED
      BY <3>1, <3>2, <3>4, DataBounded
  <2> QED
    BY <2>2, <2>3
<1> QED
  BY <1>10 DEF t, l

\* The rows the database finds are among rows that are those of the
\* meaning, but for the columns nobody will read: of these alone the
\* tables may differ.
Told(p) ==
    Mentioned(p)
    \cup (IF p.select = {} /\ ~Grouping(p) THEN NamesIn(p.joins) \ DOMAIN Qualified ELSE {})
Pushes(q) == Split(q.where, Computed(q)).pushed
RowsAlike(names, told, L, V) ==
    /\ IsTable(V) /\ IsTable(L) /\ Len(L) = Len(V)
    /\ \A i \in DOMAIN V :
          /\ DOMAIN V[i] = names /\ DOMAIN L[i] = names
          /\ \A c \in names : V[i][c] \in Nat \cup {Null} /\ L[i][c] \in Nat \cup {Null}
          /\ \A c \in told : L[i][c] = V[i][c]
Finds(q, L) ==
    /\ RowsAlike(NamesIn(Plan(q).joins), Told(Plan(q)), L, Visible(q))
    /\ Told(Plan(q)) \subseteq NamesIn(Plan(q).joins)
    /\ Matching(Plan(q), dataset) = Kept(L, {i \in DOMAIN L : SqlHolds(Pushes(q), L[i])})
    /\ Marks(q) => /\ "cur" \in NamesIn(Plan(q).joins)
                   /\ \A i \in DOMAIN L : Visible(q)[i]["cur"] = 1

LEMMA FoundRow ==
  ASSUME NEW q, Executed(q), NEW key \in Base(q)
  PROVE  LET joins == PlanJoins(q.join)
             v == NamedByFirst(joins, At(q, key))
             r == NamedByLast(joins, At(q, key))
         IN  /\ DOMAIN v = NamesIn(joins) /\ DOMAIN r = NamesIn(joins)
             /\ \A c \in NamesIn(joins) : v[c] \in Nat \cup {Null} /\ r[c] \in Nat \cup {Null}
             /\ \A c \in Mentioned(Plan(q)) : c \in NamesIn(joins) /\ r[c] = v[c]
             /\ SqlHolds(Plan(q).where, r) <=> Showing(q, key) /\ SqlHolds(Pushes(q), r)
             /\ Marks(q) => "cur" \in NamesIn(joins) /\ v["cur"] = Get(At(q, key)[1], "cur")
<1> DEFINE joins == PlanJoins(q.join)
           t == At(q, key)
           v == NamedByFirst(joins, t)
           r == NamedByLast(joins, t)
           p == Plan(q)
<1>1. /\ IsQuery(q) /\ IsTree(q.where) /\ p.joins = joins /\ Wanted(joins)
      /\ Marks(q) => "cur" \notin Computed(q)
      /\ Len(joins) = Len(q.join)
  BY ExecutedIs
<1>2. joins \in Seq(Range(joins)) /\ IsDataset(dataset)
  BY <1>1 DEF Wanted, IsJoins
<1>3. \A k \in 1..(Len(joins) + 1) : \A c : Get(t[k], c) \in Nat \cup {Null}
  BY <1>1, KeyRows
<1> HIDE DEF joins, t
<1>4. /\ DOMAIN v = NamesIn(joins) /\ DOMAIN r = NamesIn(joins)
      /\ \A c \in NamesIn(joins) : v[c] \in Nat \cup {Null} /\ r[c] \in Nat \cup {Null}
  BY <1>2, <1>3, NamedRow
<1>5. ASSUME NEW c, Alone(joins, c)
      PROVE  /\ c \in NamesIn(joins) /\ r[c] = v[c]
             /\ c \in dataset.columns /\ c \notin DOMAIN Qualified => v[c] = Get(t[1], c)
  BY <1>2, <1>5, NamedAlone
<1>6. \A c \in Mentioned(p) : Alone(joins, c)
  BY <1>1 DEF Executed, Refused, Alone
<1>7. \A c \in Mentioned(p) : c \in NamesIn(joins) /\ r[c] = v[c]
  BY <1>5, <1>6
<1> HIDE DEF r, v
<1>8. p.where = Split(CurrentOnly(q).where, Computed(q)).pushed
  BY <1>1, PlanOf
<1>9. CASE ~Marks(q)
  <2>1. p.where = Pushes(q)
    BY <1>1, <1>8, <1>9, CurrentOnlyOf DEF Pushes
  <2> QED
    BY <1>4, <1>7, <1>9, <2>1 DEF Showing, v, r, joins, t
<1>10. CASE Marks(q)
  <2>1. CurrentOnly(q).where = MergeAnd(CurrentRow, q.where)
    BY <1>1, <1>10, CurrentOnlyOf
  <2>2. /\ SqlHolds(p.where, r) <=> Get(r, "cur") = 1 /\ SqlHolds(Pushes(q), r)
        /\ "cur" \in Fields(p.where)
    BY <1>1, <1>8, <1>10, <2>1, MergedSplit DEF Pushes
  <2>3. "cur" \in Mentioned(p)
    BY <2>2 DEF Mentioned
  <2>4. "cur" \in dataset.columns /\ "cur" \notin DOMAIN Qualified
    BY <1>2, <1>10 DEF Marks, IsDataset
  <2>5. "cur" \in NamesIn(joins) /\ r["cur"] = v["cur"] /\ v["cur"] = Get(t[1], "cur")
    BY <1>5, <1>6, <2>3, <2>4
  <2>6. Get(r, "cur") = Get(t[1], "cur")
    BY <1>4, <2>5 DEF Get
  <2>7. Showing(q, key) <=> Get(t[1], "cur") = 1
    BY <1>10 DEF Showing, t
  <2> QED
    BY <1>4, <1>7, <2>2, <2>5, <2>6, <2>7 DEF v, r, joins, t
<1> QED
  BY <1>9, <1>10

LEMMA MatchingOf ==
  ASSUME NEW q, Executed(q)
  PROVE  LET joins == PlanJoins(q.join)
             Row(key) == NamedByLast(joins, At(q, key))
         IN  Matching(Plan(q), dataset)
               = InOrder([key \in {k \in Asked(q) : SqlHolds(Pushes(q), Row(k))} |-> Row(key)])
<1> DEFINE joins == PlanJoins(q.join)
           Row(key) == NamedByLast(joins, At(q, key))
           p == Plan(q)
           d == Seen(dataset)
           r == [p EXCEPT !.joins = SeenThrough(@)]
           scope == ScopedBy(dataset)
<1>1. IsQuery(q) /\ IsTree(q.where) /\ p.joins = joins /\ Wanted(joins)
  BY ExecutedIs
<1>2. {"joins", "where"} \subseteq DOMAIN p
  BY <1>1, PlanIsPlan DEF IsPlan
<1>3. Matching(p, dataset) = Matching(r, d)
  BY <1>1, <1>2, MatchingAlike
<1>4. d.rows = SeenIn(dataset) /\ ScopedBy(d) = scope
  BY <1>1 DEF Wanted, IsDataset, Seen, ScopedBy, DatasetHasColumn
<1>5. r.joins = JoinsOf(q) /\ r.where = p.where
  BY <1>1, <1>2 DEF JoinsOf
<1>6. \A key : NamedByLast(JoinsOf(q), At(q, key)) = Row(key)
  BY <1>1, NamesAlike DEF JoinsOf
<1> HIDE DEF r, d, scope, joins
<1>7. Matching(r, d)
        = InOrder([key \in {k \in Base(q) : /\ Inside(At(q, k)[1], scope)
                                            /\ SqlHolds(p.where, Row(k))} |-> Row(key)])
  BY <1>4, <1>5, <1>6 DEF Matching, Base, At
<1>8. \A k \in Base(q) : /\ Inside(At(q, k)[1], scope)
                         /\ SqlHolds(p.where, Row(k))
                               <=> Showing(q, k) /\ SqlHolds(Pushes(q), Row(k))
  BY BaseIs, FoundRow DEF scope, joins
<1>9. Asked(q) = {key \in Base(q) : Showing(q, key)}
  BY BaseIs
<1>10. {k \in Base(q) : /\ Inside(At(q, k)[1], scope)
                        /\ SqlHolds(p.where, Row(k))}
         = {k \in Asked(q) : SqlHolds(Pushes(q), Row(k))}
  BY <1>8, <1>9
<1> QED
  BY <1>3, <1>7, <1>10 DEF joins

LEMMA FindsAll ==
  ASSUME NEW q, Executed(q)
  PROVE  \E L : Finds(q, L)
<1> DEFINE joins == PlanJoins(q.join)
           names == NamesIn(joins)
           p == Plan(q)
           K == Asked(q)
           m == Cardinality(K)
           width == Len(q.join) + 1
           R == Places(K)
           seen == [key \in K |-> NamedByFirst(joins, At(q, key))]
           found == [key \in K |-> NamedByLast(joins, At(q, key))]
           L == InOrder(found)
           V == Visible(q)
           S == {k \in K : SqlHolds(Pushes(q), found[k])}
<1>1. /\ IsQuery(q) /\ p.joins = joins /\ AsWritten(q.join) = JoinsOf(q) /\ Wanted(joins)
  BY ExecutedIs
<1>2. /\ IsKeySet(Base(q), width) /\ K = {key \in Base(q) : Showing(q, key)}
      /\ \A key \in K : AskedRows(q, key) = At(q, key)
  BY BaseIs
<1>3. width \in Nat /\ IsKeySet(K, width)
  <2>1. width \in Nat
    BY <1>1 DEF IsQuery
  <2>2. K \subseteq Base(q)
    BY <1>2
  <2> QED
    BY <1>2, <2>1, <2>2, FS_Subset DEF IsKeySet
<1>4. V = InOrder(seen)
  <2>1. \A t : NamedByFirst(SeenThrough(joins), t) = NamedByFirst(joins, t)
    <3>1. Tables(SeenThrough(joins)) = Tables(joins)
      BY <1>1, NamesAlike
    <3> QED
      BY <3>1 DEF NamedByFirst, NamesIn, Owners
  <2> QED
    BY <1>1, <1>2, <2>1 DEF Visible, JoinsOf
<1>5. Matching(p, dataset) = InOrder([key \in S |-> found[key]])
  <2>1. \A k \in K : found[k] = NamedByLast(joins, At(q, k))
    OBVIOUS
  <2>2. S = {k \in K : SqlHolds(Pushes(q), NamedByLast(joins, At(q, k)))}
    OBVIOUS
  <2>3. [key \in S |-> found[key]] = [key \in S |-> NamedByLast(joins, At(q, key))]
    OBVIOUS
  <2> QED
    BY <2>2, <2>3, MatchingOf
<1>6. ASSUME NEW key \in K
      PROVE  /\ DOMAIN seen[key] = names /\ DOMAIN found[key] = names
             /\ \A c \in names : seen[key][c] \in Nat \cup {Null} /\ found[key][c] \in Nat \cup {Null}
             /\ \A c \in Told(p) : c \in names /\ found[key][c] = seen[key][c]
             /\ Marks(q) => "cur" \in names /\ seen[key]["cur"] = 1
  <2>1. key \in Base(q) /\ Showing(q, key)
    BY <1>2
  <2>2. seen[key] = NamedByFirst(joins, At(q, key)) /\ found[key] = NamedByLast(joins, At(q, key))
    OBVIOUS
  <2>3. /\ DOMAIN seen[key] = names /\ DOMAIN found[key] = names
        /\ \A c \in names : seen[key][c] \in Nat \cup {Null} /\ found[key][c] \in Nat \cup {Null}
        /\ \A c \in Mentioned(p) : c \in names /\ found[key][c] = seen[key][c]
        /\ Marks(q) => "cur" \in names /\ seen[key]["cur"] = Get(At(q, key)[1], "cur")
    BY <2>1, <2>2, FoundRow
  <2>4. Marks(q) => seen[key]["cur"] = 1
    BY <2>1, <2>3 DEF Showing
  <2>5. ASSUME p.select = {}, ~Grouping(p), NEW c \in names \ DOMAIN Qualified
        PROVE  found[key][c] = seen[key][c]
    <3>1. Shown(NamedByFirst(p.joins, AskedRows(q, key)))
             = Shown(NamedByLast(p.joins, AskedRows(q, key)))
      BY <2>5 DEF Executed, WellDivided, JoinsSaid
    <3>2. Shown(seen[key]) = Shown(found[key])
      BY <1>1, <1>2, <3>1
    <3>3. Shown(seen[key])[c] = seen[key][c] /\ Shown(found[key])[c] = found[key][c]
      BY <2>3 DEF Shown, Restrict
    <3> QED
      BY <3>2, <3>3
  <2>6. \A c \in Told(p) : c \in names /\ found[key][c] = seen[key][c]
    BY <1>1, <2>3, <2>5 DEF Told
  <2> QED
    BY <2>3, <2>4, <2>6
<1>7. Orders(R, K) /\ IsFiniteSet(K) /\ m \in Nat
  BY <1>3, KeySetOrders, FS_CardinalityType DEF IsKeySet
<1>8. \A n \in 1..m : Placed(K, R, n) \in K
  BY <1>7, PlacedAt
<1>9. DOMAIN seen = K /\ DOMAIN found = K /\ K \in SUBSET K
  OBVIOUS
<1>10. \A c \in Told(p) : c \in names
  <2>1. \A c \in Mentioned(p) : Cardinality(Owners(joins, c)) = 1
    BY <1>1 DEF Executed, Refused
  <2>2. joins \in Seq(Range(joins))
    BY <1>1 DEF Wanted, IsJoins
  <2>3. \A c \in Mentioned(p) : Owners(joins, c) # {}
    BY <2>1, <2>2, OwnersAre
  <2> QED
    BY <1>1, <2>2, <2>3, OwnersAre DEF Told
<1>11. Marks(q) => "cur" \in names
  <2>1. joins \in Seq(Range(joins)) /\ IsDataset(dataset)
    BY <1>1 DEF Wanted, IsJoins
  <2> QED
    BY <2>1, OwnersAre DEF Marks, IsDataset
<1> HIDE DEF seen, found, K, joins
<1>12. V = [n \in 1..m |-> seen[Placed(K, R, n)]]
  BY <1>3, <1>4, <1>9, InOrderIs
<1>13. L = [n \in 1..m |-> found[Placed(K, R, n)]]
  BY <1>3, <1>9, InOrderIs
<1>14. \A n \in 1..m : IsRow(V[n]) /\ IsRow(L[n])
  <2>1. \A key \in K : IsRow(seen[key]) /\ IsRow(found[key])
    BY <1>6 DEF IsRow, Null
  <2> QED
    BY <1>8, <1>12, <1>13, <2>1
<1> HIDE DEF L, V
<1>15. IsTable(V) /\ IsTable(L) /\ Len(V) = m /\ Len(L) = m
  <2>1. V = [n \in 1..m |-> V[n]] /\ L = [n \in 1..m |-> L[n]]
    BY <1>12, <1>13
  <2> QED
    BY <1>7, <1>14, <2>1, TableMade
<1>16. DOMAIN V = 1..m /\ DOMAIN L = 1..m
  BY <1>12, <1>13
<1>17. RowsAlike(names, Told(p), L, V)
  BY <1>6, <1>8, <1>12, <1>13, <1>15, <1>16 DEF RowsAlike
<1>18. Matching(p, dataset) = Kept(L, {i \in DOMAIN L : SqlHolds(Pushes(q), L[i])})
  <2> DEFINE B == {n \in 1..m : Placed(K, R, n) \in S}
  <2>1. S \in SUBSET K
    OBVIOUS
  <2>2. Kept(InOrder(found), B) = InOrder([key \in S |-> found[key]])
    <3>1. \E X : X = S /\ X \in SUBSET K
      BY <2>1
    <3>2. PICK X : X = S /\ X \in SUBSET K
      BY <3>1
    <3>3. \A C : C = {n \in 1..Cardinality(K) : Placed(K, Places(K), n) \in X} =>
                   Kept(InOrder(found), C) = InOrder([key \in X |-> found[key]])
      <4> HIDE DEF S, width, L
      <4> QED
        BY <1>3, <1>9, <3>2, InOrderKept
    <3> QED
      BY <3>2, <3>3
  <2>3. B = {i \in DOMAIN L : SqlHolds(Pushes(q), L[i])}
    BY <1>8, <1>13, <1>16
  <2> QED
    BY <1>5, <2>2, <2>3 DEF L
<1>19. Marks(q) => \A i \in DOMAIN L : V[i]["cur"] = 1
  BY <1>6, <1>8, <1>12, <1>16
<1>20. Finds(q, L)
  BY <1>1, <1>10, <1>11, <1>17, <1>18, <1>19 DEF Finds, V, joins
<1> QED
  BY <1>20

-------------------------------------------------------------------------------
\* Rows of numbers that count: what is stored, computed or folded is no
\* less than zero, or null.
Counting(row) == \A c \in DOMAIN row : row[c] \in Nat \cup {Null}
Counted(X) == IsTable(X) /\ \A i \in DOMAIN X : Counting(X[i])

LEMMA CountingRow ==
  ASSUME NEW row, Counting(row)
  PROVE  IsRow(row) /\ \A c : Get(row, c) \in Nat \cup {Null}
BY DEF Counting, IsRow, Get, Null

\* The sum of finitely many natural numbers is one.
LEMMA SumCounts ==
  ASSUME NEW f, IsFiniteSet(DOMAIN f), \A x \in DOMAIN f : f[x] \in Nat
  PROVE  SumOf(f) \in Nat
<1> DEFINE K == DOMAIN f
           Any(T) == CHOOSE x \in T : TRUE
           Rec(g, T) == IF T = {} THEN 0 ELSE f[Any(T)] + g[T \ {Any(T)}]
           Up(k) == {T \in SUBSET K : Cardinality(T) <= k}
           Built == {k \in Nat : \E g : g = [T \in Up(k) |-> Rec(g, T)]}
           sum == CHOOSE g : g = [T \in SUBSET K |-> Rec(g, T)]
           Fine == {k \in Nat : \A T \in Up(k) : sum[T] \in Nat}
<1>0. IsFiniteSet(K)
  OBVIOUS
<1> HIDE DEF K
<1>1. \A T \in SUBSET K : IsFiniteSet(T) /\ Cardinality(T) \in Nat /\ (Cardinality(T) = 0 <=> T = {})
  BY <1>0, FS_Subset, FS_CardinalityType, FS_EmptySet
<1>2. \A T \in SUBSET K : \A i \in T :
         T \ {i} \in SUBSET K /\ Cardinality(T \ {i}) = Cardinality(T) - 1
  BY <1>1, FS_RemoveElement
<1>3. \A T \in SUBSET K : T # {} => Any(T) \in T
  OBVIOUS
<1>4. 0 \in Built
  <2>1. Up(0) = {{}}
    BY <1>1
  <2>2. [T \in {{}} |-> 0] = [T \in Up(0) |-> Rec([T2 \in {{}} |-> 0], T)]
    BY <2>1
  <2> QED
    BY <2>2
<1>5. \A k \in Built : k + 1 \in Built
  <2> SUFFICES ASSUME NEW k \in Built PROVE k + 1 \in Built
    OBVIOUS
  <2>1. k \in Nat /\ \E g : g = [T \in Up(k) |-> Rec(g, T)]
    OBVIOUS
  <2>2. PICK g : g = [T \in Up(k) |-> Rec(g, T)]
    BY <2>1
  <2> DEFINE h == [T \in Up(k + 1) |-> Rec(g, T)]
  <2>3. \A T \in Up(k) : T \in Up(k + 1) /\ h[T] = g[T]
    <3>1. \A T \in Up(k) : T \in Up(k + 1)
      BY <1>1, <2>1
    <3>2. \A T \in Up(k) : g[T] = Rec(g, T)
      BY <2>2
    <3> HIDE DEF Rec, Up
    <3> QED
      BY <3>1, <3>2
  <2>4. \A T \in Up(k + 1) : T # {} => T \ {Any(T)} \in Up(k)
    <3> SUFFICES ASSUME NEW T \in Up(k + 1), T # {} PROVE T \ {Any(T)} \in Up(k)
      OBVIOUS
    <3>1. Any(T) \in T
      BY <1>3
    <3> HIDE DEF Any
    <3> QED
      BY <1>1, <1>2, <2>1, <3>1
  <2>5. \A T \in Up(k + 1) : Rec(h, T) = Rec(g, T)
    <3> HIDE DEF Any, Up, h
    <3> QED
      BY <2>3, <2>4
  <2>6. h = [T \in Up(k + 1) |-> Rec(h, T)]
    <3>1. h = [T \in Up(k + 1) |-> Rec(g, T)]
      OBVIOUS
    <3> HIDE DEF Rec, Up, h
    <3> QED
      BY <3>1, <2>5
  <2> HIDE DEF h, Rec, Up
  <2> QED
    BY <2>1, <2>6
<1>6. Cardinality(K) \in Built
  <2> HIDE DEF Rec, Up
  <2>0. Built \in SUBSET Nat
    OBVIOUS
  <2>1. Built = Nat
    BY <1>4, <1>5, <2>0, AllNumbers
  <2> QED
    BY <1>1, <2>1
<1>7. Up(Cardinality(K)) = SUBSET K
  BY <1>0, <1>1, FS_Subset
<1>8. \E g : g = [T \in SUBSET K |-> Rec(g, T)]
  <2> HIDE DEF Rec, Up
  <2> QED
    BY <1>6, <1>7
<1>9. sum = [T \in SUBSET K |-> Rec(sum, T)]
  <2> HIDE DEF Rec
  <2> QED
    BY <1>8, Zenon
<1>10. SumOf(f) = sum[K]
  BY DEF SumOf, MapThenSumSet, MapThenFoldSet, K
<1> HIDE DEF sum
<1>11. \A T \in SUBSET K : sum[T] = Rec(sum, T)
  <2> HIDE DEF Rec
  <2> QED
    BY <1>9
<1>12. \A x \in K : f[x] \in Nat
  BY DEF K
<1>13. 0 \in Fine
  <2>1. Up(0) = {{}}
    BY <1>1
  <2>2. sum[{}] = 0
    BY <1>11
  <2> QED
    BY <2>1, <2>2
<1>14. \A k \in Fine : k + 1 \in Fine
  <2> SUFFICES ASSUME NEW k \in Fine PROVE \A T \in Up(k + 1) : sum[T] \in Nat
    OBVIOUS
  <2>1. sum[{}] \in Nat
    BY <1>11
  <2>2. ASSUME NEW T \in Up(k + 1), T # {}
        PROVE  sum[T] \in Nat
    <3>1. Any(T) \in T /\ T \in SUBSET K
      BY <1>3, <2>2
    <3>2. sum[T] = f[Any(T)] + sum[T \ {Any(T)}]
      BY <1>11, <2>2, <3>1
    <3> HIDE DEF Any
    <3>3. T \ {Any(T)} \in Up(k)
      BY <1>1, <1>2, <3>1
    <3>4. sum[T \ {Any(T)}] \in Nat
      BY <3>3
    <3> QED
      BY <1>12, <3>1, <3>2, <3>4
  <2> HIDE DEF Up
  <2> QED
    BY <2>1, <2>2, Zenon
<1>15. sum[K] \in Nat
  <2>0. Fine \in SUBSET Nat
    OBVIOUS
  <2>1. K \in Up(Cardinality(K)) /\ Cardinality(K) \in Nat
    BY <1>1, <1>7
  <2> HIDE DEF Fine
  <2>2. Fine = Nat
    BY <1>13, <1>14, <2>0, AllNumbers
  <2>3. Cardinality(K) \in Fine
    BY <2>1, <2>2
  <2> QED
    BY <2>1, <2>3 DEF Fine
<1> QED
  BY <1>10, <1>15

LEMMA EvalCounts ==
  ASSUME NEW e, IsFiniteSet(e), NEW row, Counting(row)
  PROVE  Eval(e, row) \in Nat \cup {Null}
<1>1. CASE \E c \in e : Get(row, c) = Null
  BY <1>1 DEF Eval
<1>2. CASE ~\E c \in e : Get(row, c) = Null
  <2> DEFINE f == [c \in e |-> Get(row, c)]
  <2>1. DOMAIN f = e /\ \A c \in e : f[c] \in Nat
    BY <1>2, CountingRow
  <2> HIDE DEF f
  <2>2. SumOf(f) \in Nat
    BY <2>1, SumCounts
  <2> QED
    BY <1>2, <2>2 DEF Eval, f
<1> QED
  BY <1>1, <1>2

LEMMA AggregateCounts ==
  ASSUME NEW X, Counted(X), NEW a
  PROVE  ComputeAggregate(a, X) \in Nat \cup {Null}
<1> DEFINE c == a.field
           S == Values(X, c)
           N == {Get(X[i], c) : i \in S}
<1>1. IsTable(X) /\ S \subseteq DOMAIN X /\ Len(X) \in Nat
  BY TableIs DEF Values, Counted
<1>2. IsFiniteSet(S) /\ Cardinality(S) \in Nat
  <2> HIDE DEF S
  <2> QED
    BY <1>1, TableIs
<1>3. \A i \in S : Get(X[i], c) \in Nat
  BY <1>1, CountingRow DEF Counted, Values
<1>4. Total(X, c) \in Nat
  <2> DEFINE f == [i \in S |-> Get(X[i], c)]
  <2>1. DOMAIN f = S /\ \A i \in S : f[i] \in Nat
    BY <1>3
  <2> HIDE DEF f
  <2>2. SumOf(f) \in Nat
    BY <1>2, <2>1, SumCounts
  <2> QED
    BY <2>2 DEF Total, f
<1>5. N \in SUBSET Nat /\ {0} \cup N \in SUBSET Nat
  BY <1>3
<1>6. \A A \in SUBSET Nat : A # {} => Min(A) \in Nat
  BY LeastOf DEF Min
<1>7. Min({0} \cup N) \in Nat
  <2> HIDE DEF N
  <2> QED
    BY <1>5, <1>6
<1>8. CASE a.fn = "COUNT"
  BY <1>1, <1>2, <1>8 DEF ComputeAggregate
<1>9. CASE a.fn = "SUM"
  BY <1>4, <1>9 DEF ComputeAggregate
<1>10. CASE a.fn = "MIN"
  <2>1. X # <<>> /\ S = DOMAIN X => Least(X, c, DOMAIN X) \in Nat
    <3> SUFFICES ASSUME X # <<>>, S = DOMAIN X PROVE Least(X, c, DOMAIN X) \in Nat
      OBVIOUS
    <3>1. 1 \in DOMAIN X
      BY <1>1 DEF IsTable
    <3>2. N # {}
      BY <3>1
    <3>3. Min(N) \in Nat
      <4> HIDE DEF N
      <4> QED
        BY <1>5, <1>6, <3>2
    <3>4. N = {Get(X[i], c) : i \in DOMAIN X}
      OBVIOUS
    <3> QED
      BY <3>3, <3>4 DEF Least
  <2> QED
    BY <1>7, <1>10, <2>1 DEF ComputeAggregate
<1>11. CASE a.fn \notin {"COUNT", "SUM", "MIN"}
  BY <1>11 DEF ComputeAggregate
<1> QED
  BY <1>8, <1>9, <1>10, <1>11

\* Tables that agree in the columns a group is made and folded of are
\* folded to the same rows.
LEMMA KeptSame ==
  ASSUME NEW X, IsTable(X), NEW Y, IsTable(Y), NEW S, SameIn(X, Y, S),
         NEW A, A \subseteq DOMAIN X
  PROVE  SameIn(Kept(X, A), Kept(Y, A), S)
<1>1. DOMAIN X = DOMAIN Y
  BY DEF SameIn
<1>2. /\ IsTable(Kept(X, A)) /\ Len(Kept(X, A)) = Cardinality(A)
      /\ DOMAIN Kept(X, A) = 1..Cardinality(A)
      /\ \A k \in 1..Cardinality(A) : Nth(A, k) \in A /\ Kept(X, A)[k] = X[Nth(A, k)]
  BY KeptTable
<1>3. /\ IsTable(Kept(Y, A)) /\ Len(Kept(Y, A)) = Cardinality(A)
      /\ DOMAIN Kept(Y, A) = 1..Cardinality(A)
      /\ \A k \in 1..Cardinality(A) : Nth(A, k) \in A /\ Kept(Y, A)[k] = Y[Nth(A, k)]
  BY <1>1, KeptTable
<1>4. (Kept(X, A) = <<>> <=> Len(Kept(X, A)) = 0) /\ (Kept(Y, A) = <<>> <=> Len(Kept(Y, A)) = 0)
  BY <1>2, <1>3 DEF IsTable
<1>5. \A k \in 1..Cardinality(A) : \A c \in S : Get(Kept(X, A)[k], c) = Get(Kept(Y, A)[k], c)
  BY <1>2, <1>3 DEF SameIn
<1> QED
  BY <1>2, <1>3, <1>4, <1>5 DEF SameIn

LEMMA GroupsSame ==
  ASSUME NEW keys, NEW X, IsTable(X), NEW Y, IsTable(Y),
         NEW S, Range(keys) \subseteq S, SameIn(X, Y, S)
  PROVE  /\ Firsts(keys, Y) = Firsts(keys, X)
         /\ \A n \in 1..Cardinality(Firsts(keys, X)) :
               SameIn(GroupAt(keys, X, n), GroupAt(keys, Y, n), S)
<1>1. DOMAIN Y = DOMAIN X /\ \A i \in DOMAIN X : KeyIn(keys, Y[i]) = KeyIn(keys, X[i])
  BY DEF SameIn, KeyIn
<1>2. Len(X) \in Nat /\ DOMAIN X = 1..Len(X)
  BY TableIs
<1>3. \A i \in DOMAIN X : \A j \in 1..(i - 1) : j \in DOMAIN X
  BY <1>2
<1>4. Firsts(keys, Y) = Firsts(keys, X)
  BY <1>1, <1>3 DEF Firsts
<1>5. \A i \in DOMAIN X : AlikeTo(keys, Y, i) = AlikeTo(keys, X, i)
  BY <1>1 DEF AlikeTo
<1>6. ASSUME NEW n \in 1..Cardinality(Firsts(keys, X))
      PROVE  SameIn(GroupAt(keys, X, n), GroupAt(keys, Y, n), S)
  <2> DEFINE F == Firsts(keys, X)
             i == Nth(F, n)
             A == AlikeTo(keys, X, i)
  <2>1. F \subseteq DOMAIN X
    BY DEF Firsts
  <2>2. F \in SUBSET Nat /\ IsFiniteSet(F)
    BY <2>1, TableIs
  <2>3. i \in F
    <3> HIDE DEF F
    <3> QED
      BY <2>2, NthAt DEF F
  <2>4. A \subseteq DOMAIN X
    BY DEF AlikeTo
  <2>5. GroupAt(keys, X, n) = Kept(X, A) /\ GroupAt(keys, Y, n) = Kept(Y, A)
    BY <1>4, <1>5, <2>1, <2>3 DEF GroupAt
  <2> HIDE DEF A
  <2> QED
    BY <2>4, <2>5, KeptSame
<1> QED
  BY <1>4, <1>6

LEMMA FoldedSame ==
  ASSUME NEW keys, NEW aggs, NEW X, IsTable(X), NEW Y, IsTable(Y),
         SameIn(X, Y, Range(keys) \cup ReadBy(aggs))
  PROVE  Folded(X, keys, aggs, Memory) = Folded(Y, keys, aggs, Memory)
<1> DEFINE S == Range(keys) \cup ReadBy(aggs)
<1>1. DOMAIN GroupsOf(Y, keys) = DOMAIN GroupsOf(X, keys)
      /\ \A n \in DOMAIN GroupsOf(X, keys) :
            RowOf(keys, aggs, GroupsOf(Y, keys)[n]) = RowOf(keys, aggs, GroupsOf(X, keys)[n])
  <2>1. CASE keys = <<>>
    <3>1. Range(keys) = {}
      BY <2>1 DEF Range
    <3>2. RowOf(keys, aggs, X) = RowOf(keys, aggs, Y)
      BY <3>1, RowSame
    <3>3. GroupsOf(X, keys) = <<X>> /\ GroupsOf(Y, keys) = <<Y>>
      BY <2>1 DEF GroupsOf
    <3> QED
      BY <3>2, <3>3
  <2>2. CASE keys # <<>>
    <3> DEFINE m == Cardinality(Firsts(keys, X))
    <3>1. /\ Firsts(keys, Y) = Firsts(keys, X)
          /\ \A n \in 1..m : SameIn(GroupAt(keys, X, n), GroupAt(keys, Y, n), S)
      <4>1. Range(keys) \subseteq S
        OBVIOUS
      <4> HIDE DEF S
      <4>2. SameIn(X, Y, S)
        BY DEF S
      <4> QED
        BY <4>1, <4>2, GroupsSame
    <3>2. ASSUME NEW n \in 1..m
          PROVE  RowOf(keys, aggs, GroupAt(keys, Y, n)) = RowOf(keys, aggs, GroupAt(keys, X, n))
      <4>1. 1 \in DOMAIN GroupAt(keys, X, n)
        BY GroupHasFirst
      <4>2. SameIn(GroupAt(keys, X, n), GroupAt(keys, Y, n), S)
        BY <3>1
      <4> QED
        BY <4>1, <4>2, RowSame
    <3>3. /\ GroupsOf(X, keys) = [n \in 1..m |-> GroupAt(keys, X, n)]
          /\ GroupsOf(Y, keys) = [n \in 1..m |-> GroupAt(keys, Y, n)]
      BY <2>2, <3>1, GroupsAre DEF GroupsOf
    <3> HIDE DEF m
    <3> QED
      BY <3>2, <3>3
  <2> QED
    BY <2>1, <2>2
<1>2. /\ Folded(X, keys, aggs, Memory)
           = [n \in DOMAIN GroupsOf(X, keys) |-> RowOf(keys, aggs, GroupsOf(X, keys)[n])]
      /\ Folded(Y, keys, aggs, Memory)
           = [n \in DOMAIN GroupsOf(Y, keys) |-> RowOf(keys, aggs, GroupsOf(Y, keys)[n])]
  BY FoldedIs
<1> QED
  BY <1>1, <1>2

\* Every group is made of rows of the table and has one, and what is
\* folded of rows that count is rows that count.
Drawn(X, g) ==
    IsTable(g) /\ \A i \in DOMAIN g : \E j \in DOMAIN X : g[i] = X[j]

LEMMA GroupsHave ==
  ASSUME NEW keys, NEW X, IsTable(X)
  PROVE  \E m \in Nat :
           /\ DOMAIN GroupsOf(X, keys) = 1..m
           /\ GroupsOf(X, keys) = [n \in 1..m |-> GroupsOf(X, keys)[n]]
           /\ \A n \in 1..m :
                 /\ Drawn(X, GroupsOf(X, keys)[n])
                 /\ keys # <<>> \/ X # <<>> => 1 \in DOMAIN GroupsOf(X, keys)[n]
<1>1. CASE keys = <<>>
  <2>1. GroupsOf(X, keys) = <<X>> /\ DOMAIN <<X>> = 1..1 /\ <<X>>[1] = X
    BY <1>1 DEF GroupsOf
  <2>2. X # <<>> => 1 \in DOMAIN X
    BY DEF IsTable
  <2>3. Drawn(X, X)
    BY DEF Drawn
  <2>4. \A n \in 1..1 : n = 1
    OBVIOUS
  <2> QED
    BY <1>1, <2>1, <2>2, <2>3, <2>4
<1>2. CASE keys # <<>>
  <2> DEFINE m == Cardinality(Firsts(keys, X))
  <2>1. m \in Nat
    <3>1. Firsts(keys, X) \subseteq DOMAIN X
      BY DEF Firsts
    <3> QED
      BY <3>1, TableIs
  <2>2. GroupsOf(X, keys) = [n \in 1..m |-> GroupAt(keys, X, n)]
    BY <1>2, GroupsAre DEF GroupsOf
  <2>3. ASSUME NEW n \in 1..m
        PROVE  Drawn(X, GroupAt(keys, X, n)) /\ 1 \in DOMAIN GroupAt(keys, X, n)
    <3> DEFINE A == AlikeTo(keys, X, Nth(Firsts(keys, X), n))
    <3>1. /\ A \subseteq DOMAIN X
          /\ IsTable(GroupAt(keys, X, n)) /\ 1 \in DOMAIN GroupAt(keys, X, n)
      BY GroupHasFirst
    <3>2. GroupAt(keys, X, n) = Kept(X, A)
      BY DEF GroupAt
    <3> HIDE DEF A
    <3>3. \A k \in DOMAIN Kept(X, A) : Nth(A, k) \in DOMAIN X /\ Kept(X, A)[k] = X[Nth(A, k)]
      BY <3>1, KeptTable
    <3> QED
      BY <3>1, <3>2, <3>3 DEF Drawn
  <2> HIDE DEF m
  <2> QED
    BY <2>1, <2>2, <2>3
<1> QED
  BY <1>1, <1>2

LEMMA FoldedCounts ==
  ASSUME NEW X, Counted(X), NEW keys, NEW aggs
  PROVE  /\ Counted(Folded(X, keys, aggs, Memory))
         /\ \A n \in DOMAIN Folded(X, keys, aggs, Memory) :
               DOMAIN Folded(X, keys, aggs, Memory)[n] = Range(keys) \cup {a.as : a \in aggs}
<1> DEFINE F == Folded(X, keys, aggs, Memory)
           G == GroupsOf(X, keys)
<1>1. F = [n \in DOMAIN G |-> RowOf(keys, aggs, G[n])]
  BY FoldedIs
<1>2. PICK m \in Nat : DOMAIN G = 1..m
            /\ \A n \in 1..m : Drawn(X, G[n]) /\ (keys # <<>> => 1 \in DOMAIN G[n])
  BY GroupsHave DEF Counted
<1> HIDE DEF G
<1>3. ASSUME NEW n \in 1..m
      PROVE  /\ Counting(RowOf(keys, aggs, G[n]))
             /\ DOMAIN RowOf(keys, aggs, G[n]) = Range(keys) \cup {a.as : a \in aggs}
  <2> DEFINE g == G[n]
  <2>1. Drawn(X, g)
    BY <1>2
  <2> HIDE DEF g
  <2>2. \A i \in DOMAIN g : \E j \in DOMAIN X : g[i] = X[j]
    BY <2>1 DEF Drawn
  <2>3. Counted(g)
    BY <2>1, <2>2 DEF Drawn, Counted
  <2>4. \A a : ComputeAggregate(a, g) \in Nat \cup {Null}
    BY <2>3, AggregateCounts
  <2>5. ASSUME NEW c \in Range(keys)
        PROVE  Get(g[1], c) \in Nat \cup {Null}
    <3>1. keys # <<>>
      BY DEF Range
    <3>2. 1 \in DOMAIN g
      BY <1>2, <3>1 DEF g
    <3> QED
      BY <2>3, <3>2, CountingRow DEF Counted
  <2>6. Counting(RowOf(keys, aggs, g)) /\ DOMAIN RowOf(keys, aggs, g) = Range(keys) \cup {a.as : a \in aggs}
    BY <2>4, <2>5 DEF Counting, RowOf
  <2> QED
    BY <2>6 DEF g
<1> HIDE DEF F
<1>4. F = [n \in 1..m |-> F[n]] /\ \A n \in 1..m : Counting(F[n]) /\ IsRow(F[n])
  BY <1>1, <1>2, <1>3, CountingRow
<1>5. IsTable(F) /\ DOMAIN F = 1..m
  BY <1>4, TableMade
<1> QED
  BY <1>1, <1>2, <1>3, <1>4, <1>5 DEF Counted, F

\* Where no null is folded, the database folds as memory does; and a count
\* is the same in both.
FoldsAlike(X, keys, aggs) ==
    \/ /\ \A i \in DOMAIN X : \A a \in aggs : Get(X[i], a.field) # Null
       /\ keys # <<>> \/ X # <<>>
    \/ \A a \in aggs : a.fn = "COUNT"

LEMMA AggregateAlike ==
  ASSUME NEW g, IsTable(g), NEW a, Pushable(a),
         \/ 1 \in DOMAIN g /\ \A i \in DOMAIN g : Get(g[i], a.field) # Null
         \/ a.fn = "COUNT"
  PROVE  Aggregate(a, g, Database) = ComputeAggregate(a, g)
<1>1. Aggregate(a, g, Database) = SqlAggregate(a, g)
  <2>1. Memory # Database
    BY DEF Memory, Database
  <2> QED
    BY <2>1 DEF Aggregate
<1>2. CASE a.fn = "COUNT"
  BY <1>1, <1>2 DEF SqlAggregate
<1>3. CASE 1 \in DOMAIN g /\ \A i \in DOMAIN g : Get(g[i], a.field) # Null
  <2>1. Values(g, a.field) = DOMAIN g
    BY <1>3 DEF Values
  <2>2. Values(g, a.field) # {} /\ g # <<>>
    BY <1>3, <2>1
  <2>3. CASE a.fn = "SUM"
    BY <1>1, <2>2, <2>3 DEF SqlAggregate, ComputeAggregate
  <2>4. CASE a.fn = "MIN"
    BY <1>1, <2>1, <2>2, <2>4 DEF SqlAggregate, ComputeAggregate
  <2> QED
    BY <1>2, <2>3, <2>4 DEF Pushable
<1> QED
  BY <1>2, <1>3

LEMMA FoldedAlike ==
  ASSUME NEW X, IsTable(X), NEW keys, NEW aggs, \A a \in aggs : Pushable(a),
         FoldsAlike(X, keys, aggs)
  PROVE  Folded(X, keys, aggs, Database) = Folded(X, keys, aggs, Memory)
<1> DEFINE G == GroupsOf(X, keys)
           Row(g, place) == [c \in Range(keys) \cup {a.as : a \in aggs} |->
                                IF c \in Range(keys) THEN Get(g[1], c)
                                ELSE Aggregate(CHOOSE a \in aggs : a.as = c, g, place)]
<1>1. /\ Folded(X, keys, aggs, Memory) = [n \in DOMAIN G |-> Row(G[n], Memory)]
      /\ Folded(X, keys, aggs, Database) = [n \in DOMAIN G |-> Row(G[n], Database)]
  BY DEF Folded, GroupsOf
<1>2. PICK m \in Nat : DOMAIN G = 1..m
            /\ \A n \in 1..m : Drawn(X, G[n]) /\ (keys # <<>> \/ X # <<>> => 1 \in DOMAIN G[n])
  BY GroupsHave
<1> HIDE DEF G
<1>3. ASSUME NEW n \in DOMAIN G
      PROVE  Row(G[n], Database) = Row(G[n], Memory)
  <2> DEFINE g == G[n]
  <2>1. Drawn(X, g) /\ (keys # <<>> \/ X # <<>> => 1 \in DOMAIN g)
    BY <1>2
  <2> HIDE DEF g
  <2>2. IsTable(g) /\ \A i \in DOMAIN g : \E j \in DOMAIN X : g[i] = X[j]
    BY <2>1 DEF Drawn
  <2>3. ASSUME NEW a \in aggs
        PROVE  Aggregate(a, g, Database) = Aggregate(a, g, Memory)
    <3>1. \/ 1 \in DOMAIN g /\ \A i \in DOMAIN g : Get(g[i], a.field) # Null
          \/ a.fn = "COUNT"
      BY <2>1, <2>2 DEF FoldsAlike
    <3>2. Aggregate(a, g, Database) = ComputeAggregate(a, g)
      BY <2>2, <3>1, AggregateAlike
    <3>3. Aggregate(a, g, Memory) = ComputeAggregate(a, g)
      BY DEF Aggregate
    <3> QED
      BY <3>2, <3>3
  <2>4. \A c \in {a.as : a \in aggs} : (CHOOSE a \in aggs : a.as = c) \in aggs
    OBVIOUS
  <2>5. Row(g, Database) = Row(g, Memory)
    BY <2>3, <2>4
  <2> QED
    BY <2>5 DEF g
<1> HIDE DEF Row
<1> QED
  BY <1>1, <1>3

\* What is folded of rows without nulls has none.
LEMMA FullAggregate ==
  ASSUME NEW g, Counted(g), 1 \in DOMAIN g, NEW a, Pushable(a),
         \A i \in DOMAIN g : Get(g[i], a.field) # Null
  PROVE  ComputeAggregate(a, g) # Null
<1> DEFINE c == a.field
           N == {Get(g[i], c) : i \in DOMAIN g}
<1>1. IsTable(g) /\ Values(g, c) = DOMAIN g /\ g # <<>> /\ Len(g) \in Nat /\ IsFiniteSet(DOMAIN g)
  <2>1. IsTable(g) /\ Values(g, c) = DOMAIN g
    BY DEF Values, Counted
  <2>2. g # <<>>
    OBVIOUS
  <2> QED
    BY <2>1, <2>2, TableIs
<1>2. \A i \in DOMAIN g : Get(g[i], c) \in Nat
  BY CountingRow DEF Counted
<1>3. CASE a.fn = "COUNT"
  <2>1. Cardinality(DOMAIN g) \in Nat
    BY <1>1, FS_CardinalityType
  <2> QED
    BY <1>1, <1>3, <2>1 DEF ComputeAggregate, Null
<1>4. CASE a.fn = "SUM"
  <2> DEFINE f == [i \in DOMAIN g |-> Get(g[i], c)]
  <2>1. DOMAIN f = DOMAIN g /\ \A i \in DOMAIN g : f[i] \in Nat
    BY <1>2
  <2>2. ComputeAggregate(a, g) = SumOf(f)
    BY <1>1, <1>4 DEF ComputeAggregate, Total
  <2> HIDE DEF f
  <2>3. SumOf(f) \in Nat
    BY <1>1, <2>1, SumCounts
  <2> QED
    BY <2>2, <2>3 DEF Null
<1>5. CASE a.fn = "MIN"
  <2>1. N \in SUBSET Nat /\ N # {}
    BY <1>2
  <2>2. ComputeAggregate(a, g) = Min(N)
    BY <1>1, <1>5 DEF ComputeAggregate, Least
  <2> HIDE DEF N
  <2>3. Min(N) \in Nat
    BY <2>1, LeastOf DEF Min
  <2> QED
    BY <2>2, <2>3 DEF Null
<1> QED
  BY <1>3, <1>4, <1>5 DEF Pushable

LEMMA FoldedFull ==
  ASSUME NEW X, Counted(X), NEW keys, NEW aggs, \A a \in aggs : Pushable(a),
         \A i \in DOMAIN X : /\ \A a \in aggs : Get(X[i], a.field) # Null
                             /\ \A c \in Range(keys) : Get(X[i], c) # Null,
         keys # <<>> \/ X # <<>>
  PROVE  \A n \in DOMAIN Folded(X, keys, aggs, Memory) :
            \A c \in Range(keys) \cup {a.as : a \in aggs} :
               Get(Folded(X, keys, aggs, Memory)[n], c) # Null
<1> DEFINE G == GroupsOf(X, keys)
           F == Folded(X, keys, aggs, Memory)
<1>1. F = [n \in DOMAIN G |-> RowOf(keys, aggs, G[n])]
  BY FoldedIs
<1>2. PICK m \in Nat : DOMAIN G = 1..m
            /\ \A n \in 1..m : Drawn(X, G[n]) /\ (keys # <<>> \/ X # <<>> => 1 \in DOMAIN G[n])
  BY GroupsHave DEF Counted
<1> HIDE DEF G, F
<1>3. ASSUME NEW n \in DOMAIN G, NEW c \in Range(keys) \cup {a.as : a \in aggs}
      PROVE  Get(RowOf(keys, aggs, G[n]), c) # Null
  <2> DEFINE g == G[n]
  <2>1. Drawn(X, g) /\ 1 \in DOMAIN g
    BY <1>2
  <2> HIDE DEF g
  <2>2. IsTable(g) /\ \A i \in DOMAIN g : \E j \in DOMAIN X : g[i] = X[j]
    BY <2>1 DEF Drawn
  <2>3. Counted(g)
    BY <2>2 DEF Counted
  <2>4. \A a \in aggs : ComputeAggregate(a, g) # Null
    BY <2>1, <2>2, <2>3, FullAggregate
  <2>5. Get(RowOf(keys, aggs, g), c) = RowOf(keys, aggs, g)[c]
    BY DEF Get, RowOf
  <2>6. CASE c \in Range(keys)
    <3>1. RowOf(keys, aggs, g)[c] = Get(g[1], c)
      BY <2>6 DEF RowOf
    <3> QED
      BY <2>1, <2>2, <2>5, <2>6, <3>1 DEF g
  <2>7. CASE c \notin Range(keys)
    <3> DEFINE b == CHOOSE a \in aggs : a.as = c
    <3>1. b \in aggs
      BY <2>7
    <3>2. RowOf(keys, aggs, g)[c] = ComputeAggregate(b, g)
      BY <2>7 DEF RowOf
    <3> HIDE DEF b
    <3> QED
      BY <2>4, <2>5, <3>1, <3>2 DEF g
  <2> QED
    BY <2>6, <2>7
<1>4. \A n \in DOMAIN F : \A c \in Range(keys) \cup {a.as : a \in aggs} : Get(F[n], c) # Null
  BY <1>1, <1>3
<1> QED
  BY <1>4 DEF F

\* Where no null is ordered by, the database orders as memory does.
LEMMA SortedAlike ==
  ASSUME NEW X, NEW order, order \in Seq(Range(order)),
         \A i \in DOMAIN X : \A n \in DOMAIN order : Get(X[i], order[n].field) # Null
  PROVE  Sorted(order, Database, X) = Sorted(order, Memory, X)
<1>1. ASSUME NEW i \in DOMAIN X, NEW j \in DOMAIN X
      PROVE  Before(order, Database, X[i], X[j]) <=> Before(order, Memory, X[i], X[j])
  <2>1. \A n \in DOMAIN order :
           /\ Rank(Get(X[i], order[n].field), Database) = Rank(Get(X[i], order[n].field), Memory)
           /\ Rank(Get(X[j], order[n].field), Database) = Rank(Get(X[j], order[n].field), Memory)
    BY DEF Rank
  <2>2. \A n \in DOMAIN order :
           /\ KeyOf(order, Database, X[i], n) = KeyOf(order, Memory, X[i], n)
           /\ KeyOf(order, Database, X[j], n) = KeyOf(order, Memory, X[j], n)
    BY <2>1 DEF KeyOf
  <2>3. DOMAIN order = 1..Len(order) /\ Len(order) \in Nat
    OBVIOUS
  <2>4. ASSUME NEW n \in DOMAIN order
        PROVE  /\ TieUpTo(order, Database, X[i], X[j], n) <=> TieUpTo(order, Memory, X[i], X[j], n)
               /\ Wins(order, Database, X[i], X[j], n) <=> Wins(order, Memory, X[i], X[j], n)
    <3>1. \A m \in 1..(n - 1) : m \in DOMAIN order
      BY <2>3
    <3> QED
      BY <2>2, <3>1 DEF TieUpTo, Wins
  <2> QED
    BY <2>4, BeforeIs
<1>2. ASSUME NEW k \in DOMAIN X
      PROVE  SortedPlace(order, Database, X, k) = SortedPlace(order, Memory, X, k)
  <2> DEFINE D(i) == {j \in DOMAIN X : \/ Before(order, Database, X[j], X[i])
                                       \/ ~Before(order, Database, X[i], X[j]) /\ j < i}
             M(i) == {j \in DOMAIN X : \/ Before(order, Memory, X[j], X[i])
                                       \/ ~Before(order, Memory, X[i], X[j]) /\ j < i}
  <2>1. \A i \in DOMAIN X : D(i) = M(i)
    BY <1>1
  <2>2. SortedPlace(order, Database, X, k) = CHOOSE i \in DOMAIN X : Cardinality(D(i)) = k - 1
    BY DEF SortedPlace
  <2>3. SortedPlace(order, Memory, X, k) = CHOOSE i \in DOMAIN X : Cardinality(M(i)) = k - 1
    BY DEF SortedPlace
  <2> HIDE DEF D, M
  <2>4. \A i \in DOMAIN X : Cardinality(D(i)) = k - 1 <=> Cardinality(M(i)) = k - 1
    BY <2>1
  <2>5. (CHOOSE i \in DOMAIN X : Cardinality(D(i)) = k - 1)
           = CHOOSE i \in DOMAIN X : Cardinality(M(i)) = k - 1
    BY <2>4
  <2> QED
    BY <2>2, <2>3, <2>5
<1> QED
  BY <1>2, SortedIs

\* The rows with their computed columns are numbers and nulls still.
LEMMA ComputedTable ==
  ASSUME NEW q, \A c \in Computed(q) : IsFiniteSet(q.computed[c]), NEW X, Counted(X)
  PROVE  /\ Counted(WithComputed(q, X)) /\ Len(WithComputed(q, X)) = Len(X)
         /\ DOMAIN WithComputed(q, X) = DOMAIN X
         /\ \A i \in DOMAIN X :
               /\ DOMAIN WithComputed(q, X)[i] = DOMAIN X[i] \cup Computed(q)
               /\ \A c \in DOMAIN X[i] \cup Computed(q) :
                     WithComputed(q, X)[i][c]
                       = IF c \in Computed(q) THEN Eval(q.computed[c], X[i]) ELSE X[i][c]
<1> DEFINE Y == WithComputed(q, X)
<1>1. /\ DOMAIN Y = DOMAIN X /\ Y = [i \in DOMAIN X |-> Y[i]]
      /\ \A i \in DOMAIN X :
            /\ DOMAIN Y[i] = DOMAIN X[i] \cup Computed(q)
            /\ \A c \in DOMAIN X[i] \cup Computed(q) :
                  Y[i][c] = IF c \in Computed(q) THEN Eval(q.computed[c], X[i]) ELSE X[i][c]
  BY DEF WithComputed
<1> HIDE DEF Y
<1>2. IsTable(X) /\ \A i \in DOMAIN X : Counting(X[i])
  BY DEF Counted
<1>3. Len(X) \in Nat /\ DOMAIN X = 1..Len(X)
  BY <1>2, TableIs
<1>4. \A i \in DOMAIN X : Counting(Y[i])
  BY <1>1, <1>2, EvalCounts DEF Counting
<1>5. \A i \in DOMAIN X : IsRow(Y[i])
  BY <1>4, CountingRow
<1>6. Y = [i \in 1..Len(X) |-> Y[i]] /\ \A i \in 1..Len(X) : IsRow(Y[i])
  BY <1>1, <1>3, <1>5
<1>7. IsTable(Y) /\ Len(Y) = Len(X)
  BY <1>3, <1>6, TableMade
<1> QED
  BY <1>1, <1>4, <1>7 DEF Counted, Y

\* A condition without expressions reads the fields of its comparisons.
Feels(w, r, s) ==
    Spoken(w) /\ (\A v \in Parts(w) : v.type = "simple" => Get(r, v.field) = Get(s, v.field))
        => Holds(w, r) = Holds(w, s)

LEMMA SpokenReads ==
  ASSUME NEW w, IsTree(w), NEW r, NEW s
  PROVE  Feels(w, r, s)
<1> DEFINE N == {h \in Nat : \A v \in Trees[h] : Feels(v, r, s)}
<1>1. ASSUME NEW v, IsTree(v), \A u \in v.of : Feels(u, r, s)
      PROVE  Feels(v, r, s)
  <2> SUFFICES ASSUME Spoken(v),
                      \A u \in Parts(v) : u.type = "simple" => Get(r, u.field) = Get(s, u.field)
               PROVE  Holds(v, r) = Holds(v, s)
    BY DEF Feels
  <2>1. v \in Parts(v) /\ \A u \in v.of : Parts(u) \subseteq Parts(v)
    BY <1>1, PartsWithin
  <2>2. \A u \in v.of : Holds(u, r) = Holds(u, s)
    BY <1>1, <2>1 DEF Feels, Spoken
  <2>3. {Holds(u, r) : u \in v.of} = {Holds(u, s) : u \in v.of}
    BY <2>2
  <2>4. Holds(v, r) = HoldsIf(v, r, {Holds(u, r) : u \in v.of})
        /\ Holds(v, s) = HoldsIf(v, s, {Holds(u, s) : u \in v.of})
    BY <1>1, HoldsOf
  <2>5. v.type = "simple" => SimpleHolds(v, r) = SimpleHolds(v, s)
    BY <2>1 DEF SimpleHolds
  <2>6. v.type # "expr" /\ v.type \in Types
    BY <1>1, <2>1, TreeOf DEF Spoken
  <2>7. \A of : HoldsIf(v, r, of) = HoldsIf(v, s, of)
    BY <2>5, <2>6 DEF HoldsIf, Types
  <2> QED
    BY <2>3, <2>4, <2>7
<1>2. 0 \in N
  <2>1. ASSUME NEW v \in Trees[0]
        PROVE  Feels(v, r, s)
    <3>1. IsTree(v) /\ v.of = {}
      BY TreesOf
    <3> QED
      BY <1>1, <3>1
  <2> QED
    BY <2>1
<1>3. ASSUME NEW n \in N
      PROVE  n + 1 \in N
  <2>1. n \in Nat /\ n + 1 \in Nat /\ n + 1 > 0 /\ (n + 1) - 1 = n
        /\ \A v \in Trees[n] : Feels(v, r, s)
    OBVIOUS
  <2>2. ASSUME NEW v \in Trees[n + 1]
        PROVE  Feels(v, r, s)
    <3>1. IsTree(v) /\ v.of \subseteq Trees[n]
      BY <2>1, TreesOf
    <3> QED
      BY <1>1, <2>1, <3>1
  <2> QED
    BY <2>1, <2>2
<1>4. N \in SUBSET Nat
  OBVIOUS
<1>5. N = Nat
  <2> HIDE DEF N
  <2> QED
    BY <1>2, <1>3, <1>4, AllNumbers
<1> QED
  BY <1>5 DEF IsTree

\* A condition with an expression in it is never pushed whole.
Whole(w, computed) == ~Split(w, computed).rest => Spoken(w)

LEMMA SplitSpeaks ==
  ASSUME NEW w, IsTree(w), NEW computed
  PROVE  Whole(w, computed)
<1> DEFINE N == {h \in Nat : \A v \in Trees[h] : Whole(v, computed)}
<1>1. ASSUME NEW v, IsTree(v), \A u \in v.of : Whole(u, computed)
      PROVE  Whole(v, computed)
  <2> DEFINE parts == SplitsOf(v, computed)
  <2>1. Split(v, computed) = SplitIf(v, computed, parts)
    BY <1>1, SplitOf DEF SplitsOf
  <2>2. v.type \in Types /\ Parts(v) = {v} \cup UNION {Parts(u) : u \in v.of}
    BY <1>1, TreeOf, PartsOf
  <2>3. Spoken(v) <=> v.type # "expr" /\ \A u \in v.of : Spoken(u)
    BY <2>2 DEF Spoken
  <2>4. \A u \in v.of : Split(u, computed) \in parts
    BY DEF SplitsOf
  <2>5. \A u \in v.of : Split(u, computed).rest => Rest(parts)
    BY <2>4 DEF Rest
  <2> HIDE DEF parts
  <2>6. CASE v.type \in Leaves
    <3>1. v.of = {}
      BY <1>1, <2>6, TreeLayer
    <3>2. SplitIf(v, computed, parts) = SplitLeaf(v, computed)
      BY <2>6 DEF SplitIf, Leaves
    <3>3. v.type = "expr" => SplitLeaf(v, computed).rest
      BY DEF SplitLeaf, InMemory
    <3> QED
      BY <2>1, <2>3, <3>1, <3>2, <3>3 DEF Whole
  <2>7. CASE v.type = "and"
    <3>1. SplitIf(v, computed, parts).rest = Rest(parts)
      BY <2>7 DEF SplitIf, SplitPart
    <3> QED
      BY <1>1, <2>1, <2>3, <2>5, <2>7, <3>1 DEF Whole
  <2>8. CASE v.type \in {"or", "not"}
    <3>1. Rest(parts) => SplitIf(v, computed, parts).rest
      BY <2>8 DEF SplitIf, InMemory
    <3> QED
      BY <1>1, <2>1, <2>3, <2>5, <2>8, <3>1 DEF Whole
  <2> QED
    BY <2>2, <2>6, <2>7, <2>8 DEF Types, Leaves
<1>2. 0 \in N
  <2>1. ASSUME NEW v \in Trees[0]
        PROVE  Whole(v, computed)
    <3>1. IsTree(v) /\ v.of = {}
      BY TreesOf
    <3> QED
      BY <1>1, <3>1
  <2> QED
    BY <2>1
<1>3. ASSUME NEW n \in N
      PROVE  n + 1 \in N
  <2>1. n \in Nat /\ n + 1 \in Nat /\ n + 1 > 0 /\ (n + 1) - 1 = n
        /\ \A v \in Trees[n] : Whole(v, computed)
    OBVIOUS
  <2>2. ASSUME NEW v \in Trees[n + 1]
        PROVE  Whole(v, computed)
    <3>1. IsTree(v) /\ v.of \subseteq Trees[n]
      BY <2>1, TreesOf
    <3> QED
      BY <1>1, <2>1, <3>1
  <2> QED
    BY <2>1, <2>2
<1>4. N \in SUBSET Nat
  OBVIOUS
<1>5. N = Nat
  <2> HIDE DEF N
  <2> QED
    BY <1>2, <1>3, <1>4, AllNumbers
<1> QED
  BY <1>5 DEF IsTree

\* Tables that agree in the columns of an order are ordered alike.
LEMMA OrderingSame ==
  ASSUME NEW X, IsTable(X), NEW Y, IsTable(Y), NEW order, order \in Seq(Range(order)),
         SameIn(X, Y, FieldsOf(order))
  PROVE  Ordering(order, X) = Ordering(order, Y)
<1>1. Len(X) = Len(Y) /\ DOMAIN X = 1..Len(X) /\ DOMAIN Y = 1..Len(X) /\ Len(X) \in Nat
  BY TableIs DEF SameIn
<1>2. DOMAIN order = 1..Len(order) /\ Len(order) \in Nat
  OBVIOUS
<1>3. ASSUME NEW i \in 1..Len(X), NEW n \in DOMAIN order
      PROVE  KeyOf(order, Memory, X[i], n) = KeyOf(order, Memory, Y[i], n)
  BY <1>1 DEF SameIn, FieldsOf, KeyOf
<1>4. ASSUME NEW i \in 1..Len(X), NEW j \in 1..Len(X)
      PROVE  Before(order, Memory, X[i], X[j]) <=> Before(order, Memory, Y[i], Y[j])
  <2>1. ASSUME NEW n \in DOMAIN order
        PROVE  /\ TieUpTo(order, Memory, X[i], X[j], n) <=> TieUpTo(order, Memory, Y[i], Y[j], n)
               /\ Wins(order, Memory, X[i], X[j], n) <=> Wins(order, Memory, Y[i], Y[j], n)
    <3>1. \A m \in 1..(n - 1) : m \in DOMAIN order
      BY <1>2
    <3> QED
      BY <1>3, <3>1 DEF TieUpTo, Wins
  <2> QED
    BY <2>1, BeforeIs
<1>5. \A i, j \in 1..Len(X) : Precedes(order, Memory, X, i, j) <=> Precedes(order, Memory, Y, i, j)
  BY <1>4 DEF Precedes
<1> DEFINE l == Len(X)
<1>6. Ahead(order, Memory, X, l) = Ahead(order, Memory, Y, l)
  <2> HIDE DEF l
  <2> SUFFICES ASSUME \A i, j \in 1..l : Precedes(order, Memory, X, i, j) <=> Precedes(order, Memory, Y, i, j)
               PROVE  Ahead(order, Memory, X, l) = Ahead(order, Memory, Y, l)
    BY <1>5 DEF l
  <2>1. \A x \in (1..l) \X (1..l) : Precedes(order, Memory, X, x[1], x[2])
                                 <=> Precedes(order, Memory, Y, x[1], x[2])
    OBVIOUS
  <2> QED
    BY <2>1 DEF Ahead
<1> QED
  BY <1>1, <1>6 DEF Ordering

\* Whatever table is picked from and paged, rows of the same places come.
Draws(S, R, offset, limit, n, place) ==
    /\ n \in Nat /\ place \in [1..n -> S]
    /\ \A U : IsTable(U) /\ S \subseteq DOMAIN U
                 => Page(Pick(U, S, R), offset, limit) = [k \in 1..n |-> U[place[k]]]

LEMMA PagePick ==
  ASSUME NEW S, S \in SUBSET Nat, IsFiniteSet(S), NEW R, Orders(R, S),
         NEW offset \in Nat, NEW limit \in Nat \cup {NoLimit}
  PROVE  \E n, place : Draws(S, R, offset, limit, n, place)
<1> DEFINE m == Cardinality(S)
           e == IF limit = NoLimit \/ m <= offset + limit THEN m ELSE offset + limit
           n == IF offset <= e THEN e - offset ELSE 0
           place == [k \in 1..n |-> Placed(S, R, offset + k)]
<1>1. m \in Nat
  BY FS_CardinalityType
<1>2. \A k \in 1..m : Placed(S, R, k) \in S
  BY PlacedAt
<1> HIDE DEF m
<1>3. e \in Nat /\ e <= m
  BY <1>1 DEF NoLimit
<1> HIDE DEF e
<1>4. n \in Nat /\ \A k \in 1..n : offset + k \in 1..m
  BY <1>1, <1>3
<1>5. 1..(e - offset) = 1..n
  BY <1>3
<1> HIDE DEF n
<1>6. place \in [1..n -> S]
  BY <1>2, <1>4, SMTT(30)
<1>7. ASSUME NEW U, IsTable(U), S \subseteq DOMAIN U
      PROVE  Page(Pick(U, S, R), offset, limit) = [k \in 1..n |-> U[place[k]]]
  <2> DEFINE P == Pick(U, S, R)
  <2>1. /\ IsTable(P) /\ Len(P) = m /\ P = [k \in 1..m |-> U[Placed(S, R, k)]]
    BY <1>7, PickTable, ZenonT(60) DEF Pick, m
  <2> HIDE DEF P
  <2>2. EndOf(P, offset, limit) = e
    BY <2>1 DEF EndOf, e
  <2>3. Page(P, offset, limit) = [i \in 1..(e - offset) |-> P[offset + i]]
    <3>1. P \in Seq(Range(P))
      BY <2>1 DEF IsTable
    <3>2. Page(P, offset, limit) = Cut(P, offset, e - offset)
      BY <2>2, <3>1, PageUpTo
    <3> QED
      BY <3>2 DEF Cut
  <2>4. \A i \in 1..n : P[offset + i] = U[place[i]]
    BY <1>4, <2>1
  <2> QED
    BY <1>5, <2>3, <2>4 DEF P
<1>8. Draws(S, R, offset, limit, n, place)
  <2> HIDE DEF place
  <2> QED
    BY <1>4, <1>6, <1>7 DEF Draws
<1> QED
  BY <1>8

\* A page with room for all the rows has them all.
LEMMA PageFits ==
  ASSUME NEW X, X \in Seq(Range(X)), NEW limit \in Nat, Len(X) <= limit
  PROVE  Page(X, 0, limit) = X
<1>1. Len(X) \in Nat /\ X = [i \in 1..Len(X) |-> X[i]]
  OBVIOUS
<1>2. EndOf(X, 0, limit) = Len(X)
  BY <1>1 DEF EndOf
<1>3. Page(X, 0, limit) = Cut(X, 0, Len(X) - 0)
  <2>1. 0 \in Nat /\ limit \in Nat \cup {NoLimit}
    OBVIOUS
  <2> QED
    BY <1>2, <2>1, PageUpTo
<1>4. Len(X) - 0 = Len(X) /\ \A i \in 1..Len(X) : 0 + i = i
  BY <1>1
<1> QED
  BY <1>1, <1>3, <1>4 DEF Cut

\* A page has no more rows than its limit.
LEMMA PageBound ==
  ASSUME NEW X, IsTable(X), NEW offset \in Nat, NEW limit \in Nat
  PROVE  Len(Page(X, offset, limit)) \in Nat /\ Len(Page(X, offset, limit)) <= limit
<1>1. Len(X) \in Nat
  BY TableIs
<1>2. limit # NoLimit
  BY DEF NoLimit
<1>3. EndOf(X, offset, limit) \in Nat /\ EndOf(X, offset, limit) <= offset + limit
  BY <1>1, <1>2 DEF EndOf
<1>4. Len(Page(X, offset, limit))
        = IF offset <= EndOf(X, offset, limit) THEN EndOf(X, offset, limit) - offset ELSE 0
  BY PageTable
<1> QED
  BY <1>3, <1>4

-------------------------------------------------------------------------------
\* Filtering, ordering and paging draw rows from a table.
LEMMA DrawnTwice ==
  ASSUME NEW X, NEW Y, NEW Z, Drawn(X, Y), Drawn(Y, Z)
  PROVE  Drawn(X, Z)
BY DEF Drawn

LEMMA DrawnFrom ==
  ASSUME NEW X, IsTable(X), NEW w, NEW order, order \in Seq(Range(order)),
         NEW offset \in Nat, NEW limit \in Nat \cup {NoLimit}
  PROVE  /\ Drawn(X, Filtered(w, X)) /\ Drawn(X, Sorted(order, Memory, X))
         /\ Drawn(X, Page(X, offset, limit))
<1>1. Drawn(X, Filtered(w, X))
  <2> DEFINE M == Meeting(w, X)
  <2>1. IsTable(Filtered(w, X)) /\ Filtered(w, X) = Kept(X, M)
    BY FilteredTable
  <2>2. M \subseteq DOMAIN X
    BY DEF Meeting
  <2> HIDE DEF M
  <2>3. /\ DOMAIN Kept(X, M) = 1..Cardinality(M)
        /\ \A k \in 1..Cardinality(M) : Nth(M, k) \in M /\ Kept(X, M)[k] = X[Nth(M, k)]
    BY <2>2, KeptTable
  <2> QED
    BY <2>1, <2>2, <2>3 DEF Drawn
<1>2. Drawn(X, Sorted(order, Memory, X))
  <2>1. IsTable(Sorted(order, Memory, X))
        /\ \A k \in DOMAIN X : SortedPlace(order, Memory, X, k) \in DOMAIN X
    BY SortedTable
  <2>2. Sorted(order, Memory, X) = [k \in DOMAIN X |-> X[SortedPlace(order, Memory, X, k)]]
    BY SortedIs
  <2> QED
    BY <2>1, <2>2 DEF Drawn
<1>3. Drawn(X, Page(X, offset, limit))
  <2> DEFINE e == EndOf(X, offset, limit)
  <2>1. X \in Seq(Range(X)) /\ Len(X) \in Nat /\ DOMAIN X = 1..Len(X)
    BY TableIs DEF IsTable
  <2>2. e \in Nat /\ e <= Len(X) /\ Page(X, offset, limit) = Cut(X, offset, e - offset)
    BY <2>1, PageUpTo
  <2> HIDE DEF e
  <2>3. \A i \in 1..(e - offset) : offset + i \in DOMAIN X
    BY <2>1, <2>2
  <2>4. IsTable(Page(X, offset, limit))
    BY PageTable
  <2> QED
    BY <2>2, <2>3, <2>4 DEF Drawn, Cut
<1> QED
  BY <1>1, <1>2, <1>3

\* The rows a query means, those it means to keep, and those sent.
Viewed(q) == WithComputed(q, Visible(q))
Meant(q) == Meeting(q.where, Viewed(q))
Sent(q, L) == {i \in DOMAIN L : SqlHolds(Pushes(q), L[i])}

LEMMA ViewedIs ==
  ASSUME NEW q, Executed(q), NEW L, Finds(q, L)
  PROVE  LET V == Visible(q)
             names == NamesIn(Plan(q).joins)
         IN  /\ Counted(V) /\ Counted(L) /\ Counted(Viewed(q))
             /\ Len(L) = Len(V) /\ Len(Viewed(q)) = Len(V)
             /\ DOMAIN L = DOMAIN V /\ DOMAIN Viewed(q) = DOMAIN V
             /\ \A i \in DOMAIN V :
                   /\ DOMAIN V[i] = names /\ DOMAIN L[i] = names
                   /\ DOMAIN Viewed(q)[i] = names \cup Computed(q)
                   /\ \A c \in names \cup Computed(q) :
                         Viewed(q)[i][c]
                           = IF c \in Computed(q) THEN Eval(q.computed[c], V[i]) ELSE V[i][c]
                   /\ \A c \in Told(Plan(q)) : c \in names /\ L[i][c] = V[i][c]
<1> DEFINE V == Visible(q)
           names == NamesIn(Plan(q).joins)
           told == Told(Plan(q))
<1>1. RowsAlike(names, told, L, V) /\ told \subseteq names
  BY DEF Finds
<1>2. \A c \in Computed(q) : IsFiniteSet(q.computed[c])
  BY DEF Executed, HasClauses
<1> HIDE DEF V, names, told
<1>3. /\ IsTable(V) /\ IsTable(L) /\ Len(L) = Len(V)
      /\ \A i \in DOMAIN V :
            /\ DOMAIN V[i] = names /\ DOMAIN L[i] = names
            /\ \A c \in names : V[i][c] \in Nat \cup {Null} /\ L[i][c] \in Nat \cup {Null}
            /\ \A c \in told : L[i][c] = V[i][c]
  BY <1>1 DEF RowsAlike
<1>4. DOMAIN L = DOMAIN V
  BY <1>3, TableIs
<1>5. Counted(V) /\ Counted(L)
  BY <1>3, <1>4 DEF Counted, Counting
<1>6. Viewed(q) = WithComputed(q, V)
  BY DEF Viewed, V
<1>7. /\ Counted(Viewed(q)) /\ Len(Viewed(q)) = Len(V)
      /\ DOMAIN Viewed(q) = DOMAIN V
      /\ \A i \in DOMAIN V :
            /\ DOMAIN Viewed(q)[i] = DOMAIN V[i] \cup Computed(q)
            /\ \A c \in DOMAIN V[i] \cup Computed(q) :
                  Viewed(q)[i][c]
                    = IF c \in Computed(q) THEN Eval(q.computed[c], V[i]) ELSE V[i][c]
  BY <1>2, <1>5, <1>6, ComputedTable
<1> QED
  BY <1>1, <1>3, <1>4, <1>5, <1>7 DEF V, names, told

\* Where the rows found are without null, so are they in what is told.
LEMMA ToldFull ==
  ASSUME NEW q, Executed(q), NEW L, Finds(q, L),
         \A row \in Range(Visible(q)) : Null \notin Range(row)
  PROVE  \A i \in DOMAIN L : \A c \in Told(Plan(q)) :
            Get(L[i], c) # Null /\ Get(Visible(q)[i], c) # Null
<1> DEFINE V == Visible(q)
           names == NamesIn(Plan(q).joins)
<1>1. /\ DOMAIN L = DOMAIN V
      /\ \A i \in DOMAIN V :
            /\ DOMAIN V[i] = names /\ DOMAIN L[i] = names
            /\ \A c \in Told(Plan(q)) : c \in names /\ L[i][c] = V[i][c]
  BY ViewedIs
<1> HIDE DEF V, names
<1>2. ASSUME NEW i \in DOMAIN V, NEW c \in names
      PROVE  V[i][c] # Null
  <2>1. V[i] \in Range(V) /\ V[i][c] \in Range(V[i])
    BY <1>1, <1>2 DEF Range
  <2> QED
    BY <2>1 DEF V
<1> QED
  BY <1>1, <1>2 DEF Get, V

\* What is sent to the database of a WHERE keeps the rows the query means
\* to keep, and only those when nothing is left of it.
LEMMA LeftOfWhere ==
  ASSUME NEW q, Executed(q)
  PROVE  /\ "filter_expr" \in Plan(q).memory <=> Split(q.where, Computed(q)).rest
         /\ "filter_expr" \in Plan(q).memory <=> HasExpr(q.where)
         /\ Fields(Pushes(q)) \subseteq Told(Plan(q))
<1> DEFINE p == Plan(q)
           C == CurrentOnly(q)
           s == Split(C.where, Computed(q))
<1>1. /\ IsQuery(q) /\ IsTree(q.where)
      /\ Marks(q) => "cur" \notin Computed(q)
  BY ExecutedIs
<1>2. p.where = s.pushed /\ ("filter_expr" \in p.memory <=> s.rest)
  BY <1>1, PlanOf
<1>3. Fields(p.where) \subseteq Told(p)
  BY DEF Told, Mentioned
<1>4. C.where = IF Marks(q) THEN MergeAnd(CurrentRow, q.where) ELSE q.where
  BY <1>1, CurrentOnlyOf
<1>5. (s.rest <=> Split(q.where, Computed(q)).rest) /\ Fields(Pushes(q)) \subseteq Fields(p.where)
  <2>1. CASE Marks(q)
    <3>1. s = Split(MergeAnd(CurrentRow, q.where), Computed(q))
      BY <1>4, <2>1
    <3> HIDE DEF s
    <3> QED
      BY <1>1, <1>2, <2>1, <3>1, MergedSplit DEF Pushes
  <2>2. CASE ~Marks(q)
    BY <1>2, <1>4, <2>2 DEF Pushes
  <2> QED
    BY <2>1, <2>2
<1> HIDE DEF s
<1>6. "filter_expr" \in p.memory => HasExpr(q.where)
  BY DEF Executed, WellDivided, FiltersAll
<1>7. ~Split(q.where, Computed(q)).rest => ~HasExpr(q.where)
  BY <1>1, SplitSpeaks DEF Whole, Spoken, HasExpr
<1> QED
  BY <1>2, <1>3, <1>5, <1>6, <1>7

LEMMA SentIs ==
  ASSUME NEW q, Executed(q), NEW L, Finds(q, L)
  PROVE  /\ Meant(q) \subseteq Sent(q, L) /\ Sent(q, L) \subseteq DOMAIN L
         /\ "filter_expr" \notin Plan(q).memory => Sent(q, L) = Meant(q)
         /\ \A i \in DOMAIN L : Holds(CurrentOnly(q).where, Viewed(q)[i])
                                  <=> Holds(q.where, Viewed(q)[i])
<1> DEFINE V == Visible(q)
           VC == Viewed(q)
           names == NamesIn(Plan(q).joins)
           w == Pushes(q)
           s == Split(q.where, Computed(q))
<1>1. IsQuery(q) /\ IsTree(q.where) /\ (Marks(q) => "cur" \notin Computed(q))
  BY ExecutedIs
<1>2. /\ DOMAIN L = DOMAIN V /\ DOMAIN VC = DOMAIN V
      /\ \A i \in DOMAIN V :
            /\ DOMAIN V[i] = names /\ DOMAIN L[i] = names
            /\ DOMAIN VC[i] = names \cup Computed(q)
            /\ \A c \in names \cup Computed(q) :
                  VC[i][c] = IF c \in Computed(q) THEN Eval(q.computed[c], V[i]) ELSE V[i][c]
            /\ \A c \in Told(Plan(q)) : c \in names /\ L[i][c] = V[i][c]
  BY ViewedIs
<1>3. Parted(q.where, Computed(q), s)
  BY <1>1, SplitIsSafe DEF SplitWell
<1>4. s.pushed = w
  BY DEF Pushes
<1>5. /\ IsTree(w) /\ (Negates(w) => Negates(q.where)) /\ Spoken(w)
      /\ \A v \in Parts(w) : v.type = "simple" => v.field \notin Computed(q)
      /\ \A row : Holds(q.where, row) => Holds(w, row)
      /\ ~s.rest => \A row : Holds(q.where, row) = Holds(w, row)
  BY <1>3, <1>4 DEF Parted, Spoken
<1>6. \A v \in Parts(w) : v.type = "simple" => v.field \in Told(Plan(q))
  BY LeftOfWhere, <1>4, <1>5 DEF Fields
<1> HIDE DEF w, s, VC, V, names
<1>7. ASSUME NEW i \in DOMAIN L
      PROVE  SqlHolds(w, L[i]) <=> Holds(w, VC[i])
  <2>1. \A c : c \in Told(Plan(q)) /\ c \notin Computed(q) => Get(L[i], c) = Get(VC[i], c)
    BY <1>2, <1>7 DEF Get
  <2>2. \A v \in Parts(w) : v.type = "simple" => Get(L[i], v.field) = Get(VC[i], v.field)
    BY <1>5, <1>6, <2>1
  <2>3. Holds(w, L[i]) = Holds(w, VC[i])
    BY <1>5, <2>2, SpokenReads DEF Feels
  <2>4. Calm(w, L[i]) \/ ~Negates(w)
    <3>1. NullsAlike(q)
      BY DEF Executed, WellDivided
    <3>2. CASE \A row \in Range(Visible(q)) : Null \notin Range(row)
      <4>1. \A c \in Told(Plan(q)) : Get(L[i], c) # Null
        BY <1>7, <3>2, ToldFull
      <4> QED
        BY <1>6, <4>1 DEF Calm
    <3>3. CASE ~Negates(q.where)
      BY <1>5, <3>3
    <3> QED
      BY <3>1, <3>2, <3>3 DEF NullsAlike
  <2>5. SqlHolds(w, L[i]) <=> Holds(w, L[i])
    BY <1>5, <2>4, SqlAlike
  <2> QED
    BY <2>3, <2>5
<1>8. Sent(q, L) = {i \in DOMAIN L : Holds(w, VC[i])}
  BY <1>7 DEF Sent, w
<1>9. Meant(q) = {i \in DOMAIN L : Holds(q.where, VC[i])}
  BY <1>2 DEF Meant, Meeting, VC
<1>10. "filter_expr" \notin Plan(q).memory => ~s.rest
  BY LeftOfWhere DEF s
<1>11. ASSUME NEW i \in DOMAIN L
       PROVE  Holds(CurrentOnly(q).where, VC[i]) <=> Holds(q.where, VC[i])
  <2>1. CASE ~Marks(q)
    BY <1>1, <2>1, CurrentOnlyOf
  <2>2. CASE Marks(q)
    <3>1. CurrentOnly(q).where = MergeAnd(CurrentRow, q.where)
      BY <1>1, <2>2, CurrentOnlyOf
    <3>2. "cur" \in names /\ V[i]["cur"] = 1
      BY <1>11, <2>2 DEF Finds, names, V
    <3>3. Get(VC[i], "cur") = 1
      BY <1>1, <1>2, <1>11, <2>2, <3>2 DEF Get
    <3> QED
      BY <1>1, <3>1, <3>3, MergedIs
  <2> QED
    BY <2>1, <2>2
<1> QED
  BY <1>5, <1>8, <1>9, <1>10, <1>11 DEF VC

\* The columns a query without groups fetches have bare names, are told
\* alike by both ways to name a row, and are all that is read later.
LEMMA BareTables ==
  ASSUME NEW joins, Wanted(joins)
  PROVE  /\ UNION {table.cols : table \in Range(Tables(joins))}
              = NamesIn(joins) \ DOMAIN Qualified
         /\ dataset.raw \subseteq NamesIn(joins) /\ dataset.raw \cap DOMAIN Qualified = {}
<1>1. joins \in Seq(Range(joins)) /\ IsDataset(dataset)
      /\ \A n \in DOMAIN joins : IsDataset(joins[n].of)
  BY DEF Wanted, IsJoins
<1>2. /\ DOMAIN Tables(joins) = 1..(Len(joins) + 1) /\ Len(joins) \in Nat
      /\ Tables(joins)[1].cols = dataset.columns
      /\ \A n \in 1..Len(joins) : Tables(joins)[n + 1].cols = joins[n].of.columns
  BY <1>1, TablesAt
<1>3. \A n \in 1..Len(joins) : joins[n].of.columns \cap DOMAIN Qualified = {}
  BY <1>1 DEF IsDataset
<1>4. dataset.columns \cap DOMAIN Qualified = {} /\ dataset.raw \subseteq dataset.columns
  BY <1>1 DEF IsDataset
<1>5. \A k \in DOMAIN Tables(joins) : k = 1 \/ \E n \in 1..Len(joins) : k = n + 1
  <2>1. ASSUME NEW k \in 1..(Len(joins) + 1), k # 1
        PROVE  k - 1 \in 1..Len(joins) /\ k = (k - 1) + 1
    BY <1>2, <2>1
  <2> QED
    BY <1>2, <2>1
<1>6. \A k \in DOMAIN Tables(joins) : Tables(joins)[k].cols \cap DOMAIN Qualified = {}
  BY <1>2, <1>3, <1>4, <1>5
<1>7. \A table \in Range(Tables(joins)) :
         NamesFor(table.alias, table.cols) \ DOMAIN Qualified = table.cols
  BY <1>6 DEF Range, NamesFor
<1>8. Tables(joins)[1] \in Range(Tables(joins))
  BY <1>2 DEF Range
<1> QED
  BY <1>2, <1>4, <1>7, <1>8 DEF NamesIn

LEMMA FetchedIs ==
  ASSUME NEW q, Executed(q), NEW L, Finds(q, L), ~Grouping(Plan(q))
  PROVE  LET p == Plan(q)
             F == Fetched(p)
         IN  /\ F \subseteq Told(p) /\ F \cap DOMAIN Qualified = {}
             /\ p.select = {} => F = NamesIn(p.joins) \ DOMAIN Qualified
             /\ ReadLater(p, q) \cap NamesIn(p.joins) \subseteq F
             /\ \A i \in DOMAIN L : ScanRow(L[i], F) = [c \in F |-> Visible(q)[i][c]]
<1> DEFINE p == Plan(q)
           F == Fetched(p)
           names == NamesIn(p.joins)
           V == Visible(q)
<1>1. /\ IsQuery(q) /\ IsTree(q.where) /\ Wanted(p.joins)
  BY ExecutedIs
<1>2. p.select = PlanSelect(q) /\ p.aggs = {}
  BY <1>1, PlanOf DEF Grouping
<1>3. UNION {table.cols : table \in Range(Tables(p.joins))} = names \ DOMAIN Qualified
      /\ dataset.raw \subseteq names /\ dataset.raw \cap DOMAIN Qualified = {}
  BY <1>1, BareTables
<1>4. p.select \subseteq dataset.raw
  BY <1>2 DEF PlanSelect
<1>5. F = IF p.select = {} THEN names \ DOMAIN Qualified ELSE p.select
  BY <1>2, <1>3 DEF Fetched
<1>6. F \subseteq Told(p)
  BY <1>2, <1>5 DEF Told, Mentioned
<1>7. F \cap DOMAIN Qualified = {}
  BY <1>3, <1>4, <1>5
<1>8. ReadLater(p, q) \cap names \subseteq F
  BY DEF Executed, WellDivided, BringsAll
<1>9. \A i \in DOMAIN V : \A c \in Told(p) : L[i][c] = V[i][c]
  BY ViewedIs
<1>10. DOMAIN L = DOMAIN V
  BY ViewedIs
<1> HIDE DEF F, V
<1>11. \A d \in F : BareName(d) = d
  BY <1>7 DEF BareName
<1>12. \A c \in F : (CHOOSE d \in F : BareName(d) = c) = c
  BY <1>11
<1>13. {BareName(d) : d \in F} = F
  BY <1>11
<1>14. ASSUME NEW i \in DOMAIN L
       PROVE  ScanRow(L[i], F) = [c \in F |-> V[i][c]]
  <2>1. ScanRow(L[i], F) = [c \in F |-> L[i][c]]
    BY <1>12, <1>13 DEF ScanRow
  <2> QED
    BY <1>6, <1>9, <1>10, <2>1
<1> QED
  BY <1>5, <1>6, <1>7, <1>8, <1>14 DEF F, V

\* The rows fetched, with their computed columns, are those the query
\* means in all that is read later.
Scanned(q, L) == [i \in DOMAIN L |-> ScanRow(L[i], Fetched(Plan(q)))]
Brought(q, L) == WithComputed(q, Scanned(q, L))

LEMMA BroughtIs ==
  ASSUME NEW q, Executed(q), NEW L, Finds(q, L), ~Grouping(Plan(q))
  PROVE  LET F == Fetched(Plan(q))
             TC == Brought(q, L)
         IN  /\ Counted(TC) /\ IsTable(Scanned(q, L))
             /\ DOMAIN Scanned(q, L) = DOMAIN L /\ DOMAIN TC = DOMAIN L
             /\ SameIn(TC, Viewed(q), ReadLater(Plan(q), q) \cup Computed(q))
             /\ \A i \in DOMAIN L :
                   /\ DOMAIN TC[i] = F \cup Computed(q)
                   /\ \A c \in F \cup Computed(q) : TC[i][c] = Viewed(q)[i][c]
<1> DEFINE p == Plan(q)
           F == Fetched(p)
           names == NamesIn(p.joins)
           V == Visible(q)
           VC == Viewed(q)
           T == Scanned(q, L)
           TC == Brought(q, L)
           later == ReadLater(p, q)
<1>1. /\ F \subseteq Told(p) /\ later \cap names \subseteq F
      /\ \A i \in DOMAIN L : ScanRow(L[i], F) = [c \in F |-> V[i][c]]
  BY FetchedIs
<1>2. /\ Counted(V) /\ Counted(L) /\ Counted(VC)
      /\ Len(L) = Len(V) /\ Len(VC) = Len(V)
      /\ DOMAIN L = DOMAIN V /\ DOMAIN VC = DOMAIN V
      /\ \A i \in DOMAIN V :
            /\ DOMAIN V[i] = names
            /\ DOMAIN VC[i] = names \cup Computed(q)
            /\ \A c \in names \cup Computed(q) :
                  VC[i][c] = IF c \in Computed(q) THEN Eval(q.computed[c], V[i]) ELSE V[i][c]
  BY ViewedIs
<1>3. Told(p) \subseteq names
  BY DEF Finds
<1>4. \A c \in Computed(q) : IsFiniteSet(q.computed[c]) /\ q.computed[c] \subseteq later
  BY DEF Executed, HasClauses, ReadLater
<1>5. DOMAIN T = DOMAIN L /\ T = [i \in DOMAIN L |-> [c \in F |-> V[i][c]]]
  BY <1>1 DEF Scanned
<1> HIDE DEF F, V, VC, T, TC, names, later
<1>6. Len(L) \in Nat /\ DOMAIN L = 1..Len(L)
  BY <1>2, TableIs DEF Counted
<1>7. \A i \in DOMAIN L : Counting(T[i]) /\ DOMAIN T[i] = F /\ \A c \in F : T[i][c] = V[i][c]
  BY <1>1, <1>2, <1>3, <1>5 DEF Counted, Counting
<1>8. IsTable(T) /\ Len(T) = Len(L)
  <2>1. T = [i \in 1..Len(L) |-> T[i]] /\ \A i \in 1..Len(L) : IsRow(T[i])
    BY <1>5, <1>6, <1>7, CountingRow
  <2> QED
    BY <1>6, <2>1, TableMade
<1>9. Counted(T)
  BY <1>5, <1>7, <1>8 DEF Counted
<1>10. TC = WithComputed(q, T)
  BY DEF TC, T, Brought
<1>11. /\ Counted(TC) /\ Len(TC) = Len(L) /\ DOMAIN TC = DOMAIN L
       /\ \A i \in DOMAIN L :
             /\ DOMAIN TC[i] = F \cup Computed(q)
             /\ \A c \in F \cup Computed(q) :
                   TC[i][c] = IF c \in Computed(q) THEN Eval(q.computed[c], T[i]) ELSE T[i][c]
  <2>1. /\ Counted(TC) /\ Len(TC) = Len(T) /\ DOMAIN TC = DOMAIN T
        /\ \A i \in DOMAIN T :
              /\ DOMAIN TC[i] = DOMAIN T[i] \cup Computed(q)
              /\ \A c \in DOMAIN T[i] \cup Computed(q) :
                    TC[i][c] = IF c \in Computed(q) THEN Eval(q.computed[c], T[i]) ELSE T[i][c]
    BY <1>4, <1>9, <1>10, ComputedTable
  <2> QED
    BY <1>5, <1>7, <1>8, <2>1
<1>12. ASSUME NEW i \in DOMAIN L
       PROVE  \A c \in later : Get(T[i], c) = Get(V[i], c)
  BY <1>1, <1>2, <1>3, <1>7 DEF Get
<1>13. ASSUME NEW i \in DOMAIN L, NEW c \in Computed(q)
       PROVE  Eval(q.computed[c], T[i]) = Eval(q.computed[c], V[i])
  BY <1>4, <1>12, EvalReads
<1>14. ASSUME NEW i \in DOMAIN L
       PROVE  /\ \A c \in F \cup Computed(q) : TC[i][c] = VC[i][c]
              /\ \A c \in later \cup Computed(q) : Get(TC[i], c) = Get(VC[i], c)
  <2>1. \A c \in F \cup Computed(q) : TC[i][c] = VC[i][c]
    BY <1>1, <1>2, <1>3, <1>7, <1>11, <1>13
  <2>2. \A c \in later \cup Computed(q) :
           c \in F \cup Computed(q) <=> c \in names \cup Computed(q)
    BY <1>1, <1>3
  <2> QED
    BY <1>2, <1>11, <2>1, <2>2 DEF Get
<1>15. TC = <<>> <=> VC = <<>>
  <2>1. (TC = <<>> <=> Len(TC) = 0) /\ (VC = <<>> <=> Len(VC) = 0)
    BY <1>2, <1>11 DEF Counted, IsTable
  <2> QED
    BY <1>2, <1>11, <2>1
<1>16. SameIn(TC, VC, later \cup Computed(q))
  BY <1>2, <1>11, <1>14, <1>15 DEF SameIn
<1> QED
  BY <1>5, <1>8, <1>11, <1>14, <1>16 DEF TC, T, F, VC, later

\* The order pushed is part of the order asked for, over columns that
\* tables have; the page pushed is the page asked for, or everything.
LEMMA OrderOf ==
  ASSUME NEW q, Executed(q)
  PROVE  LET p == Plan(q)
         IN  /\ p.order \in Seq(Range(p.order)) /\ q.orderBy \in Seq(Range(q.orderBy))
             /\ FieldsOf(p.order) \subseteq FieldsOf(q.orderBy) \ Computed(q)
             /\ FieldsOf(p.order) \subseteq Told(p)
             /\ \A U : Coarser(p.order, q.orderBy, U)
             /\ \A U : Coarser(<<>>, p.order, U) /\ Coarser(<<>>, q.orderBy, U)
             /\ "sort" \notin p.memory => p.order = q.orderBy
             /\ q.orderBy = <<>> => p.order = <<>>
<1> DEFINE p == Plan(q)
           order == q.orderBy
           S == {n \in DOMAIN order : order[n].field \in RawColumns(PlanJoins(q.join)) \ Computed(q)}
<1>1. IsQuery(q) /\ IsTree(q.where)
  BY ExecutedIs
<1>2. p.order = Kept(order, S) /\ ("sort" \in p.memory <=> p.order # order)
  BY <1>1, PlanOf
<1>3. order \in Seq(Range(order)) /\ DOMAIN order = 1..Len(order) /\ Len(order) \in Nat
  BY DEF Executed, HasClauses
<1>4. /\ S \in SUBSET Nat /\ IsFiniteSet(S) /\ S \subseteq DOMAIN order
      /\ \A n \in S : order[n].field \notin Computed(q)
  <2>1. S \subseteq 1..Len(order) /\ IsFiniteSet(1..Len(order))
    BY <1>3, FS_Interval
  <2> QED
    BY <1>3, <2>1, FS_Subset
<1> HIDE DEF S, p
<1> DEFINE m == Cardinality(S)
<1>5. m \in Nat /\ \A k \in 1..m : Nth(S, k) \in S
  BY <1>4, FS_CardinalityType, NthAt
<1>6. p.order = [k \in 1..m |-> order[Nth(S, k)]]
  BY <1>2 DEF Kept
<1> HIDE DEF m
<1>7. p.order \in Seq(Range(p.order))
  BY <1>5, <1>6 DEF Range
<1>o. /\ DOMAIN p.order = 1..m
      /\ \A k \in 1..m : /\ p.order[k] = order[Nth(S, k)] /\ Nth(S, k) \in DOMAIN order
                        /\ order[Nth(S, k)].field \notin Computed(q)
  BY <1>4, <1>5, <1>6
<1>8. FieldsOf(p.order) \subseteq FieldsOf(order) \ Computed(q)
  <2>1. ASSUME NEW c \in FieldsOf(p.order)
        PROVE  c \in FieldsOf(order) \ Computed(q)
    <3>1. PICK k \in 1..m : c = p.order[k].field
      BY <1>o, <2>1 DEF FieldsOf
    <3> QED
      BY <1>o, <3>1 DEF FieldsOf
  <2> QED
    BY <2>1
<1>9. ASSUME NEW U
      PROVE  Coarser(p.order, order, U)
  <2>1. ASSUME NEW r, NEW s, Tie(order, Memory, r, s)
        PROVE  Tie(p.order, Memory, r, s)
    <3>1. \A k \in 1..m : \A x : KeyOf(p.order, Memory, x, k) = KeyOf(order, Memory, x, Nth(S, k))
      BY <1>o DEF KeyOf
    <3> QED
      BY <1>o, <2>1, <3>1 DEF Tie
  <2> QED
    BY <2>1 DEF Coarser
<1>10. \A U : Coarser(<<>>, p.order, U) /\ Coarser(<<>>, order, U)
  BY DEF Coarser, Tie
<1>11. FieldsOf(p.order) \subseteq Told(p)
  BY DEF Told, Mentioned
<1>12. order = <<>> => p.order = <<>>
  <2> SUFFICES ASSUME order = <<>>
               PROVE  p.order = <<>>
    OBVIOUS
  <2>1. S = {}
    BY <1>4
  <2>2. m = 0
    BY <2>1, FS_EmptySet DEF m
  <2> QED
    BY <1>6, <2>2
<1> QED
  BY <1>2, <1>3, <1>7, <1>8, <1>9, <1>10, <1>11, <1>12 DEF p

LEMMA PageOf ==
  ASSUME NEW q, Executed(q)
  PROVE  LET p == Plan(q)
         IN  /\ q.offset \in Nat /\ q.limit \in Nat
             /\ p.offset \in Nat /\ p.limit \in Nat \cup {NoLimit}
             /\ "paginate" \notin p.memory => p.offset = q.offset /\ p.limit = q.limit
             /\ "paginate" \in p.memory => p.offset = 0 /\ p.limit = NoLimit
             /\ "paginate" \notin p.memory <=> PagePushed(p.memory)
<1>1. IsQuery(q) /\ IsTree(q.where)
  BY ExecutedIs
<1>2. q.offset \in Nat /\ q.limit \in Nat
  BY DEF Executed, HasClauses
<1> DEFINE p == Plan(q)
<1>3. /\ p.limit = (IF PagePushed(p.memory) THEN q.limit ELSE NoLimit)
      /\ p.offset = (IF PagePushed(p.memory) THEN q.offset ELSE 0)
      /\ "paginate" \in p.memory <=> ~PagePushed(p.memory)
  BY <1>1, PlanOf
<1> HIDE DEF p
<1> QED
  BY <1>2, <1>3 DEF p

\* No null is ordered by in the database.
LEMMA OrderFull ==
  ASSUME NEW q, Executed(q), NEW L, Finds(q, L)
  PROVE  \/ Plan(q).order = <<>>
         \/ \A i \in DOMAIN L : \A c \in Told(Plan(q)) : Get(L[i], c) # Null
<1>1. NullsAlike(q)
  BY DEF Executed, WellDivided
<1>2. CASE \A row \in Range(Visible(q)) : Null \notin Range(row)
  BY <1>2, ToldFull
<1>3. CASE q.orderBy = <<>>
  BY <1>3, OrderOf
<1> QED
  BY <1>1, <1>2, <1>3 DEF NullsAlike

\* Of a plan without groups.
LEMMA UngroupedIs ==
  ASSUME NEW q, Executed(q), ~Grouping(Plan(q))
  PROVE  LET p == Plan(q)
         IN  /\ p.having = NoWhere
             /\ "aggregate" \in p.memory <=> q.aggs # {}
             /\ "aggregate" \in p.memory => p.order = <<>>
             /\ "having" \notin p.memory => q.having = NoWhere
<1> DEFINE p == Plan(q)
<1>1. IsQuery(q) /\ IsTree(q.where)
  BY ExecutedIs
<1>2. /\ p.group = IF Bases(q) THEN q.groupBy ELSE <<>>
      /\ p.having = IF Bases(q) THEN q.having ELSE NoWhere
      /\ "aggregate" \in p.memory <=> p.aggs # q.aggs
      /\ "having" \in p.memory <=> q.having # NoWhere /\ ~Bases(q)
  BY <1>1, PlanOf
<1> HIDE DEF p
<1>3. p.group = <<>> /\ p.aggs = {}
  BY DEF Grouping, p
<1>4. "aggregate" \in p.memory => p.order = <<>> /\ p.having = NoWhere
  BY DEF Executed, WellDivided, DatabaseFirst, p
<1>5. q.having # NoWhere => q.groupBy # <<>> \/ q.aggs # {}
  BY DEF Executed, HasClauses
<1> QED
  BY <1>2, <1>3, <1>4, <1>5 DEF p

\* The places the database chooses from: a finite set, ordered by any
\* order.
LEMMA PlacesOf ==
  ASSUME NEW U, IsTable(U), NEW S, S \subseteq DOMAIN U
  PROVE  /\ S \in SUBSET Nat /\ IsFiniteSet(S) /\ Cardinality(S) \in Nat
         /\ \A order : order \in Seq(Range(order)) => Orders(Ordering(order, U), S)
BY TableIs, OrderingOrders

\* The rows matched, in the order pushed.
LEMMA MatchedSorted ==
  ASSUME NEW q, Executed(q), NEW L, Finds(q, L)
  PROVE  Sorted(Plan(q).order, Database, Kept(L, Sent(q, L)))
           = Pick(L, Sent(q, L), Ordering(Plan(q).order, Viewed(q)))
<1> DEFINE p == Plan(q)
           D == Sent(q, L)
           VC == Viewed(q)
           X == Kept(L, D)
           order == p.order
<1>1. D \subseteq DOMAIN L
  BY SentIs
<1>2. IsTable(L) /\ IsTable(VC) /\ Len(VC) = Len(L) /\ DOMAIN VC = DOMAIN L
  BY ViewedIs DEF Counted
<1>3. /\ order \in Seq(Range(order)) /\ \A U : Coarser(<<>>, order, U)
      /\ FieldsOf(order) \cap Computed(q) = {} /\ FieldsOf(order) \subseteq Told(p)
  BY OrderOf
<1>4. SameIn(L, VC, FieldsOf(order))
  <2>1. /\ DOMAIN L = DOMAIN Visible(q)
        /\ \A i \in DOMAIN L : \A c \in Told(p) :
              c \notin Computed(q) => Get(L[i], c) = Get(VC[i], c)
    BY ViewedIs DEF Get
  <2>2. (L = <<>> <=> Len(L) = 0) /\ (VC = <<>> <=> Len(VC) = 0)
    BY <1>2 DEF IsTable
  <2> HIDE DEF VC, order, p
  <2> QED
    BY <1>2, <1>3, <2>1, <2>2 DEF SameIn
<1>5. order = <<>> \/ \A i \in DOMAIN L : \A c \in Told(p) : Get(L[i], c) # Null
  BY OrderFull
<1> HIDE DEF D, VC, order, p
<1>6. Ordering(order, L) = Ordering(order, VC)
  BY <1>2, <1>3, <1>4, OrderingSame
<1>7. X = Pick(L, D, Ordering(<<>>, L))
  BY <1>1, <1>2, PickOfKept
<1>8. Sorted(order, Memory, X) = Pick(L, D, Ordering(order, L))
  <2>1. <<>> \in Seq(Range(<<>>))
    OBVIOUS
  <2> QED
    BY <1>1, <1>2, <1>3, <1>7, <2>1, PickSorted
<1>9. Sorted(order, Database, X) = Sorted(order, Memory, X)
  <2>1. \A i \in DOMAIN X : \A n \in DOMAIN order : Get(X[i], order[n].field) # Null
    <3>1. /\ DOMAIN X = 1..Cardinality(D)
          /\ \A k \in 1..Cardinality(D) : Nth(D, k) \in D /\ X[k] = L[Nth(D, k)]
      BY <1>1, <1>2, KeptTable
    <3>2. \A n \in DOMAIN order : order[n].field \in Told(p)
      BY <1>3 DEF FieldsOf
    <3>3. order = <<>> => DOMAIN order = {}
      OBVIOUS
    <3> HIDE DEF X
    <3> QED
      BY <1>1, <1>5, <3>1, <3>2, <3>3
  <2> HIDE DEF X
  <2> QED
    BY <1>3, <2>1, SortedAlike
<1> QED
  BY <1>6, <1>8, <1>9 DEF D, VC, order, p

\* The answer of a plan without groups, with the computed columns.
LEMMA AnswerBrings ==
  ASSUME NEW q, Executed(q), NEW L, Finds(q, L), ~Grouping(Plan(q))
  PROVE  WithComputed(CurrentOnly(q), Answer(Plan(q), dataset))
           = Page(Pick(Brought(q, L), Sent(q, L), Ordering(Plan(q).order, Viewed(q))),
                  Plan(q).offset, Plan(q).limit)
<1> DEFINE p == Plan(q)
           D == Sent(q, L)
           VC == Viewed(q)
           R == Ordering(p.order, VC)
           T == Scanned(q, L)
           TC == Brought(q, L)
           F == Fetched(p)
<1>1. D \subseteq DOMAIN L
  BY SentIs
<1>2. IsTable(L) /\ IsTable(VC) /\ DOMAIN VC = DOMAIN L
  BY ViewedIs DEF Counted
<1>3. p.having = NoWhere
  BY UngroupedIs
<1>4. Matching(p, dataset) = Kept(L, D)
  BY DEF Finds, Sent
<1>5. Sorted(p.order, Database, Kept(L, D)) = Pick(L, D, R)
  BY MatchedSorted
<1>6. p.order \in Seq(Range(p.order)) /\ p.offset \in Nat /\ p.limit \in Nat \cup {NoLimit}
  BY OrderOf, PageOf
<1>7. /\ IsTable(T) /\ DOMAIN T = DOMAIN L /\ IsTable(TC) /\ DOMAIN TC = DOMAIN L
  BY BroughtIs DEF Counted
<1>8. \A i \in DOMAIN L : T[i] = ScanRow(L[i], F)
  BY DEF Scanned
<1>9. \A i \in DOMAIN L : TC[i] = [c \in DOMAIN T[i] \cup Computed(q) |->
                                      IF c \in Computed(q) THEN Eval(q.computed[c], T[i]) ELSE T[i][c]]
  BY <1>7 DEF Brought, WithComputed
<1>10. CurrentOnly(q).computed = q.computed /\ Computed(CurrentOnly(q)) = Computed(q)
  BY ExecutedIs, CurrentOnlyOf
<1>11. Answer(p, dataset) = [i \in DOMAIN Page(Pick(L, D, R), p.offset, p.limit) |->
                                ScanRow(Page(Pick(L, D, R), p.offset, p.limit)[i], F)]
  <2> DEFINE X == Kept(L, D)
             kept == Kept(X, {i \in DOMAIN X : SqlHolds(p.having, X[i])})
  <2>1. IsTable(X) /\ Len(X) \in Nat /\ DOMAIN X = 1..Len(X) /\ X = [i \in 1..Len(X) |-> X[i]]
    BY <1>1, <1>2, KeptTable, TableIs
  <2>2. {i \in DOMAIN X : SqlHolds(p.having, X[i])} = DOMAIN X
    BY <1>3, NothingAsked
  <2> HIDE DEF X
  <2>3. kept = X
    BY <2>1, <2>2, KeptAll
  <2>4. Answer(p, dataset)
          = LET page == Page(Sorted(p.order, Database, kept), p.offset, p.limit)
            IN  [i \in DOMAIN page |-> ScanRow(page[i], F)]
    BY <1>4 DEF Answer, X
  <2> HIDE DEF kept
  <2> QED
    BY <1>5, <2>3, <2>4 DEF X
<1> HIDE DEF D, VC, T, TC, F, p
<1>12. PICK n, place : Draws(D, R, p.offset, p.limit, n, place)
  <2>1. D \in SUBSET Nat /\ IsFiniteSet(D)
    BY <1>1, <1>2, PlacesOf
  <2>2. Orders(R, D)
    BY <1>1, <1>2, <1>6, PlacesOf
  <2> HIDE DEF R
  <2> QED
    BY <1>6, <2>1, <2>2, PagePick
<1> HIDE DEF R
<1>13. /\ n \in Nat /\ place \in [1..n -> D]
       /\ Page(Pick(L, D, R), p.offset, p.limit) = [k \in 1..n |-> L[place[k]]]
       /\ Page(Pick(TC, D, R), p.offset, p.limit) = [k \in 1..n |-> TC[place[k]]]
  BY <1>1, <1>2, <1>7, <1>12 DEF Draws
<1>14. \A k \in 1..n : place[k] \in DOMAIN L
  BY <1>1, <1>13
<1>15. Answer(p, dataset) = [k \in 1..n |-> T[place[k]]]
  BY <1>8, <1>11, <1>13, <1>14
<1> DEFINE A == [k \in 1..n |-> T[place[k]]]
<1>16. WithComputed(CurrentOnly(q), A) = [k \in 1..n |-> TC[place[k]]]
  <2>1. WithComputed(CurrentOnly(q), A)
          = [k \in 1..n |-> [c \in DOMAIN A[k] \cup Computed(q) |->
                                IF c \in Computed(q) THEN Eval(q.computed[c], A[k]) ELSE A[k][c]]]
    BY <1>10 DEF WithComputed
  <2>2. ASSUME NEW k \in 1..n
        PROVE  [c \in DOMAIN A[k] \cup Computed(q) |->
                  IF c \in Computed(q) THEN Eval(q.computed[c], A[k]) ELSE A[k][c]] = TC[place[k]]
    <3>1. A[k] = T[place[k]] /\ place[k] \in DOMAIN L
      BY <1>14
    <3> HIDE DEF A
    <3> QED
      BY <1>9, <3>1
  <2> HIDE DEF A
  <2> QED
    BY <2>1, <2>2
<1> QED
  BY <1>13, <1>15, <1>16 DEF p, D, R, VC, TC

\* What the processor's filter leaves of the answer.
LEMMA KeepsMeant ==
  ASSUME NEW q, Executed(q), NEW L, Finds(q, L), ~Grouping(Plan(q)), NEW B,
         B = WithComputed(CurrentOnly(q), Answer(Plan(q), dataset))
  PROVE  LET w == CurrentOnly(q).where
         IN  When(HasExpr(w), Filtered(w, B), B)
               = Page(Pick(Brought(q, L), Meant(q), Ordering(Plan(q).order, Viewed(q))),
                      Plan(q).offset, Plan(q).limit)
<1> DEFINE p == Plan(q)
           w == CurrentOnly(q).where
           D == Sent(q, L)
           M == Meant(q)
           VC == Viewed(q)
           TC == Brought(q, L)
           R == Ordering(p.order, VC)
<1>1. M \subseteq D /\ D \subseteq DOMAIN L /\ ("filter_expr" \notin p.memory => D = M)
      /\ \A i \in DOMAIN L : Holds(w, VC[i]) <=> Holds(q.where, VC[i])
  BY SentIs
<1>2. B = Page(Pick(TC, D, R), p.offset, p.limit)
  BY AnswerBrings
<1>3. IsTree(w) /\ (HasExpr(w) <=> HasExpr(q.where))
  BY ExecutedIs, CurrentOnlyOf
<1>4. "filter_expr" \in p.memory <=> HasExpr(q.where)
  BY LeftOfWhere
<1>5. IsTable(VC) /\ DOMAIN VC = DOMAIN L
  BY ViewedIs DEF Counted
<1>6. IsTable(TC) /\ DOMAIN TC = DOMAIN L /\ SameIn(TC, VC, ReadLater(p, q) \cup Computed(q))
  BY BroughtIs DEF Counted
<1>7. HasExpr(q.where) => Fields(w) \subseteq ReadLater(p, q)
  <2> SUFFICES ASSUME HasExpr(q.where), NEW c \in Fields(w)
               PROVE  c \in ReadLater(p, q)
    OBVIOUS
  <2> HIDE DEF w, p
  <2>1. c \in (IF HasExpr(q.where) THEN Fields(CurrentOnly(q).where) ELSE {})
    BY DEF w
  <2> QED
    BY <2>1 DEF ReadLater
<1>8. "filter_expr" \in p.memory => p.offset = 0 /\ p.limit = NoLimit
  BY PageOf DEF PagePushed
<1>9. Orders(R, D)
  BY <1>1, <1>5, PlacesOf, OrderOf
<1>10. M = {i \in DOMAIN VC : Holds(q.where, VC[i])}
  BY DEF Meant, Meeting, VC
<1> HIDE DEF p, w, D, M, VC, TC, R
<1>11. CASE ~HasExpr(q.where)
  BY <1>1, <1>2, <1>3, <1>4, <1>11 DEF When, p, w, M, VC, TC, R
<1>12. CASE HasExpr(q.where)
  <2> DEFINE P == Pick(TC, D, R)
             Q == Pick(TC, M, R)
  <2>1. p.offset = 0 /\ p.limit = NoLimit
    BY <1>4, <1>8, <1>12
  <2>2. IsTable(P)
    BY <1>1, <1>6, <1>9, PickTable
  <2>3. Filtered(w, P) = Pick(TC, D \cap Meeting(w, TC), R)
    BY <1>1, <1>6, <1>9, PickFiltered
  <2>4. ASSUME NEW i \in DOMAIN L
        PROVE  Holds(w, TC[i]) = Holds(w, VC[i])
    <3>1. \A c \in Fields(w) : Get(TC[i], c) = Get(VC[i], c)
      BY <1>6, <1>7, <1>12 DEF SameIn
    <3> QED
      BY <1>3, <3>1, HoldsReads
  <2>5. D \cap Meeting(w, TC) = M
    BY <1>1, <1>5, <1>6, <1>10, <2>4 DEF Meeting
  <2>6. M \subseteq DOMAIN TC /\ Orders(R, M)
    BY <1>1, <1>6, <1>9, OrdersPart
  <2>7. IsTable(Q)
    BY <1>6, <2>6, PickTable
  <2> HIDE DEF P, Q
  <2>8. B = P
    BY <1>2, <2>1, <2>2, PageAll DEF P, IsTable
  <2>9. Page(Q, p.offset, p.limit) = Q
    BY <2>1, <2>7, PageAll DEF IsTable
  <2>10. When(HasExpr(w), Filtered(w, B), B) = Q
    BY <1>3, <1>12, <2>3, <2>5, <2>8 DEF When, P, Q
  <2> QED
    BY <2>9, <2>10 DEF Q, p, w, M, VC, TC, R
<1> QED
  BY <1>11, <1>12

\* What the query means without aggregates: the rows that meet both its
\* conditions, in its order.
Left(q) == Meant(q) \cap Meeting(q.having, Viewed(q))
Ranked(q) == Ordering(q.orderBy, Viewed(q))
Fits(q, row) ==
    IF q.select = {} \/ q.aggs # {} \/ "*" \in q.select THEN row
    ELSE Columns(row, q.select \cup Computed(q))

FitsIn(q, X) == [k \in DOMAIN X |-> Fits(q, X[k])]

LEMMA ProjectIs ==
  ASSUME NEW q, NEW X, X \in Seq(Range(X))
  PROVE  Project(q, X) = FitsIn(q, X)
<1>1. X = [k \in DOMAIN X |-> X[k]]
  OBVIOUS
<1>2. CASE q.select = {} \/ q.aggs # {} \/ "*" \in q.select
  BY <1>1, <1>2 DEF Project, Fits, FitsIn
<1>3. CASE ~(q.select = {} \/ q.aggs # {} \/ "*" \in q.select)
  BY <1>3 DEF Project, Fits, FitsIn
<1> QED
  BY <1>2, <1>3

LEMMA MeaningKeeps ==
  ASSUME NEW q, Executed(q), NEW L, Finds(q, L)
  PROVE  /\ Filtered(q.where, WithComputed(q, Visible(q))) = Kept(Viewed(q), Meant(q))
         /\ Kept(Viewed(q), Meant(q)) = Pick(Viewed(q), Meant(q), Ordering(<<>>, Viewed(q)))
         /\ Meant(q) \subseteq DOMAIN Viewed(q)
<1>1. IsTable(Viewed(q))
  BY ViewedIs DEF Counted
<1>2. Filtered(q.where, Viewed(q)) = Kept(Viewed(q), Meant(q)) /\ Meant(q) \subseteq DOMAIN Viewed(q)
  BY <1>1, FilteredTable DEF Meant, Meeting
<1> QED
  BY <1>1, <1>2, PickOfKept DEF Viewed

LEMMA MeaningPlain ==
  ASSUME NEW q, Executed(q), NEW L, Finds(q, L), q.aggs = {}
  PROVE  LET X == Page(Pick(Viewed(q), Left(q), Ranked(q)), q.offset, q.limit)
             shown == Project(q, X)
         IN  /\ Meaning(q).total = Cardinality(Left(q))
             /\ Meaning(q).rows = [i \in DOMAIN shown |-> Shown(shown[i])]
<1> DEFINE VC == Viewed(q)
           M == Meant(q)
           R0 == Ordering(<<>>, VC)
           V == Visible(q)
           sorted == Sorted(q.orderBy, Memory, Filtered(q.having, Kept(VC, M)))
<1>1. IsTable(VC)
  BY ViewedIs DEF Counted
<1>2. /\ Filtered(q.where, WithComputed(q, V)) = Kept(VC, M)
      /\ Kept(VC, M) = Pick(VC, M, R0) /\ M \subseteq DOMAIN VC
  BY MeaningKeeps
<1>3. q.orderBy \in Seq(Range(q.orderBy)) /\ \A U : Coarser(<<>>, q.orderBy, U)
  BY OrderOf
<1>4. <<>> \in Seq(Range(<<>>))
  OBVIOUS
<1>5. ProcessInMemory(q, V)
        = [rows |-> Project(q, Page(sorted, q.offset, q.limit)), total |-> Len(sorted)]
  BY <1>2 DEF ProcessInMemory, When
<1> HIDE DEF VC, M
<1>6. Orders(R0, M)
  BY <1>1, <1>2, <1>4, PlacesOf
<1> HIDE DEF R0
<1>7. Filtered(q.having, Kept(VC, M)) = Pick(VC, Left(q), R0) /\ Left(q) \subseteq DOMAIN VC
  BY <1>1, <1>2, <1>6, PickFiltered DEF Left, VC, M
<1>8. sorted = Pick(VC, Left(q), Ranked(q))
  <2>1. Sorted(q.orderBy, Memory, Pick(VC, Left(q), Ordering(<<>>, VC)))
          = Pick(VC, Left(q), Ordering(q.orderBy, VC))
    BY <1>1, <1>3, <1>4, <1>7, PickSorted
  <2> QED
    BY <1>7, <2>1 DEF R0, Ranked, VC
<1>9. Len(sorted) = Cardinality(Left(q))
  <2>1. Orders(Ranked(q), Left(q))
    BY <1>1, <1>3, <1>7, PlacesOf DEF Ranked, VC
  <2> QED
    BY <1>1, <1>7, <1>8, <2>1, PickTable
<1> HIDE DEF sorted
<1>10. ProcessInMemory(q, V).rows = Project(q, Page(sorted, q.offset, q.limit))
       /\ ProcessInMemory(q, V).total = Len(sorted)
  BY <1>5
<1> DEFINE result == ProcessInMemory(q, V)
<1>11. Meaning(q) = [result EXCEPT !.rows = [i \in DOMAIN @ |-> Shown(@[i])]]
  BY DEF Meaning
<1>12. "rows" \in DOMAIN result /\ "total" \in DOMAIN result
  BY <1>5
<1> HIDE DEF result
<1>13. Meaning(q).total = result.total
       /\ Meaning(q).rows = [i \in DOMAIN result.rows |-> Shown(result.rows[i])]
  BY <1>11, <1>12
<1> QED
  BY <1>8, <1>9, <1>10, <1>13 DEF result, VC

\* The processor's steps, one after the other.
KeptOf(q, B) ==
    LET w == CurrentOnly(q).where IN When(HasExpr(w), Filtered(w, B), B)
SumsOf(q, kept) ==
    When("aggregate" \in Plan(q).memory, Folded(kept, q.groupBy, q.aggs, Memory), kept)
LeftOf(q, sums) == When("having" \in Plan(q).memory, Filtered(q.having, sums), sums)
SortedOf(q, groups) ==
    When("sort" \in Plan(q).memory, Sorted(q.orderBy, Memory, groups), groups)
PagedOf(q, sorted) ==
    When("paginate" \in Plan(q).memory, Page(sorted, q.offset, q.limit), sorted)

LEMMA ProcessIs ==
  ASSUME NEW q, Executed(q), NEW answer
  PROVE  LET kept == KeptOf(q, WithComputed(CurrentOnly(q), answer))
             sorted == SortedOf(q, LeftOf(q, SumsOf(q, kept)))
             result == Process(Plan(q), CurrentOnly(q), answer)
         IN  result.rows = Project(q, PagedOf(q, sorted)) /\ result.total = Len(sorted)
<1> DEFINE kept == KeptOf(q, WithComputed(CurrentOnly(q), answer))
           sorted == SortedOf(q, LeftOf(q, SumsOf(q, kept)))
           paged == PagedOf(q, sorted)
<1> DEFINE C == CurrentOnly(q)
           p == Plan(q)
<1>1. /\ C.groupBy = q.groupBy /\ C.aggs = q.aggs /\ C.having = q.having
      /\ C.orderBy = q.orderBy /\ C.limit = q.limit /\ C.offset = q.offset
      /\ C.select = q.select /\ Computed(C) = Computed(q)
  BY ExecutedIs, CurrentOnlyOf
<1> HIDE DEF C, p
<1>2. Project(C, paged) = Project(q, paged)
  BY <1>1 DEF Project
<1>3. Process(p, C, answer) = [rows |-> Project(C, paged), total |-> Len(sorted)]
  BY <1>1 DEF Process, KeptOf, SumsOf, LeftOf, SortedOf, PagedOf, C, p
<1> QED
  BY <1>2, <1>3 DEF C, p

\* The answer's last steps: order and page what is left of the rows.
LEMMA SortedLast ==
  ASSUME NEW q, Executed(q), NEW U, IsTable(U), NEW N, N \subseteq DOMAIN U,
         NEW groups, groups = Page(Pick(U, N, Ordering(Plan(q).order, U)),
                                   Plan(q).offset, Plan(q).limit),
         "sort" \in Plan(q).memory /\ "paginate" \notin Plan(q).memory =>
             Cardinality(N) <= q.limit /\ q.offset = 0,
         NEW sorted, sorted = SortedOf(q, groups), NEW paged, paged = PagedOf(q, sorted)
  PROVE  /\ paged = Page(Pick(U, N, Ordering(q.orderBy, U)), q.offset, q.limit)
         /\ "paginate" \in Plan(q).memory => Len(sorted) = Cardinality(N)
         /\ "paginate" \notin Plan(q).memory => Len(sorted) \in Nat /\ Len(sorted) <= q.limit
<1> DEFINE p == Plan(q)
           P == Pick(U, N, Ordering(p.order, U))
           Q == Pick(U, N, Ordering(q.orderBy, U))
<1>1. /\ q.offset \in Nat /\ q.limit \in Nat
      /\ "paginate" \notin p.memory => p.offset = q.offset /\ p.limit = q.limit
      /\ "paginate" \in p.memory => p.offset = 0 /\ p.limit = NoLimit
  BY PageOf
<1>2. /\ p.order \in Seq(Range(p.order)) /\ q.orderBy \in Seq(Range(q.orderBy))
      /\ Coarser(p.order, q.orderBy, U)
      /\ "sort" \notin p.memory => p.order = q.orderBy
  BY OrderOf
<1> HIDE DEF p
<1>3. Orders(Ordering(p.order, U), N) /\ Orders(Ordering(q.orderBy, U), N)
  BY <1>2, OrderingOrders
<1>4. IsTable(P) /\ Len(P) = Cardinality(N) /\ IsTable(Q) /\ Len(Q) = Cardinality(N)
  BY <1>3, PickTable
<1>5. Sorted(q.orderBy, Memory, P) = Q
  BY <1>2, PickSorted
<1>6. "sort" \notin p.memory => P = Q
  BY <1>2
<1>7. groups = Page(P, p.offset, p.limit)
  BY DEF p
<1>8. /\ sorted = When("sort" \in p.memory, Sorted(q.orderBy, Memory, groups), groups)
      /\ paged = When("paginate" \in p.memory, Page(sorted, q.offset, q.limit), sorted)
      /\ "sort" \in p.memory /\ "paginate" \notin p.memory =>
             Cardinality(N) <= q.limit /\ q.offset = 0
  BY DEF p, SortedOf, PagedOf
<1> HIDE DEF P, Q
<1>9. CASE "paginate" \in p.memory
  <2>1. groups = P
    BY <1>1, <1>4, <1>7, <1>9, PageAll DEF IsTable
  <2>2. sorted = Q
    BY <1>5, <1>6, <1>8, <2>1 DEF When
  <2> QED
    BY <1>4, <1>8, <1>9, <2>2 DEF When, Q, p
<1>10. CASE "paginate" \notin p.memory /\ "sort" \in p.memory
  <2>1. Cardinality(N) <= q.limit /\ q.offset = 0
    BY <1>8, <1>10
  <2>2. groups = P
    BY <1>1, <1>4, <1>7, <1>10, <2>1, PageFits DEF IsTable
  <2>3. sorted = Q /\ paged = Q
    BY <1>5, <1>8, <1>10, <2>2 DEF When
  <2>4. Page(Q, q.offset, q.limit) = Q
    BY <1>1, <1>4, <2>1, PageFits DEF IsTable
  <2>5. Len(Q) \in Nat
    BY <1>4, TableIs
  <2> QED
    BY <1>4, <1>10, <2>1, <2>3, <2>4, <2>5 DEF Q, p
<1>11. CASE "paginate" \notin p.memory /\ "sort" \notin p.memory
  <2>1. sorted = Page(Q, q.offset, q.limit) /\ paged = sorted
    BY <1>1, <1>6, <1>7, <1>8, <1>11 DEF When
  <2>2. Len(sorted) \in Nat /\ Len(sorted) <= q.limit
    BY <1>1, <1>4, <2>1, PageBound
  <2> QED
    BY <1>11, <2>1, <2>2 DEF Q, p
<1> QED
  BY <1>9, <1>10, <1>11

\* A row shown is the same whichever way it came.
LEMMA ShownSame ==
  ASSUME NEW q, Executed(q), NEW L, Finds(q, L), ~Grouping(Plan(q)), q.aggs = {},
         NEW i \in DOMAIN L
  PROVE  Fits(q, Brought(q, L)[i]) = Shown(Fits(q, Viewed(q)[i]))
<1> DEFINE p == Plan(q)
           F == Fetched(p)
           names == NamesIn(p.joins)
           r == Brought(q, L)[i]
           v == Viewed(q)[i]
           comp == Computed(q)
           cols == q.select
<1>1. DOMAIN r = F \cup comp /\ \A c \in F \cup comp : r[c] = v[c]
  BY BroughtIs
<1>2. DOMAIN v = names \cup comp
  BY ViewedIs
<1>3. F \subseteq Told(p) /\ F \cap DOMAIN Qualified = {}
      /\ (p.select = {} => F = names \ DOMAIN Qualified)
      /\ ReadLater(p, q) \cap names \subseteq F
  BY FetchedIs
<1>4. Told(p) \subseteq names
  BY DEF Finds
<1>5. comp \cap DOMAIN Qualified = {}
  BY DEF Executed, HasClauses
<1>6. p.select = PlanSelect(q)
  BY ExecutedIs, PlanOf
<1>7. cols \ comp \subseteq ReadLater(p, q)
  <2>1. "aggregate" \notin p.memory
    BY UngroupedIs
  <2> HIDE DEF p
  <2> QED
    BY <2>1 DEF ReadLater
<1>8. v = [c \in names \cup comp |-> v[c]] /\ r = [c \in F \cup comp |-> v[c]]
  <2>1. r = [c \in DOMAIN r |-> r[c]] /\ v = [c \in DOMAIN v |-> v[c]]
    <3>1. \A X, j : j \in DOMAIN X =>
             WithComputed(q, X)[j] = [c \in DOMAIN WithComputed(q, X)[j] |-> WithComputed(q, X)[j][c]]
      BY DEF WithComputed
    <3>2. i \in DOMAIN Scanned(q, L) /\ i \in DOMAIN Visible(q)
      BY ViewedIs DEF Scanned
    <3> QED
      BY <3>1, <3>2 DEF Brought, Viewed
  <2> HIDE DEF r, v, F, names, comp
  <2> QED
    BY <1>1, <1>2, <2>1
<1> HIDE DEF F, names, r, v, comp, p
<1>9. CASE cols = {} \/ "*" \in cols
  <2>1. F = names \ DOMAIN Qualified
    BY <1>3, <1>6, <1>9 DEF PlanSelect
  <2>2. Shown(v) = [c \in (names \cup comp) \ DOMAIN Qualified |-> v[c]]
    BY <1>8 DEF Shown, Restrict
  <2>3. (names \cup comp) \ DOMAIN Qualified = F \cup comp
    BY <1>5, <2>1
  <2>4. Fits(q, r) = r /\ Fits(q, v) = v
    BY <1>9 DEF Fits
  <2> QED
    BY <1>8, <2>2, <2>3, <2>4 DEF r, v
<1>10. CASE ~(cols = {} \/ "*" \in cols)
  <2> DEFINE S == cols \cup comp
  <2>1. Fits(q, r) = Columns(r, S) /\ Fits(q, v) = Columns(v, S)
    BY <1>10 DEF Fits, comp
  <2>2. Columns(r, S) = [c \in S \cap (F \cup comp) |-> v[c]]
    BY <1>8 DEF Columns, Restrict
  <2>3. Columns(v, S) = [c \in S \cap (names \cup comp) |-> v[c]]
    BY <1>8 DEF Columns, Restrict
  <2>4. Shown(Columns(v, S)) = [c \in (S \cap (names \cup comp)) \ DOMAIN Qualified |-> v[c]]
    BY <2>3 DEF Shown, Restrict
  <2>5. (S \cap (names \cup comp)) \ DOMAIN Qualified = S \cap (F \cup comp)
    BY <1>3, <1>4, <1>5, <1>7
  <2> QED
    BY <2>1, <2>2, <2>4, <2>5 DEF r, v
<1> QED
  BY <1>9, <1>10

\* The answer is the query's, and counts all there is or one page.
Answers(q) ==
    LET result == Process(Plan(q), CurrentOnly(q), Answer(Plan(q), dataset))
    IN  /\ result.rows = Meaning(q).rows
        /\ "paginate" \in Plan(q).memory => result.total = Meaning(q).total
        /\ "paginate" \notin Plan(q).memory => result.total \in Nat /\ result.total <= q.limit

LEMMA HavingNothing ==
  ASSUME NEW U
  PROVE  Meeting(NoWhere, U) = DOMAIN U
BY NothingAsked DEF Meeting

\* Without groups and aggregates.
LEMMA PlainGroups ==
  ASSUME NEW q, Executed(q), NEW L, Finds(q, L), ~Grouping(Plan(q)), q.aggs = {},
         NEW kept, kept = Page(Pick(Brought(q, L), Meant(q), Ordering(Plan(q).order, Viewed(q))),
                               Plan(q).offset, Plan(q).limit)
  PROVE  When("having" \in Plan(q).memory, Filtered(q.having, kept), kept)
           = Page(Pick(Brought(q, L), Left(q), Ordering(Plan(q).order, Viewed(q))),
                  Plan(q).offset, Plan(q).limit)
<1> DEFINE p == Plan(q)
           TC == Brought(q, L)
           VC == Viewed(q)
           M == Meant(q)
           R == Ordering(p.order, VC)
           P == Pick(TC, M, R)
<1>1. IsTable(TC) /\ DOMAIN TC = DOMAIN L /\ SameIn(TC, VC, ReadLater(p, q) \cup Computed(q))
  BY BroughtIs DEF Counted
<1>2. IsTable(VC) /\ DOMAIN VC = DOMAIN L
  BY ViewedIs DEF Counted
<1>3. M \subseteq DOMAIN VC
  BY MeaningKeeps
<1>4. Orders(R, M)
  BY <1>2, <1>3, PlacesOf, OrderOf
<1>5. IsTree(q.having)
  BY DEF Executed, HasClauses
<1>6. "aggregate" \notin p.memory
  BY UngroupedIs
<1>7. Fields(q.having) \subseteq ReadLater(p, q)
  <2> HIDE DEF p
  <2> QED
    BY <1>6 DEF ReadLater
<1>8. "having" \notin p.memory => q.having = NoWhere
  BY UngroupedIs
<1>9. "having" \in p.memory => p.offset = 0 /\ p.limit = NoLimit
  BY PageOf DEF PagePushed
<1>10. Left(q) = M \cap Meeting(q.having, VC)
  BY DEF Left
<1>11. kept = Page(P, p.offset, p.limit)
  OBVIOUS
<1> HIDE DEF TC, VC, M, R, p
<1>12. Meeting(q.having, TC) = Meeting(q.having, VC)
  <2>1. ASSUME NEW i \in DOMAIN L
        PROVE  Holds(q.having, TC[i]) = Holds(q.having, VC[i])
    <3>1. \A c \in Fields(q.having) : Get(TC[i], c) = Get(VC[i], c)
      BY <1>1, <1>7 DEF SameIn
    <3> QED
      BY <1>5, <3>1, HoldsReads
  <2> QED
    BY <1>1, <1>2, <2>1 DEF Meeting
<1>13. CASE "having" \notin p.memory
  <2>1. Left(q) = M
    BY <1>3, <1>8, <1>10, <1>13, HavingNothing
  <2> QED
    BY <1>11, <1>13, <2>1 DEF When, TC, VC, M, R, p
<1>14. CASE "having" \in p.memory
  <2>1. IsTable(P) /\ IsTable(Pick(TC, Left(q), R))
    <3>1. Left(q) \subseteq M
      BY <1>10
    <3> QED
      BY <1>1, <1>2, <1>3, <1>4, <3>1, OrdersPart, PickTable
  <2>2. Filtered(q.having, P) = Pick(TC, Left(q), R)
    BY <1>1, <1>2, <1>3, <1>4, <1>10, <1>12, PickFiltered
  <2> DEFINE Q == Pick(TC, Left(q), R)
  <2> HIDE DEF P, Q
  <2>3. kept = P
    BY <1>9, <1>11, <1>14, <2>1, PageAll DEF IsTable
  <2>4. Page(Q, p.offset, p.limit) = Q
    BY <1>9, <1>14, <2>1, PageAll DEF IsTable, Q
  <2>5. When("having" \in p.memory, Filtered(q.having, kept), kept) = Q
    BY <1>14, <2>2, <2>3 DEF When, Q
  <2> QED
    BY <2>4, <2>5 DEF Q, TC, VC, M, R, p
<1> QED
  BY <1>13, <1>14

LEMMA PlainAnswers ==
  ASSUME NEW q, Executed(q), NEW L, Finds(q, L), ~Grouping(Plan(q)), q.aggs = {}
  PROVE  Answers(q)
<1> DEFINE p == Plan(q)
           TC == Brought(q, L)
           VC == Viewed(q)
           N == Left(q)
           answer == Answer(p, dataset)
           w == CurrentOnly(q).where
           B == WithComputed(CurrentOnly(q), answer)
           kept == KeptOf(q, B)
           sums == SumsOf(q, kept)
           groups == LeftOf(q, sums)
           sorted == SortedOf(q, groups)
           paged == PagedOf(q, sorted)
           M1 == Page(Pick(VC, N, Ranked(q)), q.offset, q.limit)
<1>1. /\ Process(p, CurrentOnly(q), answer).rows = Project(q, paged)
      /\ Process(p, CurrentOnly(q), answer).total = Len(sorted)
  BY ProcessIs
<1>2. kept = Page(Pick(TC, Meant(q), Ordering(p.order, VC)), p.offset, p.limit)
  <2> HIDE DEF B
  <2>1. B = WithComputed(CurrentOnly(q), Answer(Plan(q), dataset))
    BY DEF B
  <2> QED
    BY <2>1, KeepsMeant DEF KeptOf
<1>3. sums = kept
  BY UngroupedIs DEF When, SumsOf
<1>4. groups = Page(Pick(TC, N, Ordering(p.order, VC)), p.offset, p.limit)
  <2> HIDE DEF kept, sums
  <2> QED
    BY <1>2, <1>3, PlainGroups DEF LeftOf
<1>5. /\ Meaning(q).total = Cardinality(N)
      /\ Meaning(q).rows = [i \in DOMAIN Project(q, M1) |-> Shown(Project(q, M1)[i])]
  BY MeaningPlain
<1>6. /\ IsTable(TC) /\ DOMAIN TC = DOMAIN L /\ SameIn(TC, VC, ReadLater(p, q) \cup Computed(q))
  BY BroughtIs DEF Counted
<1>7. IsTable(VC) /\ DOMAIN VC = DOMAIN L
  BY ViewedIs DEF Counted
<1>8. N \subseteq DOMAIN VC
  BY MeaningKeeps DEF Left
<1>9. "sort" \in p.memory => FieldsOf(q.orderBy) \subseteq ReadLater(p, q)
  <2> HIDE DEF p
  <2> QED
    BY DEF ReadLater
<1>10. /\ p.order \in Seq(Range(p.order)) /\ q.orderBy \in Seq(Range(q.orderBy))
       /\ FieldsOf(p.order) \subseteq FieldsOf(q.orderBy)
       /\ "sort" \notin p.memory => p.order = q.orderBy
  BY OrderOf
<1>11. "sort" \in p.memory /\ "paginate" \notin p.memory => Cardinality(N) <= q.limit /\ q.offset = 0
  BY <1>5, PageOf DEF Executed, WellDivided, DatabaseFirst
<1>12. /\ q.offset \in Nat /\ q.limit \in Nat
  BY PageOf
<1>13. \A i \in DOMAIN L : Fits(q, TC[i]) = Shown(Fits(q, VC[i]))
  BY ShownSame
<1> HIDE DEF TC, VC, N, groups, sorted, paged, p, M1
<1>14. /\ paged = Page(Pick(TC, N, Ranked(q)), q.offset, q.limit)
       /\ "paginate" \in p.memory => Len(sorted) = Cardinality(N)
       /\ "paginate" \notin p.memory => Len(sorted) \in Nat /\ Len(sorted) <= q.limit
  <2>1. CASE "sort" \in p.memory
    <3>1. SameIn(TC, VC, FieldsOf(p.order)) /\ SameIn(TC, VC, FieldsOf(q.orderBy))
      BY <1>6, <1>9, <1>10, <2>1 DEF SameIn
    <3>2. Ordering(p.order, TC) = Ordering(p.order, VC) /\ Ordering(q.orderBy, TC) = Ordering(q.orderBy, VC)
      BY <1>6, <1>7, <1>10, <3>1, OrderingSame
    <3>3. groups = Page(Pick(TC, N, Ordering(p.order, TC)), p.offset, p.limit)
      BY <1>4, <3>2
    <3>4. N \subseteq DOMAIN TC
      BY <1>6, <1>7, <1>8
    <3>5. /\ paged = Page(Pick(TC, N, Ordering(q.orderBy, TC)), q.offset, q.limit)
          /\ "paginate" \in p.memory => Len(sorted) = Cardinality(N)
          /\ "paginate" \notin p.memory => Len(sorted) \in Nat /\ Len(sorted) <= q.limit
      BY <1>6, <1>11, <3>3, <3>4, SortedLast DEF sorted, paged, p
    <3> QED
      BY <3>2, <3>5 DEF Ranked, VC
  <2>2. CASE "sort" \notin p.memory
    <3>1. Ordering(p.order, VC) = Ranked(q)
      BY <1>10, <2>2 DEF Ranked, VC
    <3> DEFINE Q == Pick(TC, N, Ranked(q))
    <3>2. Orders(Ranked(q), N)
      BY <1>7, <1>8, <1>10, PlacesOf DEF Ranked, VC
    <3>3. IsTable(Q) /\ Len(Q) = Cardinality(N)
      BY <1>6, <1>7, <1>8, <3>2, PickTable
    <3>4. sorted = Page(Q, p.offset, p.limit)
      BY <1>4, <2>2, <3>1 DEF sorted, SortedOf, When, p
    <3> HIDE DEF Q
    <3>5. CASE "paginate" \in p.memory
      <4>1. p.offset = 0 /\ p.limit = NoLimit
        BY <3>5, PageOf DEF p
      <4>2. sorted = Q
        BY <3>3, <3>4, <4>1, PageAll DEF IsTable
      <4> QED
        BY <3>3, <3>5, <4>2 DEF paged, PagedOf, When, p, Q
    <3>6. CASE "paginate" \notin p.memory
      <4>1. p.offset = q.offset /\ p.limit = q.limit
        BY <3>6, PageOf DEF p
      <4>2. sorted = Page(Q, q.offset, q.limit) /\ paged = sorted
        BY <3>4, <3>6, <4>1 DEF paged, PagedOf, When, p
      <4>3. Len(sorted) \in Nat /\ Len(sorted) <= q.limit
        BY <1>12, <3>3, <4>2, PageBound
      <4> QED
        BY <3>6, <4>2, <4>3 DEF Q
    <3> QED
      BY <3>5, <3>6
  <2> QED
    BY <2>1, <2>2
<1>15. PICK n, place : Draws(N, Ranked(q), q.offset, q.limit, n, place)
  <2>1. N \in SUBSET Nat /\ IsFiniteSet(N) /\ Orders(Ranked(q), N)
    BY <1>7, <1>8, <1>10, PlacesOf DEF Ranked, VC
  <2>2. q.limit \in Nat \cup {NoLimit}
    BY <1>12
  <2> QED
    BY <1>12, <2>1, <2>2, PagePick
<1>16. /\ n \in Nat /\ place \in [1..n -> N]
       /\ paged = [k \in 1..n |-> TC[place[k]]] /\ M1 = [k \in 1..n |-> VC[place[k]]]
  BY <1>6, <1>7, <1>8, <1>14, <1>15 DEF Draws, M1
<1>17. Project(q, paged) = [k \in 1..n |-> Fits(q, TC[place[k]])]
  <2>1. paged \in Seq(Range(paged)) /\ DOMAIN paged = 1..n
    BY <1>16 DEF Range
  <2>2. Project(q, paged) = FitsIn(q, paged)
    BY <2>1, ProjectIs
  <2>3. \A k \in 1..n : paged[k] = TC[place[k]]
    BY <1>16
  <2> QED
    BY <2>1, <2>2, <2>3 DEF FitsIn
<1>18. Project(q, M1) = [k \in 1..n |-> Fits(q, VC[place[k]])]
  <2>1. M1 \in Seq(Range(M1)) /\ DOMAIN M1 = 1..n
    BY <1>16 DEF Range
  <2>2. Project(q, M1) = FitsIn(q, M1)
    BY <2>1, ProjectIs
  <2>3. \A k \in 1..n : M1[k] = VC[place[k]]
    BY <1>16
  <2> QED
    BY <2>1, <2>2, <2>3 DEF FitsIn
<1>19. \A k \in 1..n : place[k] \in DOMAIN L
  BY <1>7, <1>8, <1>16
<1>20. Meaning(q).rows = [k \in 1..n |-> Shown(Fits(q, VC[place[k]]))]
  BY <1>5, <1>18
<1>21. Project(q, paged) = Meaning(q).rows
  BY <1>13, <1>17, <1>19, <1>20
<1> QED
  BY <1>1, <1>5, <1>14, <1>21 DEF Answers, p

LEMMA KeptCounts ==
  ASSUME NEW X, Counted(X), NEW S, S \subseteq DOMAIN X
  PROVE  Counted(Kept(X, S))
<1>1. /\ IsTable(Kept(X, S)) /\ DOMAIN Kept(X, S) = 1..Cardinality(S)
      /\ \A k \in 1..Cardinality(S) : Nth(S, k) \in S /\ Kept(X, S)[k] = X[Nth(S, k)]
  BY KeptTable DEF Counted
<1> QED
  BY <1>1 DEF Counted

\* What a query with aggregates means.
Grouped(q) == Folded(Kept(Viewed(q), Meant(q)), q.groupBy, q.aggs, Memory)
InOrderMeant(q) == Sorted(q.orderBy, Memory, Filtered(q.having, Grouped(q)))

LEMMA MeaningFolds ==
  ASSUME NEW q, Executed(q), NEW L, Finds(q, L), q.aggs # {}
  PROVE  /\ Meaning(q).total = Len(InOrderMeant(q))
         /\ Meaning(q).rows = Page(InOrderMeant(q), q.offset, q.limit)
         /\ IsTable(Filtered(q.having, Grouped(q))) /\ IsTable(InOrderMeant(q))
         /\ Drawn(Grouped(q), Filtered(q.having, Grouped(q)))
<1> DEFINE VC == Viewed(q)
           M == Meant(q)
           V == Visible(q)
           X == Kept(VC, M)
           G == Grouped(q)
           H == Filtered(q.having, G)
           S == InOrderMeant(q)
           P == Page(S, q.offset, q.limit)
           result == ProcessInMemory(q, V)
<1>1. Counted(VC)
  BY ViewedIs
<1>2. Filtered(q.where, WithComputed(q, V)) = X /\ M \subseteq DOMAIN VC
  BY MeaningKeeps
<1>3. Counted(X)
  BY <1>1, <1>2, KeptCounts
<1>4. result = [rows |-> Project(q, P), total |-> Len(S)]
  <2> HIDE DEF X, VC, M, V
  <2> QED
    BY <1>2 DEF ProcessInMemory, When, Grouped, InOrderMeant, X, VC, M, V
<1>5. Project(q, P) = P
  BY DEF Project
<1>6. (Range(q.groupBy) \cup {a.as : a \in q.aggs}) \cap DOMAIN Qualified = {}
  BY DEF Executed, HasClauses, WellDivided, JoinsSaid
<1>7. \A n \in DOMAIN G : Shown(G[n]) = G[n]
  <2> HIDE DEF X
  <2>1. IsTable(X)
    BY <1>3 DEF Counted
  <2> QED
    BY <1>6, <2>1, FoldedSeq DEF Grouped, X
<1>8. Counted(G)
  <2> HIDE DEF X
  <2> QED
    BY <1>3, FoldedCounts DEF Grouped, X
<1>9. q.orderBy \in Seq(Range(q.orderBy)) /\ q.offset \in Nat /\ q.limit \in Nat \cup {NoLimit}
  BY OrderOf, PageOf
<1> HIDE DEF G
<1>10. IsTable(G) /\ IsTable(H) /\ Drawn(G, H)
  BY <1>8, <1>9, FilteredTable, DrawnFrom DEF Counted
<1>11. S = Sorted(q.orderBy, Memory, H)
  BY DEF InOrderMeant, G
<1> HIDE DEF H, S
<1>12. IsTable(S) /\ Drawn(H, S)
  BY <1>9, <1>10, <1>11, SortedTable, DrawnFrom
<1>13. IsTable(P) /\ Drawn(S, P)
  BY <1>9, <1>12, PageTable, DrawnFrom
<1> HIDE DEF P
<1>14. Drawn(G, P)
  BY <1>10, <1>12, <1>13, DrawnTwice
<1>15. P = [i \in DOMAIN P |-> P[i]] /\ \A i \in DOMAIN P : Shown(P[i]) = P[i]
  BY <1>7, <1>14, TableIs DEF Drawn
<1> DEFINE rs == result.rows
<1>16. rs = P /\ result.total = Len(S)
  BY <1>4, <1>5
<1>17. Meaning(q) = [result EXCEPT !.rows = [i \in DOMAIN @ |-> Shown(@[i])]]
  BY DEF Meaning
<1>18. "rows" \in DOMAIN result /\ "total" \in DOMAIN result
  BY <1>4
<1> HIDE DEF result
<1>19. Meaning(q).total = result.total
       /\ Meaning(q).rows = [i \in DOMAIN rs |-> Shown(rs[i])]
  BY <1>17, <1>18
<1>20. Meaning(q).rows = P
  <2> HIDE DEF rs
  <2> QED
    BY <1>15, <1>16, <1>19
<1> QED
  BY <1>10, <1>12, <1>16, <1>19, <1>20 DEF P, S, H, G

\* With aggregates left to memory.
LEMMA FoldedInMemory ==
  ASSUME NEW q, Executed(q), NEW L, Finds(q, L), ~Grouping(Plan(q)), q.aggs # {}
  PROVE  Answers(q)
<1> DEFINE p == Plan(q)
           TC == Brought(q, L)
           VC == Viewed(q)
           M == Meant(q)
           R == Ordering(<<>>, VC)
           answer == Answer(p, dataset)
           B == WithComputed(CurrentOnly(q), answer)
           kept == KeptOf(q, B)
           sums == SumsOf(q, kept)
           groups == LeftOf(q, sums)
           sorted == SortedOf(q, groups)
           paged == PagedOf(q, sorted)
           cols == Range(q.groupBy) \cup ReadBy(q.aggs)
<1>1. Process(p, CurrentOnly(q), answer).rows = Project(q, paged)
      /\ Process(p, CurrentOnly(q), answer).total = Len(sorted)
  BY ProcessIs
<1>2. "aggregate" \in p.memory /\ p.order = <<>> /\ ("having" \notin p.memory => q.having = NoWhere)
  BY UngroupedIs
<1>3. kept = Page(Pick(TC, M, Ordering(p.order, VC)), p.offset, p.limit)
  <2>1. B = WithComputed(CurrentOnly(q), Answer(Plan(q), dataset))
    OBVIOUS
  <2> HIDE DEF B
  <2> QED
    BY <2>1, KeepsMeant DEF KeptOf
<1>4. p.offset = 0 /\ p.limit = NoLimit /\ "paginate" \in p.memory
  BY <1>2, PageOf DEF PagePushed
<1>5. Counted(TC) /\ IsTable(TC) /\ DOMAIN TC = DOMAIN L
      /\ SameIn(TC, VC, ReadLater(p, q) \cup Computed(q))
  BY BroughtIs DEF Counted
<1>6. IsTable(VC) /\ DOMAIN VC = DOMAIN L
  BY ViewedIs DEF Counted
<1>7. M \subseteq DOMAIN VC
  BY MeaningKeeps
<1>8. cols \subseteq ReadLater(p, q)
  <2> HIDE DEF p
  <2> QED
    BY <1>2 DEF ReadLater, ReadBy, p
<1>9. /\ Meaning(q).total = Len(InOrderMeant(q))
      /\ Meaning(q).rows = Page(InOrderMeant(q), q.offset, q.limit)
      /\ IsTable(Filtered(q.having, Grouped(q)))
  BY MeaningFolds
<1>10. q.orderBy \in Seq(Range(q.orderBy)) /\ ("sort" \notin p.memory => p.order = q.orderBy)
  BY OrderOf
<1> HIDE DEF TC, VC, M, kept, sums, groups, sorted, paged, p, cols
<1>11. SameIn(TC, VC, cols) /\ SameIn(TC, VC, FieldsOf(<<>>))
  BY <1>5, <1>8 DEF SameIn, FieldsOf
<1>12. Ordering(<<>>, TC) = Ordering(<<>>, VC)
  <2>1. <<>> \in Seq(Range(<<>>))
    OBVIOUS
  <2> QED
    BY <1>5, <1>6, <1>11, <2>1, OrderingSame
<1>13. kept = Kept(TC, M)
  <2>1. Kept(TC, M) = Pick(TC, M, R)
    BY <1>5, <1>6, <1>7, <1>12, PickOfKept
  <2>2. IsTable(Kept(TC, M))
    BY <1>5, <1>6, <1>7, KeptTable
  <2>3. kept = Page(Kept(TC, M), 0, NoLimit)
    BY <1>2, <1>3, <1>4, <2>1
  <2> QED
    BY <2>2, <2>3, PageAll DEF IsTable
<1>14. sums = Grouped(q)
  <2>1. SameIn(Kept(TC, M), Kept(VC, M), cols)
    BY <1>5, <1>6, <1>7, <1>11, KeptSame
  <2>2. IsTable(Kept(TC, M)) /\ IsTable(Kept(VC, M))
    BY <1>5, <1>6, <1>7, KeptTable
  <2>3. Folded(Kept(TC, M), q.groupBy, q.aggs, Memory) = Grouped(q)
    BY <2>1, <2>2, FoldedSame DEF Grouped, VC, M, cols
  <2> QED
    BY <1>2, <1>13, <2>3 DEF sums, SumsOf, When, p
<1>15. groups = Filtered(q.having, Grouped(q))
  <2>1. "having" \in p.memory => groups = Filtered(q.having, sums)
    BY DEF groups, LeftOf, When, p
  <2>2. "having" \notin p.memory => groups = sums
    BY DEF groups, LeftOf, When, p
  <2>3. CASE "having" \notin p.memory
    <3>1. IsTable(Grouped(q))
      <4>1. Counted(Kept(VC, M))
        <5>1. Counted(VC)
          BY ViewedIs DEF VC
        <5> QED
          BY <1>7, <5>1, KeptCounts
      <4> QED
        BY <4>1, FoldedCounts DEF Grouped, Counted, VC, M
    <3>2. Filtered(NoWhere, Grouped(q)) = Grouped(q)
      BY <3>1, FilteredAll DEF IsTable
    <3> QED
      BY <1>2, <1>14, <2>2, <2>3, <3>2
  <2> QED
    BY <1>14, <2>1, <2>3
<1>16. sorted = InOrderMeant(q)
  <2>1. "sort" \in p.memory => sorted = Sorted(q.orderBy, Memory, groups)
    BY DEF sorted, SortedOf, When, p
  <2>2. "sort" \notin p.memory => sorted = groups
    BY DEF sorted, SortedOf, When, p
  <2>3. Sorted(<<>>, Memory, groups) = groups
    BY <1>9, <1>15, SortedByNothing DEF IsTable
  <2> QED
    BY <1>2, <1>10, <1>15, <2>1, <2>2, <2>3 DEF InOrderMeant
<1>17. paged = Page(InOrderMeant(q), q.offset, q.limit)
  BY <1>4, <1>16 DEF paged, PagedOf, When, p
<1>18. Project(q, paged) = paged
  BY DEF Project
<1> QED
  BY <1>1, <1>4, <1>9, <1>16, <1>17, <1>18 DEF Answers, p

-------------------------------------------------------------------------------
\* A query whose groups the database folds.
Heads(q) == Range(q.groupBy) \cup {a.as : a \in q.aggs}

LEMMA GroupingIs ==
  ASSUME NEW q, Executed(q), Grouping(Plan(q))
  PROVE  LET p == Plan(q)
         IN  /\ Computed(q) = {} /\ ~HasExpr(q.where) /\ q.aggs # {}
             /\ p.group = q.groupBy /\ p.aggs = q.aggs /\ p.having = q.having
             /\ p.memory \cap {"filter_expr", "aggregate", "having", "paginate"} = {}
             /\ \A a \in q.aggs : Pushable(a)
             /\ Range(q.groupBy) \cup {a.field : a \in q.aggs} \subseteq Told(p)
             /\ FieldsOf(p.order) \subseteq Range(q.groupBy)
             /\ q.having # NoWhere => Fields(q.having) \subseteq Heads(q)
             /\ Fetched(p) = Heads(q) /\ Heads(q) \cap DOMAIN Qualified = {}
<1> DEFINE p == Plan(q)
<1>1. IsQuery(q) /\ IsTree(q.where) /\ DatabaseFirst(p, q) /\ ~Refused(p) /\ HasClauses(q)
      /\ JoinsSaid(p, q)
  BY DEF Executed, HasClauses, WellDivided
<1>2. /\ p.group = IF Bases(q) THEN q.groupBy ELSE <<>>
      /\ p.having = IF Bases(q) THEN q.having ELSE NoWhere
      /\ p.aggs = {a \in q.aggs : Bases(q) /\ Pushable(a)
                                   /\ a.field \in RawColumns(PlanJoins(q.join))}
      /\ "aggregate" \in p.memory <=> p.aggs # q.aggs
      /\ "having" \in p.memory <=> q.having # NoWhere /\ ~Bases(q)
      /\ "computed_columns" \in p.memory <=> Computed(q) # {}
      /\ "paginate" \in p.memory <=> ~PagePushed(p.memory)
  BY <1>1, PlanOf
<1>3. "filter_expr" \in p.memory <=> HasExpr(q.where)
  BY LeftOfWhere
<1> HIDE DEF p
<1>4. p.aggs # {} /\ p.memory \cap {"computed_columns", "filter_expr", "aggregate"} = {}
  BY <1>1 DEF DatabaseFirst, p
<1>5. Bases(q) /\ p.aggs = q.aggs
  BY <1>2, <1>4
<1>6. PagePushed(p.memory) /\ "having" \notin p.memory
  BY <1>2, <1>4, <1>5 DEF PagePushed
<1>7. Range(q.groupBy) \cup {a.field : a \in q.aggs} \subseteq Told(p)
  BY <1>2, <1>4, <1>5 DEF Told, Mentioned
<1>8. FieldsOf(p.order) \subseteq Range(q.groupBy)
  BY <1>1, <1>2, <1>5 DEF Refused, p
<1>9. q.having # NoWhere => Fields(q.having) \subseteq Heads(q)
  BY <1>1, <1>2, <1>5 DEF Refused, Heads
<1>10. Fetched(p) = Heads(q)
  BY <1>2, <1>4, <1>5 DEF Fetched, Heads
<1>11. Heads(q) \cap DOMAIN Qualified = {}
  BY <1>1 DEF HasClauses, JoinsSaid, Heads
<1>12. \A a \in q.aggs : Pushable(a)
  BY <1>2, <1>5
<1> QED
  BY <1>2, <1>3, <1>4, <1>5, <1>6, <1>7, <1>8, <1>9, <1>10, <1>11, <1>12 DEF p

\* Folded by the database, the groups are those meant; and no null is in
\* them, or nothing they meet tells a null from another value.
FullGroups(q) == \A n \in DOMAIN Grouped(q) : \A c \in Heads(q) : Get(Grouped(q)[n], c) # Null

LEMMA GroupsMeant ==
  ASSUME NEW q, Executed(q), NEW L, Finds(q, L), Grouping(Plan(q))
  PROVE  /\ Folded(Matching(Plan(q), dataset), q.groupBy, q.aggs, Database) = Grouped(q)
         /\ Counted(Grouped(q)) /\ \A n \in DOMAIN Grouped(q) : DOMAIN Grouped(q)[n] = Heads(q)
         /\ FullGroups(q) \/ (~Negates(q.having) /\ q.orderBy = <<>>)
<1> DEFINE p == Plan(q)
           X == Kept(L, Sent(q, L))
           VC == Viewed(q)
           Y == Kept(VC, Meant(q))
           cols == Range(q.groupBy) \cup {a.field : a \in q.aggs}
<1>1. /\ Computed(q) = {} /\ "filter_expr" \notin p.memory /\ cols \subseteq Told(p)
      /\ \A a \in q.aggs : Pushable(a)
  BY GroupingIs
<1>2. Sent(q, L) = Meant(q) /\ Sent(q, L) \subseteq DOMAIN L
  BY <1>1, SentIs
<1>3. Matching(p, dataset) = X
  BY DEF Finds, Sent
<1>4. /\ Counted(L) /\ Counted(VC) /\ DOMAIN L = DOMAIN VC /\ Len(L) = Len(VC)
      /\ \A i \in DOMAIN L : \A c \in cols : Get(L[i], c) = Get(VC[i], c)
  <2>1. /\ Counted(VC) /\ Counted(L) /\ Len(L) = Len(VC) /\ DOMAIN L = DOMAIN VC
        /\ DOMAIN L = DOMAIN Visible(q)
        /\ \A i \in DOMAIN L :
              /\ DOMAIN L[i] = NamesIn(p.joins)
              /\ DOMAIN VC[i] = NamesIn(p.joins) \cup Computed(q)
              /\ \A c \in NamesIn(p.joins) \cup Computed(q) :
                    VC[i][c] = IF c \in Computed(q) THEN Eval(q.computed[c], Visible(q)[i])
                               ELSE Visible(q)[i][c]
              /\ \A c \in Told(p) : c \in NamesIn(p.joins) /\ L[i][c] = Visible(q)[i][c]
    BY ViewedIs
  <2> HIDE DEF p, VC, cols
  <2>2. \A i \in DOMAIN L : \A c \in cols : Get(L[i], c) = Get(VC[i], c)
    BY <1>1, <2>1 DEF Get
  <2> QED
    BY <2>1, <2>2
<1> HIDE DEF p, VC, cols
<1>5. SameIn(L, VC, cols)
  <2>1. L = <<>> <=> VC = <<>>
    BY <1>4, TableIs DEF Counted
  <2> QED
    BY <1>4, <2>1 DEF SameIn
<1>6. Counted(X) /\ Counted(Y)
  BY <1>2, <1>4, KeptCounts
<1>7. SameIn(X, Y, cols)
  BY <1>2, <1>4, <1>5, KeptSame DEF Counted
<1>8. Counted(Grouped(q)) /\ \A n \in DOMAIN Grouped(q) : DOMAIN Grouped(q)[n] = Heads(q)
  BY <1>6, FoldedCounts DEF Grouped, Heads, VC
<1>9. Folded(X, q.groupBy, q.aggs, Memory) = Grouped(q)
  <2>1. SameIn(X, Y, Range(q.groupBy) \cup ReadBy(q.aggs))
    BY <1>7 DEF SameIn, ReadBy, cols
  <2> HIDE DEF X, Y
  <2>2. IsTable(X) /\ IsTable(Y)
    BY <1>6 DEF Counted
  <2> QED
    BY <2>1, <2>2, FoldedSame DEF Grouped, Y, VC
<1>10. /\ IsTable(X)
       /\ DOMAIN X = 1..Cardinality(Sent(q, L))
       /\ \A k \in DOMAIN X : Nth(Sent(q, L), k) \in DOMAIN L /\ X[k] = L[Nth(Sent(q, L), k)]
  BY <1>2, <1>4, KeptTable DEF Counted
<1>11. Filtered(q.where, WithComputed(q, Visible(q))) = Y
  BY MeaningKeeps DEF VC
<1>12. Y # <<>> => X # <<>>
  BY <1>7 DEF SameIn
<1>13. CASE /\ \A row \in Range(Visible(q)) : Null \notin Range(row)
            /\ q.groupBy # <<>> \/ Filtered(q.where, WithComputed(q, Visible(q))) # <<>>
  <2>1. \A i \in DOMAIN L : \A c \in Told(p) : Get(L[i], c) # Null
    BY <1>13, ToldFull DEF p
  <2> HIDE DEF X, Y
  <2>2. \A k \in DOMAIN X : \A c \in cols : Get(X[k], c) # Null
    BY <1>1, <1>10, <2>1
  <2>3. \A k \in DOMAIN X : /\ \A a \in q.aggs : Get(X[k], a.field) # Null
                            /\ \A c \in Range(q.groupBy) : Get(X[k], c) # Null
    BY <2>2 DEF cols
  <2>4. q.groupBy # <<>> \/ X # <<>>
    BY <1>11, <1>12, <1>13
  <2>5. FoldsAlike(X, q.groupBy, q.aggs)
    BY <2>3, <2>4 DEF FoldsAlike
  <2>6. Folded(X, q.groupBy, q.aggs, Database) = Folded(X, q.groupBy, q.aggs, Memory)
    BY <1>1, <1>10, <2>5, FoldedAlike
  <2>7. \A n \in DOMAIN Folded(X, q.groupBy, q.aggs, Memory) :
           \A c \in Heads(q) : Get(Folded(X, q.groupBy, q.aggs, Memory)[n], c) # Null
    BY <1>1, <1>6, <2>3, <2>4, FoldedFull DEF Heads
  <2>8. FullGroups(q)
    BY <1>9, <2>7 DEF FullGroups
  <2> QED
    BY <1>3, <1>8, <1>9, <2>6, <2>8 DEF p
<1>14. CASE ~Negates(q.having) /\ q.orderBy = <<>> /\ \A a \in q.aggs : a.fn = "COUNT"
  <2> HIDE DEF X, Y
  <2>1. FoldsAlike(X, q.groupBy, q.aggs)
    BY <1>14 DEF FoldsAlike
  <2>2. Folded(X, q.groupBy, q.aggs, Database) = Folded(X, q.groupBy, q.aggs, Memory)
    BY <1>1, <1>10, <2>1, FoldedAlike
  <2> QED
    BY <1>3, <1>8, <1>9, <1>14, <2>2 DEF p
<1> QED
  BY <1>13, <1>14 DEF Executed, WellDivided, NullsAlike

LEMMA AllPicked ==
  ASSUME NEW U, IsTable(U), NEW order, order \in Seq(Range(order)), Coarser(<<>>, order, U)
  PROVE  Pick(U, DOMAIN U, Ordering(order, U)) = Sorted(order, Memory, U)
<1>1. Kept(U, DOMAIN U) = U
  <2>1. Filtered(NoWhere, U) = Kept(U, Meeting(NoWhere, U)) /\ Meeting(NoWhere, U) = DOMAIN U
    BY FilteredTable, HavingNothing
  <2>2. Filtered(NoWhere, U) = U
    BY FilteredAll DEF IsTable
  <2> QED
    BY <2>1, <2>2
<1>2. Kept(U, DOMAIN U) = Pick(U, DOMAIN U, Ordering(<<>>, U))
  BY PickOfKept
<1>3. <<>> \in Seq(Range(<<>>))
  OBVIOUS
<1>4. Sorted(order, Memory, Pick(U, DOMAIN U, Ordering(<<>>, U))) = Pick(U, DOMAIN U, Ordering(order, U))
  BY <1>3, PickSorted
<1> QED
  BY <1>1, <1>2, <1>4

LEMMA ScannedGroup ==
  ASSUME NEW F, F \cap DOMAIN Qualified = {}, NEW row, DOMAIN row = F, Shown(row) = row
  PROVE  /\ ScanRow(row, F) = row
         /\ row = [c \in F |-> row[c]]
<1>1. \A d \in F : BareName(d) = d
  BY DEF BareName
<1>2. {BareName(d) : d \in F} = F
  BY <1>1
<1>3. \A c \in F : (CHOOSE d \in F : BareName(d) = c) = c
  BY <1>1
<1>4. ScanRow(row, F) = [c \in F |-> row[c]]
  BY <1>2, <1>3 DEF ScanRow
<1>5. F \ DOMAIN Qualified = F
  OBVIOUS
<1>6. row = [c \in F |-> row[c]]
  BY <1>5 DEF Shown, Restrict
<1> QED
  BY <1>4, <1>6

\* What the database answers: HAVING and ORDER BY do there what they mean.
LEMMA GroupsHeld ==
  ASSUME NEW q, Executed(q), NEW L, Finds(q, L), Grouping(Plan(q))
  PROVE  LET G == Grouped(q)
             H == Filtered(q.having, G)
         IN  /\ Kept(G, {i \in DOMAIN G : SqlHolds(q.having, G[i])}) = H
             /\ Sorted(Plan(q).order, Database, H) = Sorted(Plan(q).order, Memory, H)
<1> DEFINE p == Plan(q)
           G == Grouped(q)
           H == Filtered(q.having, G)
<1>1. /\ q.having # NoWhere => Fields(q.having) \subseteq Heads(q)
      /\ FieldsOf(p.order) \subseteq Range(q.groupBy) /\ q.aggs # {}
  BY GroupingIs
<1>2. FullGroups(q) \/ (~Negates(q.having) /\ q.orderBy = <<>>)
  BY GroupsMeant
<1>3. IsTree(q.having) /\ Spoken(q.having)
  BY DEF Executed, HasClauses, HasExpr, Spoken
<1>4. p.order \in Seq(Range(p.order)) /\ (q.orderBy = <<>> => p.order = <<>>)
  BY OrderOf
<1>5. Drawn(G, H)
  BY <1>1, MeaningFolds
<1> HIDE DEF p, H
<1>6. ASSUME NEW i \in DOMAIN G
      PROVE  SqlHolds(q.having, G[i]) <=> Holds(q.having, G[i])
  <2> DEFINE row == G[i]
  <2>1. CASE q.having = NoWhere
    BY <2>1, NothingAsked
  <2>2. CASE ~Negates(q.having)
    BY <1>3, <2>2, SqlAlike
  <2>3. CASE q.having # NoWhere /\ FullGroups(q)
    <3>1. \A c \in Fields(q.having) : Get(row, c) # Null
      BY <1>1, <2>3 DEF FullGroups
    <3>2. \A v \in Parts(q.having) : v.type = "simple" => v.field \in Fields(q.having)
      BY DEF Fields
    <3>3. Calm(q.having, row)
      BY <3>1, <3>2 DEF Calm
    <3> QED
      BY <1>3, <3>3, SqlAlike
  <2> QED
    BY <1>2, <2>1, <2>2, <2>3
<1>7. {i \in DOMAIN G : SqlHolds(q.having, G[i])} = {i \in DOMAIN G : Holds(q.having, G[i])}
  BY <1>6
<1>8. Kept(G, {i \in DOMAIN G : SqlHolds(q.having, G[i])}) = H
  BY <1>7 DEF Filtered, H
<1>9. \A i \in DOMAIN H : \A n \in DOMAIN p.order : Get(H[i], p.order[n].field) # Null
  <2>1. CASE p.order = <<>>
    BY <2>1
  <2>2. CASE FullGroups(q)
    <3>1. \A n \in DOMAIN p.order : p.order[n].field \in Heads(q)
      BY <1>1 DEF FieldsOf, Heads
    <3> QED
      BY <1>5, <2>2, <3>1 DEF FullGroups, Drawn
  <2> QED
    BY <1>2, <1>4, <2>1, <2>2
<1>10. Sorted(p.order, Database, H) = Sorted(p.order, Memory, H)
  BY <1>4, <1>9, SortedAlike
<1> QED
  BY <1>8, <1>10 DEF H, p

LEMMA GroupsAnswered ==
  ASSUME NEW q, Executed(q), NEW L, Finds(q, L), Grouping(Plan(q))
  PROVE  WithComputed(CurrentOnly(q), Answer(Plan(q), dataset))
            = Page(Sorted(Plan(q).order, Memory, Filtered(q.having, Grouped(q))),
                   Plan(q).offset, Plan(q).limit)
<1> DEFINE p == Plan(q)
           G == Grouped(q)
           H == Filtered(q.having, G)
           S == Sorted(p.order, Memory, H)
           P == Page(S, p.offset, p.limit)
           A == Answer(p, dataset)
           C == CurrentOnly(q)
<1>1. /\ Computed(q) = {} /\ q.aggs # {} /\ p.group = q.groupBy /\ p.aggs = q.aggs
      /\ p.having = q.having /\ Fetched(p) = Heads(q) /\ Heads(q) \cap DOMAIN Qualified = {}
  BY GroupingIs
<1>2. /\ Folded(Matching(p, dataset), q.groupBy, q.aggs, Database) = G
      /\ Counted(G) /\ \A n \in DOMAIN G : DOMAIN G[n] = Heads(q)
  BY GroupsMeant
<1>3. /\ Kept(G, {i \in DOMAIN G : SqlHolds(q.having, G[i])}) = H
      /\ Sorted(p.order, Database, H) = S
  BY GroupsHeld
<1>4. IsTable(H) /\ Drawn(G, H)
  BY <1>1, MeaningFolds
<1>5. p.order \in Seq(Range(p.order))
  BY OrderOf
<1>6. p.offset \in Nat /\ p.limit \in Nat \cup {NoLimit}
  BY PageOf
<1>7. \A n \in DOMAIN G : Shown(G[n]) = G[n]
  <2>1. Counted(Kept(Viewed(q), Meant(q)))
    BY MeaningKeeps, ViewedIs, KeptCounts
  <2> QED
    BY <1>1, <2>1, FoldedSeq DEF Grouped, Counted, Heads
<1>8. Computed(C) = {}
  BY <1>1, CurrentOnlyOf DEF Executed, HasClauses
<1>9. A = [i \in DOMAIN P |-> ScanRow(P[i], Heads(q))]
  BY <1>1, <1>2, <1>3 DEF Answer
<1> HIDE DEF G, H, p, C, A
<1>10. IsTable(S) /\ Drawn(H, S)
  BY <1>4, <1>5, SortedTable, DrawnFrom
<1> HIDE DEF S
<1>11. IsTable(P) /\ Drawn(S, P)
  BY <1>5, <1>6, <1>10, PageTable, DrawnFrom
<1> HIDE DEF P
<1>12. Drawn(G, P)
  BY <1>4, <1>10, <1>11, DrawnTwice
<1>13. ASSUME NEW i \in DOMAIN P
       PROVE  DOMAIN P[i] = Heads(q) /\ Shown(P[i]) = P[i]
  BY <1>2, <1>7, <1>12 DEF Drawn
<1>14. \A i \in DOMAIN P : /\ DOMAIN P[i] = Heads(q)
                           /\ ScanRow(P[i], Heads(q)) = P[i]
                           /\ P[i] = [c \in Heads(q) |-> P[i][c]]
  BY <1>1, <1>13, ScannedGroup
<1>15. P = [i \in DOMAIN P |-> P[i]]
  BY <1>11, TableIs
<1>16. A = P
  BY <1>9, <1>14, <1>15
<1>17. WithComputed(C, P) = P
  <2>1. WithComputed(C, P) = [i \in DOMAIN P |-> [c \in DOMAIN P[i] |-> P[i][c]]]
    BY <1>8 DEF WithComputed
  <2> QED
    BY <1>14, <1>15, <2>1
<1> QED
  BY <1>16, <1>17 DEF A, C, P, S, H, G, p

LEMMA GroupsAnswer ==
  ASSUME NEW q, Executed(q), NEW L, Finds(q, L), Grouping(Plan(q))
  PROVE  Answers(q)
<1> DEFINE p == Plan(q)
           H == Filtered(q.having, Grouped(q))
           N == DOMAIN H
           answer == Answer(p, dataset)
           B == WithComputed(CurrentOnly(q), answer)
           kept == KeptOf(q, B)
           sums == SumsOf(q, kept)
           groups == LeftOf(q, sums)
           sorted == SortedOf(q, groups)
           paged == PagedOf(q, sorted)
<1>1. /\ Process(p, CurrentOnly(q), answer).rows = Project(q, paged)
      /\ Process(p, CurrentOnly(q), answer).total = Len(sorted)
  BY ProcessIs
<1>2. /\ p.memory \cap {"filter_expr", "aggregate", "having", "paginate"} = {}
      /\ ~HasExpr(q.where) /\ q.aggs # {}
  BY GroupingIs
<1>3. B = Page(Sorted(p.order, Memory, H), p.offset, p.limit)
  BY GroupsAnswered
<1>4. /\ Meaning(q).total = Len(InOrderMeant(q))
      /\ Meaning(q).rows = Page(InOrderMeant(q), q.offset, q.limit)
      /\ InOrderMeant(q) = Sorted(q.orderBy, Memory, H)
      /\ IsTable(H) /\ IsTable(InOrderMeant(q))
  BY <1>2, MeaningFolds DEF InOrderMeant
<1>5. /\ p.order \in Seq(Range(p.order)) /\ q.orderBy \in Seq(Range(q.orderBy))
      /\ Coarser(<<>>, p.order, H) /\ Coarser(<<>>, q.orderBy, H)
  BY OrderOf
<1>6. /\ Pick(H, N, Ordering(p.order, H)) = Sorted(p.order, Memory, H)
      /\ Pick(H, N, Ordering(q.orderBy, H)) = Sorted(q.orderBy, Memory, H)
  BY <1>4, <1>5, AllPicked
<1>7. Len(InOrderMeant(q)) = Cardinality(N)
  <2>1. Len(InOrderMeant(q)) = Len(H)
    BY <1>4, <1>5, SortedTable
  <2>2. Len(H) \in Nat /\ N = 1..Len(H)
    BY <1>4, TableIs
  <2>3. Cardinality(1..Len(H)) = Len(H)
    <3> DEFINE n == Len(H)
    <3>1. 1 \in Int /\ n \in Int /\ n \in Nat
      BY <2>2
    <3> HIDE DEF n
    <3>2. Cardinality(1..n) = n
      BY <3>1, FS_Interval
    <3> QED
      BY <3>2 DEF n
  <2> QED
    BY <2>1, <2>2, <2>3
<1>8. "sort" \in p.memory => Meaning(q).total <= q.limit /\ q.offset = 0
  BY <1>2 DEF Executed, WellDivided, DatabaseFirst, PagePushed
<1>9. ~HasExpr(CurrentOnly(q).where)
  BY <1>2, CurrentOnlyOf DEF Executed, HasClauses
<1>10. kept = B
  <2> HIDE DEF B
  <2> QED
    BY <1>9 DEF KeptOf, When
<1>11. sums = kept
  <2> HIDE DEF kept
  <2> QED
    BY <1>2 DEF SumsOf, When
<1>12. groups = sums
  <2> HIDE DEF sums
  <2> QED
    BY <1>2 DEF LeftOf, When
<1> HIDE DEF p, H, N, B, kept, sums, groups, sorted, paged
<1>13. groups = Page(Pick(H, N, Ordering(p.order, H)), p.offset, p.limit)
  BY <1>3, <1>6, <1>10, <1>11, <1>12
<1>14. "paginate" \notin p.memory /\ ("sort" \in p.memory => Cardinality(N) <= q.limit /\ q.offset = 0)
  BY <1>2, <1>4, <1>7, <1>8
<1>15. N \subseteq DOMAIN H /\ sorted = SortedOf(q, groups) /\ paged = PagedOf(q, sorted)
  BY DEF N, sorted, paged
<1>16. /\ paged = Page(Pick(H, N, Ordering(q.orderBy, H)), q.offset, q.limit)
       /\ Len(sorted) \in Nat /\ Len(sorted) <= q.limit
  BY <1>4, <1>13, <1>14, <1>15, SortedLast DEF p
<1>17. Project(q, paged) = paged
  BY <1>2 DEF Project
<1> QED
  BY <1>1, <1>4, <1>6, <1>14, <1>16, <1>17 DEF Answers, p

\* The database and the processor between them give the rows a well
\* divided query means.
LEMMA AllAnswers ==
  ASSUME NEW q, Executed(q)
  PROVE  Answers(q)
<1>1. PICK L : Finds(q, L)
  BY FindsAll
<1>2. CASE Grouping(Plan(q))
  BY <1>1, <1>2, GroupsAnswer
<1>3. CASE ~Grouping(Plan(q)) /\ q.aggs = {}
  BY <1>1, <1>3, PlainAnswers
<1>4. CASE ~Grouping(Plan(q)) /\ q.aggs # {}
  BY <1>1, <1>4, FoldedInMemory
<1> QED
  BY <1>2, <1>3, <1>4

-------------------------------------------------------------------------------
\* One batch for each directory finds what each row would find by itself.
Found(q, X) == [i \in DOMAIN X |-> WithMeta(RefMap(q), host.knows, X[i])]

LEMMA BatchFinds ==
  ASSUME NEW q, NEW X
  PROVE  Expanded(q, X) = Found(q, X)
<1> DEFINE refs == RefMap(q)
           cache == [kind \in DOMAIN host.knows |-> Resolved(refs, X, kind)]
<1>1. \A c \in DOMAIN refs : refs[c] \in DOMAIN host.knows
  BY DEF RefMap, Restrict
<1> HIDE DEF refs
<1>2. ASSUME NEW i \in DOMAIN X
      PROVE  WithMeta(refs, cache, X[i]) = WithMeta(refs, host.knows, X[i])
  <2>1. ASSUME NEW c \in DOMAIN refs
        PROVE  Id(X[i], c) \in cache[refs[c]] <=> Id(X[i], c) \in host.knows[refs[c]]
    <3>1. cache[refs[c]] = Resolved(refs, X, refs[c])
      BY <1>1
    <3>2. Id(X[i], c) \in {Id(X[j], e) : j \in DOMAIN X, e \in {d \in DOMAIN refs : refs[d] = refs[c]}}
      OBVIOUS
    <3> QED
      BY <3>1, <3>2 DEF Resolved
  <2> HIDE DEF cache
  <2>2. {c \in DOMAIN refs : Id(X[i], c) \in cache[refs[c]]}
          = {c \in DOMAIN refs : Id(X[i], c) \in host.knows[refs[c]]}
    BY <2>1
  <2> QED
    BY <2>2 DEF WithMeta
<1>3. Expanded(q, X) = [i \in DOMAIN X |-> WithMeta(refs, cache, X[i])]
  BY DEF Expanded, refs
<1>4. Found(q, X) = [i \in DOMAIN X |-> WithMeta(refs, host.knows, X[i])]
  BY DEF Found, refs
<1> HIDE DEF cache
<1> QED
  BY <1>2, <1>3, <1>4

\* What a classic query keeps through its phases.
Finished ==
    LET result == Process(plan, CurrentOnly(query), Answer(plan, dataset))
    IN  /\ rows = IF host.expander THEN Expanded(query, result.rows) ELSE result.rows
        /\ more = HasMore(query, result.total)
Classic ==
    /\ IsQuery(query) /\ HasClauses(query) /\ folded = 0
    /\ phase \in {"query", "planned", "answered", "done", "failed"}
    /\ phase \in {"planned", "answered", "done"} => plan = Plan(query) /\ query.limit \in Nat
    /\ phase \in {"answered", "done"} => ~Refused(plan)
    /\ phase = "answered" => rows = Answer(plan, dataset)
    /\ phase = "done" => Finished
ClassicInv == Wired /\ (stages = <<>> => Classic)

LEMMA ClassicInit == Init => ClassicInv
<1> SUFFICES ASSUME Init PROVE ClassicInv
  OBVIOUS
<1>1. PICK world \in Worlds :
          (dataset = world.dataset /\ host = world.host)
          /\ \/ query \in world.queries /\ phase = "query"
             \/ stages \in world.pipes
  BY DEF Init
<1>2. Wired
  BY <1>1, WorldsAssumption DEF Wired
<1>3. ASSUME stages = <<>>
      PROVE  Classic
  <2>1. query \in world.queries /\ phase = "query"
    BY <1>1, <1>3, EngineAssumption
  <2> QED
    BY <2>1, WorldsAssumption DEF Classic, Init
<1> QED
  BY <1>2, <1>3 DEF ClassicInv

PlanWith(q, joins, raw, select) ==
    LET split == Split(q.where, Computed(q))
        groupRaw == Range(q.groupBy) \subseteq raw
        aggs == {a \in q.aggs : groupRaw /\ Pushable(a) /\ a.field \in raw}
        order == Kept(q.orderBy, {n \in DOMAIN q.orderBy :
                                     q.orderBy[n].field \in raw \ Computed(q)})
        left == (IF split.rest THEN {"filter_expr"} ELSE {})
                \cup (IF aggs # q.aggs THEN {"aggregate"} ELSE {})
                \cup (IF q.having # NoWhere /\ ~groupRaw THEN {"having"} ELSE {})
                \cup (IF order # q.orderBy THEN {"sort"} ELSE {})
                \cup (IF Computed(q) # {} THEN {"computed_columns"} ELSE {})
        paged == PagePushed(left)
    IN  [joins  |-> joins,
         select |-> select,
         where  |-> split.pushed,
         group  |-> IF groupRaw THEN q.groupBy ELSE <<>>,
         aggs   |-> aggs,
         having |-> IF groupRaw THEN q.having ELSE NoWhere,
         order  |-> order,
         limit  |-> IF paged THEN q.limit ELSE NoLimit,
         offset |-> IF paged THEN q.offset ELSE 0,
         memory |-> left \cup (IF paged THEN {} ELSE {"paginate"})]

LEMMA PlanStays ==
  ASSUME UNCHANGED <<dataset, host>>, NEW q, query' = q
  PROVE  Plan(query)' = Plan(q)
<1> DEFINE C(v) == CurrentOnly(v)
           joins(v) == PlanJoins(C(v).join)
           raw(v) == RawColumns(joins(v))
           select(v) == PlanSelect(v)
<1>1. Plan(q) = PlanWith(C(q), joins(q), raw(q), select(q))
  BY DEF Plan, PlanWith
<1>2. Plan(query)' = PlanWith(C(query)', joins(query)', raw(query)', select(query)')
  BY DEF Plan, PlanWith
<1>3. C(query)' = C(q)
  BY DEF CurrentOnly
<1>4. joins(query)' = joins(q)
  BY <1>3 DEF PlanJoins, PlanJoin
<1>5. raw(query)' = raw(q)
  BY <1>4 DEF RawColumns
<1>6. select(query)' = select(q)
  BY DEF PlanSelect
<1> QED
  BY <1>1, <1>2, <1>3, <1>4, <1>5, <1>6

LEMMA FinishedStays ==
  ASSUME UNCHANGED <<query, plan, rows, more, dataset, host>>
  PROVE  Finished' <=> Finished
<1>1. Answer(plan, dataset)' = Answer(plan, dataset)
  BY AnswerStays
<1>2. CurrentOnly(query)' = CurrentOnly(query)
  BY DEF CurrentOnly
<1>3. ASSUME NEW X
      PROVE  Expanded(query, X)' = Expanded(query, X)
  BY DEF Expanded, RefMap, Expandable, Resolved
<1> QED
  BY <1>1, <1>2, <1>3 DEF Finished

LEMMA LimitedQuery ==
  ASSUME IsQuery(query), HasClauses(query), folded = 0, stages = <<>>
  PROVE  LET q == WithDefaults(Limited(query))
         IN  IsQuery(q) /\ HasClauses(q) /\ q.limit \in Nat
<1> DEFINE q == WithDefaults(Limited(query))
           cap == IF query.limit = NoLimit THEN Min({DefaultLimit, MaxLimit})
                  ELSE Min({query.limit, MaxLimit})
<1>1. Len(stages) = 0
  OBVIOUS
<1>2. Limited(query) = query
  BY <1>1 DEF Limited
<1>3. q = [query EXCEPT !.limit = cap]
  BY <1>2 DEF WithDefaults
<1>4. cap \in Nat
  BY LesserOf, LimitsAssumption DEF HasClauses, NoLimit
<1> HIDE DEF cap, q
<1>5. /\ q.limit = cap /\ DOMAIN q = DOMAIN AllRows
      /\ q.join = query.join /\ q.select = query.select /\ q.computed = query.computed
      /\ q.where = query.where /\ q.groupBy = query.groupBy /\ q.aggs = query.aggs
      /\ q.having = query.having /\ q.orderBy = query.orderBy /\ q.offset = query.offset
  BY <1>3 DEF IsQuery, AllRows
<1>6. IsQuery(q)
  BY <1>5 DEF IsQuery
<1>7. HasClauses(q)
  BY <1>4, <1>5 DEF HasClauses, Computed
<1> QED
  BY <1>4, <1>5, <1>6, <1>7 DEF q

LEMMA ClassicNext == ClassicInv /\ [Next]_vars => ClassicInv'
<1> SUFFICES ASSUME ClassicInv, [Next]_vars PROVE ClassicInv'
  OBVIOUS
<1>1. UNCHANGED <<dataset, host, stages>>
  BY DEF Next, vars, PlanPipe, PlanQuery, Ask, Finish, ApplyStage, Return, FoldFilter,
         FoldProject, FoldSort, FoldLimit, FoldSkip, FoldGroupBy, FoldAggregate, Break, Folding
<1>2. Wired'
  BY <1>1 DEF ClassicInv, Wired
<1> SUFFICES ASSUME stages = <<>> PROVE Classic'
  BY <1>1, <1>2 DEF ClassicInv
<1>3. Classic
  BY DEF ClassicInv
<1>4. ~PlanPipe /\ ~ApplyStage /\ ~Return
  BY <1>3 DEF Classic, PlanPipe, FoldFilter, FoldProject, FoldSort, FoldLimit, FoldSkip,
              FoldGroupBy, FoldAggregate, Break, Folding, ApplyStage, Return
<1>5. CASE PlanQuery
  <2>1. /\ query' = WithDefaults(Limited(query)) /\ plan' = Plan(query')
        /\ phase' = "planned" /\ folded' = folded
    BY <1>5 DEF PlanQuery
  <2>2. IsQuery(query') /\ HasClauses(query') /\ query'.limit \in Nat
    BY <1>3, <2>1, LimitedQuery DEF Classic
  <2>3. Plan(query)' = Plan(query')
    BY <1>1, PlanStays
  <2>4. IsQuery(query)' /\ HasClauses(query)'
    BY <2>2 DEF IsQuery, HasClauses
  <2> QED
    BY <1>3, <2>1, <2>2, <2>3, <2>4 DEF Classic
<1>6. CASE Ask
  <2>1. UNCHANGED <<query, plan, folded>> /\ phase = "planned"
        /\ \/ phase' = "failed"
           \/ phase' = "answered" /\ ~Refused(plan) /\ rows' = Answer(plan, dataset)
    BY <1>6 DEF Ask
  <2>2. IsQuery(query') /\ HasClauses(query')
    BY <1>3, <2>1 DEF Classic
  <2>3. Plan(query)' = Plan(query)
    BY <1>1, <2>1, PlanStays
  <2>4. Refused(plan)' = Refused(plan)
    BY <1>1, <2>1, RefusedStays
  <2>5. Answer(plan, dataset)' = Answer(plan, dataset)
    BY <1>1, <2>1, AnswerStays
  <2> QED
    BY <1>3, <2>1, <2>2, <2>3, <2>4, <2>5 DEF Classic
<1>7. CASE Finish
  <2>1. UNCHANGED <<query, plan, folded>> /\ phase = "answered"
    BY <1>7 DEF Finish
  <2> DEFINE result == Process(plan, CurrentOnly(query), rows)
  <2>2. \/ phase' = "failed"
        \/ /\ phase' = "done"
           /\ rows' = IF host.expander THEN Expanded(query, result.rows) ELSE result.rows
           /\ more' = HasMore(query, result.total)
    BY <1>7 DEF Finish
  <2>3. IsQuery(query') /\ HasClauses(query')
    BY <1>3, <2>1 DEF Classic
  <2>4. Plan(query)' = Plan(query)
    BY <1>1, <2>1, PlanStays
  <2>5. Refused(plan)' = Refused(plan)
    BY <1>1, <2>1, RefusedStays
  <2>6. ASSUME phase' = "done"
        PROVE  Finished'
    <3>1. rows = Answer(plan, dataset)
      BY <1>3, <2>1 DEF Classic
    <3>2. Answer(plan, dataset)' = Answer(plan, dataset)
      BY <1>1, <2>1, AnswerStays
    <3>3. CurrentOnly(query)' = CurrentOnly(query)
      BY <1>1, <2>1 DEF CurrentOnly
    <3>4. ASSUME NEW X
          PROVE  Expanded(query, X)' = Expanded(query, X)
      BY <1>1, <2>1 DEF Expanded, RefMap, Expandable, Resolved
    <3> QED
      BY <1>1, <2>1, <2>2, <2>6, <3>1, <3>2, <3>3, <3>4 DEF Finished
  <2> QED
    BY <1>3, <2>1, <2>2, <2>3, <2>4, <2>5, <2>6 DEF Classic
<1>8. CASE UNCHANGED vars
  <2>1. UNCHANGED <<query, plan, dataset, host, rows, phase, more, folded>>
    BY <1>8 DEF vars
  <2>2. IsQuery(query') /\ HasClauses(query')
    BY <1>3, <2>1 DEF Classic
  <2>3. Plan(query)' = Plan(query)
    BY <2>1, PlanStays
  <2>4. Refused(plan)' = Refused(plan)
    BY <2>1, RefusedStays
  <2>5. Answer(plan, dataset)' = Answer(plan, dataset)
    BY <2>1, AnswerStays
  <2>6. Finished' <=> Finished
    BY <2>1, FinishedStays
  <2> QED
    BY <1>3, <2>1, <2>2, <2>3, <2>4, <2>5, <2>6 DEF Classic
<1> QED
  BY <1>4, <1>5, <1>6, <1>7, <1>8 DEF Next

\* What is done was answered as the query means.
LEMMA FinishedAnswers ==
  ASSUME ClassicInv, phase = "done", stages = <<>>, WellDivided(plan, query)
  PROVE  /\ plan = Plan(query) /\ query.offset \in Nat /\ query.limit \in Nat
         /\ Finished /\ Answers(query)
<1>1. Classic /\ Wired
  BY DEF ClassicInv
<1>2. plan = Plan(query) /\ Finished /\ query.limit \in Nat /\ query.offset \in Nat
  BY <1>1 DEF Classic, HasClauses
<1>3. Executed(query)
  BY <1>1, <1>2 DEF Executed, Classic
<1> QED
  BY <1>2, <1>3, AllAnswers

LEMMA ClassicAnswered == ClassicInv => QueryAnswered
<1> SUFFICES ASSUME ClassicInv, phase = "done", stages = <<>>, WellDivided(plan, query)
             PROVE  rows = [i \in DOMAIN Meaning(query).rows |-> Enriched(Meaning(query).rows[i])]
  BY DEF QueryAnswered
<1> DEFINE meant == Meaning(query).rows
           result == Process(plan, CurrentOnly(query), Answer(plan, dataset))
<1>1. Finished /\ Answers(query) /\ plan = Plan(query)
  BY FinishedAnswers
<1>2. result.rows = meant
  BY <1>1 DEF Answers
<1>3. rows = IF host.expander THEN Expanded(query, result.rows) ELSE result.rows
  BY <1>1 DEF Finished
<1>4. meant = [i \in DOMAIN meant |-> meant[i]]
  <2> DEFINE r == ProcessInMemory(query, Visible(query))
             shown == [i \in DOMAIN r.rows |-> Shown(r.rows[i])]
  <2>1. "rows" \in DOMAIN r
    BY DEF ProcessInMemory
  <2>2. Meaning(query) = [r EXCEPT !.rows = shown]
    BY DEF Meaning
  <2> HIDE DEF r
  <2>3. meant = shown
    BY <2>1, <2>2
  <2> QED
    BY <2>3
<1> HIDE DEF meant, result
<1>5. CASE host.expander
  <2>1. rows = Found(query, meant)
    BY <1>2, <1>3, <1>5, BatchFinds
  <2> QED
    BY <1>5, <2>1 DEF Found, Enriched, meant
<1>6. CASE ~host.expander
  <2>1. rows = [i \in DOMAIN meant |-> meant[i]]
    BY <1>2, <1>3, <1>4, <1>6
  <2> QED
    BY <1>6, <2>1 DEF Enriched, meant
<1> QED
  BY <1>5, <1>6

LEMMA ClassicMore == ClassicInv => MoreIsTrue
<1> SUFFICES ASSUME ClassicInv, phase = "done", stages = <<>>, WellDivided(plan, query)
             PROVE  LET there == query.limit > 0
                                 /\ query.offset + query.limit < Meaning(query).total
                    IN  /\ more => there
                        /\ "paginate" \in plan.memory => more = there
  BY DEF MoreIsTrue
<1> DEFINE total == Process(plan, CurrentOnly(query), Answer(plan, dataset)).total
           meant == Meaning(query).total
<1>1. /\ Finished /\ Answers(query) /\ plan = Plan(query)
      /\ query.offset \in Nat /\ query.limit \in Nat
  BY FinishedAnswers
<1>2. more = HasMore(query, total)
  BY <1>1 DEF Finished
<1>3. /\ "paginate" \in plan.memory => total = meant
      /\ "paginate" \notin plan.memory => total \in Nat /\ total <= query.limit
  BY <1>1 DEF Answers
<1> HIDE DEF total, meant
<1>4. more = (query.limit > 0 /\ query.offset + query.limit < total)
  BY <1>2 DEF HasMore
<1>5. ASSUME "paginate" \notin plan.memory
      PROVE  ~more
  <2>1. ~(query.offset + query.limit < total)
    BY <1>1, <1>3, <1>5
  <2> QED
    BY <1>4, <2>1, Zenon
<1> QED
  BY <1>3, <1>4, <1>5 DEF meant

\* For every dataset, join, scope and query: what the database does and
\* what is left to the processor give together the rows that the query
\* means, each with what its own references stand for (planner/planner.go,
\* sqlgen, processor/processor.go, expand/expander.go).
THEOREM QueryIsAnswered == Spec => []QueryAnswered
<1>1. Init => ClassicInv
  BY ClassicInit
<1>2. ClassicInv /\ [Next]_vars => ClassicInv'
  BY ClassicNext
<1>3. ClassicInv => QueryAnswered
  BY ClassicAnswered
<1> QED
  BY <1>1, <1>2, <1>3, PTL DEF Spec

\* has_more (exec/engine.go) promises only what is there, and is exact
\* when the page was cut in memory.
THEOREM QueryMoreIsTrue == Spec => []MoreIsTrue
<1>1. Init => ClassicInv
  BY ClassicInit
<1>2. ClassicInv /\ [Next]_vars => ClassicInv'
  BY ClassicNext
<1>3. ClassicInv => MoreIsTrue
  BY ClassicMore
<1> QED
  BY <1>1, <1>2, <1>3, PTL DEF Spec
================================================================================
