--------------------------- MODULE BookCacheProofs ---------------------------
(* Proofs about BookCache for any set of books, readers and writers, any   *)
(* capacity and any number of changes.                                     *)
EXTENDS BookCache, TLAPS, SequenceTheorems

(***************************************************************************)
(* The in-memory cache's order of use.  Lists(s, K): s is the set K, each  *)
(* key once.                                                               *)
(***************************************************************************)
Lists(s, K) ==
    /\ s \in Seq(Books)
    /\ \A i, j \in 1 .. Len(s) : s[i] = s[j] => i = j
    /\ \A k \in Books : k \in K <=> \E i \in 1 .. Len(s) : s[i] = k

(* What is left when one position is taken out of a sequence.              *)
LEMMA RemoveAtIs ==
    ASSUME NEW S, NEW s \in Seq(S), NEW i \in 1 .. Len(s)
    PROVE  /\ RemoveAt(s, i) \in Seq(S)
           /\ Len(RemoveAt(s, i)) = Len(s) - 1
           /\ \A j \in 1 .. Len(s) - 1 :
                 RemoveAt(s, i)[j] = IF j < i THEN s[j] ELSE s[j + 1]
<1> DEFINE a == SubSeq(s, 1, i - 1)
           z == SubSeq(s, i + 1, Len(s))
           n == Len(s)
<1>1. n \in Nat /\ i \in Nat /\ 1 <= i /\ i <= n
  OBVIOUS
<1>2. \A j \in 1 .. n : s[j] \in S
  BY ElementOfSeq
<1>3. /\ a \in Seq(S) /\ Len(a) = i - 1
      /\ \A j \in 1 .. i - 1 : a[j] = s[j]
  <2>1. \A j \in 1 .. i - 1 : s[j] \in S
    BY <1>1, <1>2
  <2>2. /\ a \in Seq(S) /\ Len(a) = IF 1 <= i - 1 THEN (i - 1) - 1 + 1 ELSE 0
        /\ \A j \in 1 .. (i - 1) - 1 + 1 : a[j] = s[1 + j - 1]
    BY <1>1, <2>1, SubSeqProperties
  <2> HIDE DEF a
  <2>3. (IF 1 <= i - 1 THEN (i - 1) - 1 + 1 ELSE 0) = i - 1
    BY <1>1
  <2>4. \A j \in 1 .. i - 1 : 1 + j - 1 = j /\ j \in 1 .. (i - 1) - 1 + 1
    BY <1>1
  <2> QED
    BY <2>2, <2>3, <2>4
<1>4. /\ z \in Seq(S) /\ Len(z) = n - i
      /\ \A j \in 1 .. n - i : z[j] = s[i + j]
  <2>1. \A j \in i + 1 .. n : s[j] \in S
    BY <1>1, <1>2
  <2>2. /\ z \in Seq(S) /\ Len(z) = IF i + 1 <= n THEN n - (i + 1) + 1 ELSE 0
        /\ \A j \in 1 .. n - (i + 1) + 1 : z[j] = s[(i + 1) + j - 1]
    BY <1>1, <2>1, SubSeqProperties
  <2> HIDE DEF z, n
  <2>3. (IF i + 1 <= n THEN n - (i + 1) + 1 ELSE 0) = n - i
    BY <1>1
  <2>4. \A j \in 1 .. n - i : (i + 1) + j - 1 = i + j /\ j \in 1 .. n - (i + 1) + 1
    BY <1>1
  <2> QED
    BY <2>2, <2>3, <2>4
<1>5. RemoveAt(s, i) = a \o z
  BY DEF RemoveAt
<1> HIDE DEF a, z
<1>6. /\ a \o z \in Seq(S) /\ Len(a \o z) = Len(a) + Len(z)
      /\ \A j \in 1 .. Len(a) + Len(z) :
            (a \o z)[j] = IF j <= Len(a) THEN a[j] ELSE z[j - Len(a)]
  BY <1>3, <1>4, ConcatProperties
<1> HIDE DEF n
<1>7. Len(a) + Len(z) = n - 1
  BY <1>1, <1>3, <1>4
<1>8. ASSUME NEW j \in 1 .. n - 1
      PROVE  (a \o z)[j] = IF j < i THEN s[j] ELSE s[j + 1]
  <2>1. (a \o z)[j] = IF j <= i - 1 THEN a[j] ELSE z[j - (i - 1)]
    BY <1>3, <1>6, <1>7
  <2>2. CASE j < i
    BY <1>1, <1>3, <2>1, <2>2
  <2>3. CASE ~ (j < i)
    <3>1. j - (i - 1) \in 1 .. n - i /\ i + (j - (i - 1)) = j + 1 /\ ~ (j <= i - 1)
      BY <1>1, <2>3
    <3>2. z[j - (i - 1)] = s[j + 1]
      BY <1>4, <3>1
    <3> QED
      BY <2>1, <2>3, <3>1, <3>2
  <2> QED
    BY <2>2, <2>3
<1> QED
  BY <1>5, <1>6, <1>7, <1>8 DEF n

(* pop(key), whether or not the key is there.                              *)
LEMMA WithoutLists ==
    ASSUME NEW K \in SUBSET Books, Lists(order, K), NEW b \in Books
    PROVE  /\ Lists(Without(b), K \ {b})
           /\ Len(Without(b)) = IF b \in K THEN Len(order) - 1 ELSE Len(order)
<1> DEFINE n == Len(order)
<1>1. order \in Seq(Books) /\ n \in Nat /\ DOMAIN order = 1 .. n
  BY DEF Lists
<1>2. CASE b \notin K
  <2>1. {i \in DOMAIN order : order[i] = b} = {}
    BY <1>1, <1>2 DEF Lists
  <2>2. Without(b) = order /\ K \ {b} = K
    BY <1>2, <2>1 DEF Without
  <2> QED
    BY <1>2, <2>2
<1>3. CASE b \in K
  <2> DEFINE at == {i \in DOMAIN order : order[i] = b}
  <2>1. at # {}
    BY <1>1, <1>3 DEF Lists
  <2>2. PICK p : p = CHOOSE i \in at : TRUE
    OBVIOUS
  <2>3. p \in at /\ Without(b) = RemoveAt(order, p)
    BY <2>1, <2>2 DEF Without
  <2>4. p \in 1 .. n /\ order[p] = b
    BY <1>1, <2>3
  <2> DEFINE t == RemoveAt(order, p)
  <2>5. /\ t \in Seq(Books) /\ Len(t) = n - 1
        /\ \A j \in 1 .. n - 1 : t[j] = IF j < p THEN order[j] ELSE order[j + 1]
    BY <1>1, <2>4, RemoveAtIs
  <2> HIDE DEF t, n, at
  <2>6. \A j \in 1 .. n - 1 :
          \E m \in 1 .. n : m # p /\ t[j] = order[m] /\ m = (IF j < p THEN j ELSE j + 1)
    BY <1>1, <2>4, <2>5
  <2>7. \A m \in 1 .. n : m # p => \E j \in 1 .. n - 1 : t[j] = order[m]
    <3> SUFFICES ASSUME NEW m \in 1 .. n, m # p
                 PROVE  \E j \in 1 .. n - 1 : t[j] = order[m]
      OBVIOUS
    <3>1. CASE m < p
      <4>1. m \in 1 .. n - 1
        BY <1>1, <2>4, <3>1
      <4> QED
        BY <2>5, <3>1, <4>1
    <3>2. CASE m > p
      <4>1. m - 1 \in 1 .. n - 1 /\ ~ (m - 1 < p) /\ (m - 1) + 1 = m
        BY <1>1, <2>4, <3>2
      <4> QED
        BY <2>5, <4>1
    <3> QED
      BY <1>1, <2>4, <3>1, <3>2
  <2>8. \A i, j \in 1 .. n - 1 : t[i] = t[j] => i = j
    <3> SUFFICES ASSUME NEW i \in 1 .. n - 1, NEW j \in 1 .. n - 1, t[i] = t[j]
                 PROVE  i = j
      OBVIOUS
    <3>1. PICK m \in 1 .. n : t[i] = order[m] /\ m = (IF i < p THEN i ELSE i + 1)
      BY <2>6
    <3>2. PICK q \in 1 .. n : t[j] = order[q] /\ q = (IF j < p THEN j ELSE j + 1)
      BY <2>6
    <3>3. m = q
      BY <3>1, <3>2 DEF Lists, n
    <3> QED
      BY <1>1, <2>4, <3>1, <3>2, <3>3
  <2>9. \A k \in Books : k \in K \ {b} <=> \E j \in 1 .. n - 1 : t[j] = k
    <3>1. \A m \in 1 .. n : order[m] = b <=> m = p
      BY <2>4 DEF Lists, n
    <3>2. \A k \in Books : k \in K <=> \E m \in 1 .. n : order[m] = k
      BY DEF Lists, n
    <3> QED
      BY <2>6, <2>7, <3>1, <3>2
  <2> QED
    BY <1>3, <2>3, <2>5, <2>8, <2>9 DEF Lists, t, n
<1> QED
  BY <1>2, <1>3

(* A key is added at the end.                                              *)
LEMMA AppendLists ==
    ASSUME NEW s, NEW K \in SUBSET Books, Lists(s, K), NEW b \in Books, b \notin K
    PROVE  Lists(Append(s, b), K \cup {b}) /\ Len(Append(s, b)) = Len(s) + 1
<1> DEFINE n == Len(s)
           t == Append(s, b)
<1>1. s \in Seq(Books) /\ n \in Nat
  BY DEF Lists
<1>2. /\ t \in Seq(Books) /\ Len(t) = n + 1
      /\ \A i \in 1 .. n : t[i] = s[i]
      /\ t[n + 1] = b
  BY <1>1, AppendProperties
<1> HIDE DEF t, n
<1>3. \A i \in 1 .. n : s[i] # b
  BY DEF Lists, n
<1>4. \A i \in 1 .. n + 1 : i \in 1 .. n \/ i = n + 1
  BY <1>1
<1>5. 1 .. n \subseteq 1 .. n + 1 /\ n + 1 \in 1 .. n + 1
  BY <1>1
<1>6. \A i, j \in 1 .. n + 1 : t[i] = t[j] => i = j
  BY <1>2, <1>3, <1>4 DEF Lists, n
<1>7. \A k \in Books : k \in K \cup {b} <=> \E i \in 1 .. n + 1 : t[i] = k
  BY <1>2, <1>4, <1>5 DEF Lists, n
<1> QED
  BY <1>2, <1>6, <1>7 DEF Lists, t, n

(* popitem(last=False).                                                    *)
LEMMA TailLists ==
    ASSUME NEW s, NEW K \in SUBSET Books, Lists(s, K), s # <<>>
    PROVE  /\ Head(s) \in K
           /\ Lists(Tail(s), K \ {Head(s)}) /\ Len(Tail(s)) = Len(s) - 1
<1> DEFINE n == Len(s)
           t == Tail(s)
<1>1. s \in Seq(Books) /\ n \in Nat /\ n > 0 /\ Head(s) = s[1]
  BY DEF Lists
<1>2. /\ Head(s) \in Books /\ t \in Seq(Books) /\ Len(t) = n - 1
      /\ \A i \in 1 .. n - 1 : t[i] = s[i + 1]
  BY <1>1, HeadTailProperties
<1> HIDE DEF t, n
<1>3. 1 \in 1 .. n /\ \A i \in 1 .. n - 1 : i + 1 \in 1 .. n /\ i + 1 # 1
  BY <1>1
<1>4. \A m \in 1 .. n : m # 1 => m - 1 \in 1 .. n - 1 /\ (m - 1) + 1 = m
  BY <1>1
<1>5. Head(s) \in K
  BY <1>1, <1>2, <1>3 DEF Lists, n
<1>6. ASSUME NEW i \in 1 .. n - 1, NEW j \in 1 .. n - 1, t[i] = t[j]
      PROVE  i = j
  <2>1. i + 1 = j + 1
    BY <1>2, <1>3, <1>6 DEF Lists, n
  <2> QED
    BY <1>1, <2>1
<1>7. \A m \in 1 .. n : s[m] = Head(s) <=> m = 1
  BY <1>1, <1>3 DEF Lists, n
<1>8. \A k \in Books : k \in K \ {Head(s)} <=> \E i \in 1 .. n - 1 : t[i] = k
  <2>1. \A k \in Books : k \in K <=> \E m \in 1 .. n : s[m] = k
    BY DEF Lists, n
  <2> QED
    BY <1>2, <1>3, <1>4, <1>7, <2>1
<1> QED
  BY <1>2, <1>5, <1>6, <1>8 DEF Lists, t, n

-----------------------------------------------------------------------------
(***************************************************************************)
(* The inductive invariant: the store is well formed and the in-memory     *)
(* dictionary within its capacity (StoreOK), the requests hold what their  *)
(* next step needs (RequestsOK), and outside the recorded races an entry   *)
(* or a loaded value is the committed one, unless its writer is about to   *)
(* invalidate (Fresh).                                                     *)
(***************************************************************************)
Cached == {b \in Books : entry[b] # None}

StoreOK ==
    /\ entry \in [Books -> (1 .. MaxVersion) \cup {None}]
    /\ expired \in [Books -> BOOLEAN]
    /\ order \in Seq(Books)
    /\ backend = "memory" => Len(order) <= Capacity /\ Lists(order, Cached)

RequestsOK ==
    /\ backend \in Backends /\ up \in BOOLEAN /\ open \in BOOLEAN
    /\ db \in [Books -> 0 .. MaxVersion]
    /\ rpc \in [Readers -> {"idle", "load", "store"}]
    /\ rkey \in [Readers -> Books \cup {None}]
    /\ loaded \in [Readers -> 0 .. MaxVersion]
    /\ wpc \in [Writers -> {"idle", "invalidate", "commit"}]
    /\ wkey \in [Writers -> Books \cup {None}]
    /\ raced \subseteq Books
    /\ \A r \in Readers : rpc[r] # "idle" => rkey[r] \in Books
    /\ \A r \in Readers : rpc[r] = "store" => loaded[r] # 0
    /\ \A w \in Writers : wpc[w] # "idle" => wkey[w] \in Books

Fresh ==
    \A b \in Books \ raced :
        /\ entry[b] # None => entry[b] = db[b] \/ Editing(b)
        /\ \A r \in Readers : rpc[r] = "store" /\ rkey[r] = b => loaded[r] = db[b]

CacheInv == StoreOK /\ RequestsOK /\ Fresh

(* The invariant gives the type invariant and the freshness property.      *)
LEMMA CacheImplies == CacheInv => TypeOK /\ StaleOnlyByRace
<1> SUFFICES ASSUME CacheInv PROVE TypeOK /\ StaleOnlyByRace
  OBVIOUS
<1>1. backend = "memory" => ToSet(order) = {b \in Books : entry[b] # None}
  <2> SUFFICES ASSUME backend = "memory"
               PROVE  ToSet(order) = {b \in Books : entry[b] # None}
    OBVIOUS
  <2>1. Lists(order, Cached) /\ order \in Seq(Books)
    BY DEF CacheInv, StoreOK
  <2>2. /\ DOMAIN order = 1 .. Len(order)
        /\ \A i \in 1 .. Len(order) : order[i] \in Books
    BY <2>1
  <2>3. \A k \in Books : entry[k] # None <=> \E i \in 1 .. Len(order) : order[i] = k
    BY <2>1 DEF Lists, Cached
  <2> QED
    BY <2>2, <2>3 DEF ToSet
<1>2. TypeOK
  BY <1>1 DEF CacheInv, StoreOK, RequestsOK, TypeOK
<1>3. StaleOnlyByRace
  BY DEF CacheInv, Fresh, StaleOnlyByRace, Served
<1> QED
  BY <1>2, <1>3

(* An empty cache and idle requests.                                       *)
LEMMA InitCache == Init => CacheInv
<1> SUFFICES ASSUME Init PROVE CacheInv
  OBVIOUS
<1>1. Lists(order, Cached) /\ order \in Seq(Books) /\ Len(order) = 0
  <2>1. order = <<>> /\ order \in Seq(Books) /\ Len(order) = 0 /\ Cached = {}
    BY DEF Init, Cached
  <2> QED
    BY <2>1 DEF Lists
<1>2. StoreOK
  BY <1>1, CacheAssumption DEF Init, StoreOK
<1>3. RequestsOK
  <2>1. backend \in Backends /\ up \in BOOLEAN /\ open \in BOOLEAN
    BY DEF Init
  <2>2. 0 \in 0 .. MaxVersion
    BY CacheAssumption
  <2>3. db \in [Books -> 0 .. MaxVersion] /\ loaded \in [Readers -> 0 .. MaxVersion]
    BY <2>2 DEF Init
  <2>4. /\ rpc \in [Readers -> {"idle", "load", "store"}]
        /\ rkey \in [Readers -> Books \cup {None}]
        /\ \A r \in Readers : rpc[r] = "idle"
    BY DEF Init
  <2>5. /\ wpc \in [Writers -> {"idle", "invalidate", "commit"}]
        /\ wkey \in [Writers -> Books \cup {None}]
        /\ \A w \in Writers : wpc[w] = "idle"
    BY DEF Init
  <2>6. raced \subseteq Books
    BY DEF Init
  <2> QED
    BY <2>1, <2>3, <2>4, <2>5, <2>6 DEF RequestsOK
<1>4. Fresh
  BY DEF Init, Fresh
<1> QED
  BY <1>2, <1>3, <1>4 DEF CacheInv

(* Dropping a key leaves a well formed store.                              *)
LEMMA DropStore ==
    ASSUME StoreOK, NEW b \in Books, UNCHANGED backend,
           entry' = [entry EXCEPT ![b] = None],
           expired' = [expired EXCEPT ![b] = FALSE],
           order' = Without(b)
    PROVE  StoreOK'
<1>1. entry' \in [Books -> (1 .. MaxVersion) \cup {None}] /\ expired' \in [Books -> BOOLEAN]
  BY DEF StoreOK
<1>2. order' \in Seq(Books)
  <2> DEFINE at == {i \in DOMAIN order : order[i] = b}
  <2>1. order \in Seq(Books) /\ DOMAIN order = 1 .. Len(order)
    BY DEF StoreOK
  <2>2. CASE at = {}
    BY <2>1, <2>2 DEF Without
  <2>3. CASE at # {}
    <3>1. PICK p : p = CHOOSE i \in at : TRUE
      OBVIOUS
    <3>2. p \in at /\ order' = RemoveAt(order, p)
      BY <2>3, <3>1 DEF Without
    <3> QED
      BY <2>1, <3>2, RemoveAtIs
  <2> QED
    BY <2>2, <2>3
<1>3. ASSUME backend = "memory"
      PROVE  Len(order') <= Capacity /\ Lists(order', Cached')
  <2>1. Cached' = Cached \ {b} /\ Cached \in SUBSET Books
    BY DEF Cached, StoreOK
  <2>2. Lists(order, Cached) /\ Len(order) <= Capacity /\ Len(order) \in Nat
    BY <1>3 DEF StoreOK
  <2>3. /\ Lists(order', Cached \ {b})
        /\ Len(order') = IF b \in Cached THEN Len(order) - 1 ELSE Len(order)
    BY <2>1, <2>2, WithoutLists
  <2>4. Len(order') <= Capacity
    BY <2>2, <2>3, CacheAssumption
  <2> QED
    BY <2>1, <2>3, <2>4
<1> QED
  BY <1>1, <1>2, <1>3 DEF StoreOK

(* The in-memory cache on a hit, and on a set of a key that it has or has  *)
(* room for.                                                               *)
LEMMA TouchLists ==
    ASSUME StoreOK, backend = "memory", NEW b \in Books,
           b \in Cached \/ Len(order) < Capacity
    PROVE  Touch(b) \in Seq(Books) /\ Lists(Touch(b), Cached \cup {b})
           /\ Len(Touch(b)) <= Capacity
<1>1. /\ Lists(order, Cached) /\ Len(order) <= Capacity /\ Len(order) \in Nat
      /\ Cached \in SUBSET Books
  BY DEF StoreOK, Cached
<1>2. /\ Lists(Without(b), Cached \ {b})
      /\ Len(Without(b)) = IF b \in Cached THEN Len(order) - 1 ELSE Len(order)
  BY <1>1, WithoutLists
<1>3. /\ Lists(Touch(b), (Cached \ {b}) \cup {b})
      /\ Len(Touch(b)) = Len(Without(b)) + 1
  BY <1>2, AppendLists DEF Touch, Cached
<1>4. (Cached \ {b}) \cup {b} = Cached \cup {b}
  OBVIOUS
<1>5. Len(Touch(b)) <= Capacity
  BY <1>1, <1>2, <1>3, CacheAssumption
<1> QED
  BY <1>3, <1>4, <1>5 DEF Lists

(* set, with the eviction it may cause.                                    *)
LEMMA SetStore ==
    ASSUME StoreOK, NEW b \in Books, NEW v \in 1 .. MaxVersion, UNCHANGED backend,
           Stored(b, v)
    PROVE  StoreOK'
<1>0. v # None
  BY CacheAssumption
<1>1. entry' \in [Books -> (1 .. MaxVersion) \cup {None}] /\ expired' \in [Books -> BOOLEAN]
  BY DEF StoreOK, Stored
<1>2. CASE backend # "memory"
  BY <1>1, <1>2 DEF StoreOK, Stored
<1>3. CASE backend = "memory" /\ Evicted(b) = {}
  <2>1. Cached' = Cached \cup {b}
    BY <1>0, <1>3 DEF Stored, Cached, StoreOK
  <2>2. b \in Cached \/ Len(order) < Capacity
    BY <1>3, CacheAssumption DEF Evicted, Cached, StoreOK
  <2>3. order' = Touch(b)
    BY <1>3 DEF Stored
  <2> QED
    BY <1>1, <1>3, <2>1, <2>2, <2>3, TouchLists DEF StoreOK
<1>4. CASE backend = "memory" /\ Evicted(b) # {}
  <2> DEFINE h == Head(order)
  <2>1. /\ entry[b] = None /\ b \notin Cached /\ Len(order) >= Capacity
        /\ Evicted(b) = {h}
    BY <1>4 DEF Evicted, Cached
  <2>2. /\ Lists(order, Cached) /\ Len(order) <= Capacity /\ Len(order) \in Nat
        /\ Cached \in SUBSET Books /\ order \in Seq(Books)
    BY <1>4 DEF StoreOK, Cached
  <2>3. order # <<>>
    BY <2>1, <2>2, CacheAssumption
  <2>4. h \in Cached /\ Lists(Tail(order), Cached \ {h}) /\ Len(Tail(order)) = Len(order) - 1
    BY <2>2, <2>3, TailLists
  <2>5. order' = Append(Tail(order), b)
    BY <1>4 DEF Stored
  <2>6. Cached' = (Cached \ {h}) \cup {b}
    BY <1>0, <2>1, <2>4 DEF Stored, Cached, StoreOK
  <2>7. Lists(order', Cached') /\ Len(order') = Len(Tail(order)) + 1
    <3> HIDE DEF h
    <3>1. Cached \ {h} \in SUBSET Books /\ b \notin Cached \ {h}
      BY <2>1, <2>2
    <3> QED
      BY <2>4, <2>5, <2>6, <3>1, AppendLists
  <2>8. Len(order') <= Capacity
    BY <2>2, <2>4, <2>7, CacheAssumption
  <2>9. order' \in Seq(Books)
    BY <2>7 DEF Lists
  <2> QED
    BY <1>1, <2>7, <2>8, <2>9 DEF StoreOK
<1> QED
  BY <1>2, <1>3, <1>4

(* Every step of every reader, writer, of time and of Redis.               *)
LEMMA NextCache == CacheInv /\ [Next]_vars => CacheInv'
<1> SUFFICES ASSUME CacheInv, [Next]_vars PROVE CacheInv'
  OBVIOUS
<1>0. StoreOK /\ RequestsOK /\ Fresh
  BY DEF CacheInv
<1>1. ASSUME NEW r \in Readers, NEW b \in Books, Hit(r, b) PROVE CacheInv'
  <2>1. UNCHANGED <<backend, up, open, db, entry, expired, rpc, rkey, loaded, wpc, wkey, raced>>
    BY <1>1 DEF Hit, redis, reading, writing
  <2>2. RequestsOK' /\ Fresh'
    BY <1>0, <2>1 DEF RequestsOK, Fresh, Editing
  <2>3. StoreOK'
    <3>1. CASE backend # "memory"
      BY <1>0, <1>1, <2>1, <3>1 DEF Hit, StoreOK
    <3>2. CASE backend = "memory"
      <4>1. b \in Cached /\ Cached \cup {b} = Cached /\ Cached' = Cached
        BY <1>1, <2>1 DEF Hit, Served, Cached
      <4>2. order' = Touch(b)
        BY <1>1, <3>2 DEF Hit
      <4> QED
        BY <1>0, <2>1, <3>2, <4>1, <4>2, TouchLists DEF StoreOK
    <3> QED
      BY <3>1, <3>2
  <2> QED
    BY <2>2, <2>3 DEF CacheInv
<1>2. ASSUME NEW r \in Readers, NEW b \in Books, Miss(r, b) PROVE CacheInv'
  <2>1. /\ UNCHANGED <<backend, up, open, db, loaded, wpc, wkey, raced>>
        /\ rpc[r] = "idle" /\ rpc' = [rpc EXCEPT ![r] = "load"]
        /\ rkey' = [rkey EXCEPT ![r] = b]
    BY <1>2 DEF Miss, redis, writing
  <2>2. RequestsOK'
    BY <1>0, <2>1 DEF RequestsOK
  <2>3. StoreOK'
    <3>1. CASE Reachable
      BY <1>0, <1>2, <2>1, <3>1, DropStore DEF Miss
    <3>2. CASE ~ Reachable
      BY <1>0, <1>2, <2>1, <3>2 DEF Miss, store, StoreOK, Cached
    <3> QED
      BY <3>1, <3>2
  <2>4. \A k \in Books : entry'[k] = None \/ entry'[k] = entry[k]
    BY <1>0, <1>2 DEF Miss, store, StoreOK
  <2>5. Fresh'
    BY <1>0, <2>1, <2>4 DEF Fresh, Editing, RequestsOK
  <2> QED
    BY <2>2, <2>3, <2>5 DEF CacheInv
<1>3. ASSUME NEW r \in Readers, Load(r) PROVE CacheInv'
  <2>1. UNCHANGED <<backend, up, open, db, entry, expired, order, wpc, wkey, raced>>
    BY <1>3 DEF Load, redis, store, writing
  <2>2. rkey[r] \in Books /\ db[rkey[r]] \in 0 .. MaxVersion
    BY <1>0, <1>3 DEF Load, RequestsOK
  <2>3. StoreOK'
    BY <1>0, <2>1 DEF StoreOK, Cached
  <2>4. RequestsOK'
    BY <1>0, <1>3, <2>1, <2>2 DEF Load, RequestsOK
  <2>5. Fresh'
    BY <1>0, <1>3, <2>1, <2>2 DEF Load, Fresh, Editing, RequestsOK
  <2> QED
    BY <2>3, <2>4, <2>5 DEF CacheInv
<1>4. ASSUME NEW r \in Readers, Store(r) PROVE CacheInv'
  <2>1. /\ UNCHANGED <<backend, up, open, db, wpc, wkey, raced>>
        /\ rpc[r] = "store" /\ rpc' = [rpc EXCEPT ![r] = "idle"]
        /\ rkey' = [rkey EXCEPT ![r] = None] /\ loaded' = [loaded EXCEPT ![r] = 0]
    BY <1>4 DEF Store, redis, writing
  <2>2. rkey[r] \in Books /\ loaded[r] \in 1 .. MaxVersion
    BY <1>0, <2>1 DEF RequestsOK
  <2>3. RequestsOK'
    BY <1>0, <2>1, CacheAssumption DEF RequestsOK
  <2>4. StoreOK'
    <3>1. CASE Reachable
      BY <1>0, <1>4, <2>1, <2>2, <3>1, SetStore DEF Store
    <3>2. CASE ~ Reachable
      BY <1>0, <1>4, <2>1, <3>2 DEF Store, store, StoreOK, Cached
    <3> QED
      BY <3>1, <3>2
  <2>5. \A k \in Books : \/ entry'[k] = None \/ entry'[k] = entry[k]
                         \/ k = rkey[r] /\ entry'[k] = loaded[r]
    BY <1>0, <1>4 DEF Store, Stored, store, StoreOK
  <2>6. Fresh'
    BY <1>0, <2>1, <2>2, <2>5 DEF Fresh, Editing, RequestsOK
  <2> QED
    BY <2>3, <2>4, <2>6 DEF CacheInv
<1>5. ASSUME NEW w \in Writers, ChangeInvalidate(w) PROVE CacheInv'
  <2>1. /\ UNCHANGED <<backend, up, open, db, rpc, rkey, loaded>>
        /\ wpc[w] = "invalidate" /\ wpc' = [wpc EXCEPT ![w] = "idle"]
        /\ wkey' = [wkey EXCEPT ![w] = None]
    BY <1>5 DEF ChangeInvalidate, redis, reading
  <2>2. PICK b \in Books : b = wkey[w]
    BY <1>0, <2>1 DEF RequestsOK
  <2>3. Invalidate(b)
    BY <1>5, <2>2 DEF ChangeInvalidate
  <2>4. \/ /\ entry' = [entry EXCEPT ![b] = None] /\ expired' = [expired EXCEPT ![b] = FALSE]
           /\ order' = Without(b) /\ raced' = raced
        \/ raced' = raced \cup {b} /\ UNCHANGED <<entry, expired, order>>
    BY <2>3 DEF Invalidate, store
  <2>5. StoreOK'
    <3>1. CASE UNCHANGED <<entry, expired, order>>
      BY <1>0, <2>1, <3>1 DEF StoreOK, Cached
    <3> QED
      BY <1>0, <2>1, <2>4, <3>1, DropStore
  <2>6. RequestsOK'
    BY <1>0, <2>1, <2>4 DEF RequestsOK
  <2>7. \A k \in Books \ {b} : Editing(k) => Editing(k)'
    BY <1>0, <2>1, <2>2 DEF Editing, RequestsOK
  <2>8. Fresh'
    BY <1>0, <2>1, <2>4, <2>7 DEF Fresh, StoreOK
  <2> QED
    BY <2>5, <2>6, <2>8 DEF CacheInv
<1>6. ASSUME NEW w \in Writers, NEW b \in Books, ChangeCommit(w, b) PROVE CacheInv'
  <2>1. /\ UNCHANGED <<backend, up, open, entry, expired, order, rpc, rkey, loaded>>
        /\ wpc[w] = "idle" /\ wpc' = [wpc EXCEPT ![w] = "invalidate"]
        /\ wkey' = [wkey EXCEPT ![w] = b]
        /\ db[b] < MaxVersion /\ db' = [db EXCEPT ![b] = @ + 1]
        /\ raced' = IF Loading(b) THEN raced \cup {b} ELSE raced
    BY <1>6 DEF ChangeCommit, redis, store, reading
  <2>2. StoreOK'
    BY <1>0, <2>1 DEF StoreOK, Cached
  <2>3. RequestsOK'
    BY <1>0, <2>1, CacheAssumption DEF RequestsOK
  <2>4. Editing(b)' /\ \A k \in Books : Editing(k) => Editing(k)'
    BY <1>0, <2>1 DEF Editing, RequestsOK
  <2>5. Fresh'
    BY <1>0, <2>1, <2>4 DEF Fresh, RequestsOK, Loading
  <2> QED
    BY <2>2, <2>3, <2>5 DEF CacheInv
<1>7. ASSUME NEW b \in Books, MoveCopy(b) PROVE CacheInv'
  <2>1. /\ UNCHANGED <<backend, up, open, entry, expired, order, rpc, rkey, loaded, wpc, wkey>>
        /\ db[b] < MaxVersion /\ db' = [db EXCEPT ![b] = @ + 1]
        /\ raced' = raced \cup {b}
    BY <1>7 DEF MoveCopy, redis, store, reading, writing
  <2>2. StoreOK'
    BY <1>0, <2>1 DEF StoreOK, Cached
  <2>3. RequestsOK'
    BY <1>0, <2>1, CacheAssumption DEF RequestsOK
  <2>4. Fresh'
    BY <1>0, <2>1 DEF Fresh, RequestsOK, Editing
  <2> QED
    BY <2>2, <2>3, <2>4 DEF CacheInv
<1>8. ASSUME NEW w \in Desks, DeskCommit(w) PROVE CacheInv'
  <2>0. w \in Writers
    BY DEF Writers
  <2>1. PICK b : b = wkey[w]
    OBVIOUS
  <2>2. /\ UNCHANGED <<backend, up, open, entry, expired, order, rpc, rkey, loaded>>
        /\ wpc[w] = "commit" /\ wpc' = [wpc EXCEPT ![w] = "idle"]
        /\ wkey' = [wkey EXCEPT ![w] = None]
        /\ db[b] < MaxVersion /\ db' = [db EXCEPT ![b] = @ + 1]
        /\ raced' = IF Loading(b) \/ entry[b] # None THEN raced \cup {b} ELSE raced
    BY <1>8, <2>1 DEF DeskCommit, redis, store, reading
  <2>3. b \in Books
    BY <1>0, <2>0, <2>1, <2>2 DEF RequestsOK
  <2>4. StoreOK'
    BY <1>0, <2>2 DEF StoreOK, Cached
  <2>5. RequestsOK'
    BY <1>0, <2>0, <2>2, <2>3, CacheAssumption DEF RequestsOK
  <2>6. \A k \in Books : Editing(k) => Editing(k)'
    BY <1>0, <2>0, <2>2 DEF Editing, RequestsOK
  <2>7. Fresh'
    BY <1>0, <2>2, <2>3, <2>6 DEF Fresh, RequestsOK, Loading
  <2> QED
    BY <2>4, <2>5, <2>7 DEF CacheInv
<1>9. ASSUME NEW w \in Desks, DeskRollback(w) PROVE CacheInv'
  <2>0. w \in Writers
    BY DEF Writers
  <2>1. /\ UNCHANGED <<backend, up, open, db, entry, expired, order, rpc, rkey, loaded, raced>>
        /\ wpc[w] = "commit" /\ wpc' = [wpc EXCEPT ![w] = "idle"]
        /\ wkey' = [wkey EXCEPT ![w] = None]
    BY <1>9 DEF DeskRollback, redis, store, reading
  <2>2. StoreOK'
    BY <1>0, <2>1 DEF StoreOK, Cached
  <2>3. RequestsOK'
    BY <1>0, <2>0, <2>1 DEF RequestsOK
  <2>4. \A k \in Books : Editing(k) => Editing(k)'
    BY <1>0, <2>0, <2>1 DEF Editing, RequestsOK
  <2>5. Fresh'
    BY <1>0, <2>1, <2>4 DEF Fresh
  <2> QED
    BY <2>2, <2>3, <2>5 DEF CacheInv
<1>10. ASSUME NEW w \in Desks, NEW b \in Books, DeskInvalidate(w, b) PROVE CacheInv'
  <2>0. w \in Writers
    BY DEF Writers
  <2>1. /\ UNCHANGED <<backend, up, open, db, rpc, rkey, loaded>>
        /\ wpc[w] = "idle" /\ wpc' = [wpc EXCEPT ![w] = "commit"]
        /\ wkey' = [wkey EXCEPT ![w] = b]
    BY <1>10 DEF DeskInvalidate, redis, reading
  <2>2. \/ /\ entry' = [entry EXCEPT ![b] = None] /\ expired' = [expired EXCEPT ![b] = FALSE]
           /\ order' = Without(b) /\ raced' = raced
        \/ raced' = raced \cup {b} /\ UNCHANGED <<entry, expired, order>>
    BY <1>10 DEF DeskInvalidate, Invalidate, store
  <2>3. StoreOK'
    <3>1. CASE UNCHANGED <<entry, expired, order>>
      BY <1>0, <2>1, <3>1 DEF StoreOK, Cached
    <3> QED
      BY <1>0, <2>1, <2>2, <3>1, DropStore
  <2>4. RequestsOK'
    BY <1>0, <2>0, <2>1, <2>2 DEF RequestsOK
  <2>5. \A k \in Books : Editing(k) => Editing(k)'
    BY <1>0, <2>0, <2>1 DEF Editing, RequestsOK
  <2>6. Fresh'
    BY <1>0, <2>1, <2>2, <2>5 DEF Fresh, StoreOK
  <2> QED
    BY <2>3, <2>4, <2>6 DEF CacheInv
<1>11. ASSUME NEW b \in Books, Expire(b) PROVE CacheInv'
  <2>1. /\ UNCHANGED <<backend, up, open, db, entry, order, rpc, rkey, loaded, wpc, wkey, raced>>
        /\ expired' = [expired EXCEPT ![b] = TRUE]
    BY <1>11 DEF Expire, redis, reading, writing
  <2>2. StoreOK'
    BY <1>0, <2>1 DEF StoreOK, Cached
  <2>3. RequestsOK' /\ Fresh'
    BY <1>0, <2>1 DEF RequestsOK, Fresh, Editing
  <2> QED
    BY <2>2, <2>3 DEF CacheInv
<1>12. ASSUME Outage PROVE CacheInv'
  <2>1. /\ UNCHANGED <<backend, db, entry, expired, order, rpc, rkey, loaded, wpc, wkey, raced>>
        /\ up' \in BOOLEAN /\ open' \in BOOLEAN
    BY <1>0, <1>12 DEF Outage, store, reading, writing, RequestsOK
  <2>2. StoreOK'
    BY <1>0, <2>1 DEF StoreOK, Cached
  <2>3. RequestsOK' /\ Fresh'
    BY <1>0, <2>1 DEF RequestsOK, Fresh, Editing
  <2> QED
    BY <2>2, <2>3 DEF CacheInv
<1>13. ASSUME UNCHANGED vars PROVE CacheInv'
  BY <1>0, <1>13 DEF vars, redis, store, reading, writing, CacheInv, StoreOK, Cached,
                     RequestsOK, Fresh, Editing
<1> QED
  BY <1>1, <1>2, <1>3, <1>4, <1>5, <1>6, <1>7, <1>8, <1>9, <1>10, <1>11, <1>12, <1>13 DEF Next

(* For any number of books, readers and writers the variables keep their   *)
(* shape, and the in-memory cache holds the keys of its order of use, at   *)
(* most Capacity of them.                                                  *)
THEOREM CacheWithinCapacity == Spec => []TypeOK
<1>1. Spec => []CacheInv
  BY InitCache, NextCache, PTL DEF Spec
<1> QED
  BY <1>1, CacheImplies, PTL

(* A stale answer always has one of the recorded causes, for any number of *)
(* books, readers and writers.                                             *)
THEOREM StalenessHasACause == Spec => []StaleOnlyByRace
<1>1. Spec => []CacheInv
  BY InitCache, NextCache, PTL DEF Spec
<1> QED
  BY <1>1, CacheImplies, PTL
=============================================================================
