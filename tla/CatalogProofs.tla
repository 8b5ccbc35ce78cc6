----------------------------- MODULE CatalogProofs -----------------------------
(***************************************************************************)
(* Proofs about Catalog, for any books, texts, vocabulary, editors and     *)
(* number of registrations and restarts.  The invariant follows one book:  *)
(* at rest the index and the trie agree with the database; while a thread  *)
(* writes it, what it has done so far is known from where it is.           *)
(***************************************************************************)
EXTENDS Catalog, TLAPS, FiniteSetTheorems, WellFoundedInduction

Steps == {"idle", "discard", "clear", "add", "trie", "copy", "book"}

Types ==
    /\ backend \in {"memory", "postgres"}
    /\ db \in [Books -> Texts \cup {None}]
    /\ shown \in [Books -> Texts \cup {None}]
    /\ object \in [Books -> Nat] /\ shownObject \in [Books -> Nat]
    /\ docTerms \in [Books -> SUBSET Vocabulary]
    /\ postings \in [Vocabulary -> SUBSET Books]
    /\ pc \in [Editors -> Steps]
    /\ kbook \in [Editors -> Books \cup {None}]
    /\ ktext \in [Editors -> Texts \cup {None}]
    /\ kobject \in [Editors -> Nat]
    /\ saves \in Nat

(* A thread has a book and its text exactly while it is in register_book   *)
(* or add_physical_copy.                                                   *)
ThreadsOK ==
    \A e \in Editors : /\ pc[e] = "idle" <=> kbook[e] = None
                       /\ pc[e] # "idle" => ktext[e] \in Texts

(* On PostgreSQL nobody hangs copies into objects.                         *)
RowsOnly == backend = "postgres" => holding = {}

(* A book has at most one entry below a phrase, and weights are bounded.   *)
Single(T) == \A x, y \in T : x.phrase = y.phrase /\ x.book = y.book => x = y
HighestWeight == 50
Weighted(T) == \A x \in T : x.weight \in 0 .. HighestWeight
TrieOK == Single(trie) /\ Weighted(trie)

(* The postings of book b are the words the index thinks it has of it.     *)
Matched(b) == \A w \in Vocabulary : b \in postings[w] <=> w \in docTerms[b]

(* The index has the last text of book b, or nothing.                      *)
Indexed(b) ==
    /\ shown[b] \in {None, db[b]}
    /\ docTerms[b] = IF shown[b] = None THEN {} ELSE Words[shown[b]]
    /\ Matched(b)
    /\ backend = "memory" => shownObject[b] = object[b]

(* The trie has book b below name n with text t, and not with less weight. *)
HasName(T, b, t, n) ==
    \E x \in T : x.phrase = n[1] /\ x.book = b /\ x.text = t /\ x.weight >= n[2]

HasNames(T, b, t) == HasName(T, b, t, Title(t)) /\ HasName(T, b, t, Author(t))

Named(b) == shown[b] # None => HasNames(trie, b, shown[b])

Settled(b) == Indexed(b) /\ Named(b)

(* What thread e has done of book b when it is at pc[e].                   *)
Saved(e, b) ==
    /\ db[b] = ktext[e]
    /\ backend = "memory" => object[b] = kobject[e]

Displayed(e, b) ==
    /\ shown[b] = ktext[e] /\ shownObject[b] = kobject[e]
    /\ \A w \in Vocabulary : b \notin postings[w]

Written(e, b) ==
    /\ Saved(e, b)
    /\ pc[e] = "discard" => Matched(b)
    /\ pc[e] \in {"clear", "add"} => Displayed(e, b)
    /\ pc[e] = "add" => docTerms[b] = {}
    /\ pc[e] = "trie" => Indexed(b) /\ shown[b] = ktext[e]
    /\ pc[e] \in {"copy", "book"} => Settled(b)

BookOK(b) ==
    /\ ~ Busy(b) => Settled(b)
    /\ \A e \in Editors : kbook[e] = b =>
          Written(e, b) /\ \A f \in Editors : kbook[f] = b => f = e

BooksOK == \A b \in Books \ raced : BookOK(b)

CatalogInv == Types /\ ThreadsOK /\ RowsOnly /\ TrieOK /\ BooksOK

(***************************************************************************)
(* The trie                                                                *)
(***************************************************************************)
(* The higher of a weight and the weight of the one old entry.             *)
LEMMA MaxOfOld ==
    ASSUME NEW w \in Nat, NEW S \in SUBSET Nat, \A x, y \in S : x = y
    PROVE  Max({w} \cup S) \in {w} \cup S /\ \A x \in {w} \cup S : Max({w} \cup S) >= x
<1>1. PICK U : U = {w} \cup S
  OBVIOUS
<1>2. \E x \in U : \A y \in U : x >= y
  <2>1. CASE \E x \in S : x > w
    BY <1>1, <2>1
  <2>2. CASE ~ \E x \in S : x > w
    BY <1>1, <2>2
  <2> QED
    BY <2>1, <2>2
<1>3. Max(U) \in U /\ \A y \in U : Max(U) >= y
  BY <1>2 DEF Max
<1> QED
  BY <1>1, <1>3

(* insert keeps one entry of a book below a phrase, does not touch other   *)
(* entries, and leaves the new text with no less weight.                   *)
LEMMA InsertFacts ==
    ASSUME NEW T, Single(T), Weighted(T), NEW p, NEW b, NEW t, NEW w \in 0 .. HighestWeight
    PROVE  LET U == Insert(T, p, b, t, w)
           IN  /\ Single(U) /\ Weighted(U)
               /\ \A x : x.phrase # p \/ x.book # b => (x \in U <=> x \in T)
               /\ \E x \in U : /\ x.phrase = p /\ x.book = b /\ x.text = t /\ x.weight >= w
                              /\ \A y \in T : y.phrase = p /\ y.book = b
                                                => x.weight >= y.weight
<1> DEFINE old == {x \in T : x.phrase = p /\ x.book = b}
           S == {x.weight : x \in old}
<1>1. PICK m : m = Max({w} \cup S)
  OBVIOUS
<1>2. m \in 0 .. HighestWeight /\ m >= w /\ \A y \in S : m >= y
  <2>1. S \in SUBSET (0 .. HighestWeight) /\ \A x, y \in S : x = y
    BY DEF Single, Weighted
  <2> HIDE DEF S
  <2>2. S \in SUBSET Nat /\ w \in Nat
    BY <2>1 DEF HighestWeight
  <2>3. m \in {w} \cup S /\ \A y \in {w} \cup S : m >= y
    BY <1>1, <2>1, <2>2, MaxOfOld
  <2> QED
    BY <2>1, <2>3
<1>3. PICK n : n = [phrase |-> p, book |-> b, text |-> t, weight |-> m]
  OBVIOUS
<1>4. n.phrase = p /\ n.book = b /\ n.text = t /\ n.weight = m
  BY <1>3
<1>5. PICK U : U = Insert(T, p, b, t, w)
  OBVIOUS
<1>6. U = (T \ old) \cup {n}
  BY <1>1, <1>3, <1>5 DEF Insert
<1>7. \A y \in T : y.phrase = p /\ y.book = b => m >= y.weight
  BY <1>2
<1> HIDE DEF S
<1>8. Single(U)
  BY <1>4, <1>6 DEF Single
<1>9. Weighted(U)
  BY <1>2, <1>4, <1>6 DEF Weighted
<1>10. \A x : x.phrase # p \/ x.book # b => (x \in U <=> x \in T)
  BY <1>4, <1>6
<1>11. n \in U
  BY <1>6
<1> QED
  BY <1>2, <1>4, <1>5, <1>7, <1>8, <1>9, <1>10, <1>11

(* The two insertions of a registration: the book has both names, entries  *)
(* of other books stay.                                                    *)
LEMMA InsertNamesFacts ==
    ASSUME NEW T, Single(T), Weighted(T), NEW b, NEW t \in Texts
    PROVE  LET U == InsertNames(T, b, t)
           IN  /\ Single(U) /\ Weighted(U) /\ HasNames(U, b, t)
               /\ \A x : x.book # b => (x \in U <=> x \in T)
<1>1. PICK n, m : n = Title(t) /\ m = Author(t)
  OBVIOUS
<1>2. n[2] \in 0 .. HighestWeight /\ m[2] \in 0 .. HighestWeight
  BY <1>1, CatalogAssumption DEF Title, Author, HighestWeight
<1>3. PICK V : V = Insert(T, n[1], b, t, n[2])
  OBVIOUS
<1>4. /\ Single(V) /\ Weighted(V)
      /\ \A x : x.phrase # n[1] \/ x.book # b => (x \in V <=> x \in T)
      /\ \E x \in V : x.phrase = n[1] /\ x.book = b /\ x.text = t /\ x.weight >= n[2]
  BY <1>2, <1>3, InsertFacts
<1>5. PICK U : U = Insert(V, m[1], b, t, m[2])
  OBVIOUS
<1>6. /\ Single(U) /\ Weighted(U)
      /\ \A x : x.phrase # m[1] \/ x.book # b => (x \in U <=> x \in V)
      /\ \E x \in U : /\ x.phrase = m[1] /\ x.book = b /\ x.text = t /\ x.weight >= m[2]
                     /\ \A y \in V : y.phrase = m[1] /\ y.book = b => x.weight >= y.weight
  BY <1>2, <1>4, <1>5, InsertFacts
<1>7. HasName(U, b, t, n)
  <2>1. PICK y \in V : y.phrase = n[1] /\ y.book = b /\ y.text = t /\ y.weight >= n[2]
    BY <1>4
  <2>2. CASE n[1] # m[1]
    BY <1>6, <2>1, <2>2 DEF HasName
  <2>3. CASE n[1] = m[1]
    <3>1. PICK x \in U : /\ x.phrase = m[1] /\ x.book = b /\ x.text = t
                         /\ \A z \in V : z.phrase = m[1] /\ z.book = b => x.weight >= z.weight
      BY <1>6
    <3>2. x.weight \in Nat /\ y.weight \in Nat /\ x.weight >= y.weight
      BY <1>4, <1>6, <2>1, <2>3, <3>1 DEF Weighted, HighestWeight
    <3>3. x.weight >= n[2]
      BY <1>2, <2>1, <3>2 DEF HighestWeight
    <3> QED
      BY <2>3, <3>1, <3>3 DEF HasName
  <2> QED
    BY <2>2, <2>3
<1>8. HasName(U, b, t, m)
  BY <1>6 DEF HasName
<1>9. U = InsertNames(T, b, t)
  BY <1>1, <1>3, <1>5 DEF InsertNames
<1>10. \A x : x.book # b => (x \in U <=> x \in T)
  BY <1>4, <1>6
<1> QED
  BY <1>1, <1>6, <1>7, <1>8, <1>9, <1>10 DEF HasNames

(* The entries of another book decide what it is called.                   *)
LEMMA NamesKept ==
    ASSUME NEW T, NEW U, NEW b, NEW t, HasNames(T, b, t),
           \A x : x.book = b => (x \in U <=> x \in T)
    PROVE  HasNames(U, b, t)
BY DEF HasNames, HasName

(***************************************************************************)
(* The start                                                               *)
(***************************************************************************)
(* The trie of the seed has one entry per book and phrase.                 *)
LEMMA SeedTrie ==
    ASSUME NEW B, NEW T, T = UNION {InsertNames({}, b, SeedText) : b \in B}
    PROVE  Single(T) /\ Weighted(T) /\ \A b \in B : HasNames(T, b, SeedText)
<1>1. SeedText \in Texts /\ Single({}) /\ Weighted({})
  BY CatalogAssumption DEF Single, Weighted
<1>2. \A b \in B : /\ Single(InsertNames({}, b, SeedText))
                   /\ Weighted(InsertNames({}, b, SeedText))
                   /\ HasNames(InsertNames({}, b, SeedText), b, SeedText)
                   /\ \A x \in InsertNames({}, b, SeedText) : x.book = b
  BY <1>1, InsertNamesFacts
<1>3. \A x \in T : x.book \in B /\ x \in InsertNames({}, x.book, SeedText)
  BY <1>2
<1>4. Single(T)
  BY <1>2, <1>3 DEF Single
<1>5. Weighted(T)
  BY <1>2, <1>3 DEF Weighted
<1>6. \A b \in B : HasNames(T, b, SeedText)
  BY <1>2 DEF HasNames, HasName
<1> QED
  BY <1>4, <1>5, <1>6

(* The seed, and an empty catalogue, are settled.                          *)
LEMMA InitCatalog == Init => CatalogInv
<1> SUFFICES ASSUME Init PROVE CatalogInv
  OBVIOUS
<1> USE CatalogAssumption
<1>1. nodes \subseteq Books /\ backend \in {"memory", "postgres"}
      /\ (backend = "postgres" => nodes = {})
  BY DEF Init
<1>2. Types
  <2>1. db \in [Books -> Texts \cup {None}] /\ object \in [Books -> Nat]
    BY DEF Init
  <2>2. shown = db /\ shownObject = object /\ saves \in Nat
    BY DEF Init
  <2>3. docTerms \in [Books -> SUBSET Vocabulary]
    BY DEF Init, Vocabulary
  <2>4. postings \in [Vocabulary -> SUBSET Books]
    BY <1>1 DEF Init
  <2>5. /\ pc \in [Editors -> Steps] /\ kbook \in [Editors -> Books \cup {None}]
        /\ ktext \in [Editors -> Texts \cup {None}] /\ kobject \in [Editors -> Nat]
    BY DEF Init, Steps
  <2> QED
    BY <1>1, <2>1, <2>2, <2>3, <2>4, <2>5 DEF Types
<1>3. ThreadsOK
  BY DEF Init, ThreadsOK
<1>4. RowsOnly
  BY <1>1 DEF Init, RowsOnly
<1>5. trie = UNION {InsertNames({}, b, SeedText) : b \in nodes}
  BY DEF Init
<1>6. TrieOK /\ \A b \in nodes : HasNames(trie, b, SeedText)
  BY <1>5, SeedTrie DEF TrieOK
<1>7. ASSUME NEW b \in Books PROVE BookOK(b)
  <2>1. \A e \in Editors : kbook[e] # b
    BY DEF Init
  <2>2. /\ db[b] = IF b \in nodes THEN SeedText ELSE None
        /\ shown[b] = db[b] /\ shownObject[b] = object[b]
        /\ docTerms[b] = IF b \in nodes THEN Words[SeedText] ELSE {}
    BY DEF Init
  <2>3. Matched(b)
    BY <2>2 DEF Init, Matched
  <2>4. Indexed(b)
    BY <2>2, <2>3 DEF Indexed
  <2>5. Named(b)
    BY <1>6, <2>2 DEF Named
  <2> QED
    BY <2>1, <2>4, <2>5 DEF BookOK, Settled, Busy
<1> QED
  BY <1>2, <1>3, <1>4, <1>6, <1>7 DEF CatalogInv, BooksOK

(***************************************************************************)
(* Frames                                                                  *)
(***************************************************************************)
(* Nothing that is said of book b changes, ...                             *)
SameRecords(b) ==
    /\ backend' = backend
    /\ db'[b] = db[b] /\ object'[b] = object[b]

SameIndex(b) ==
    /\ shown'[b] = shown[b] /\ shownObject'[b] = shownObject[b]
    /\ docTerms'[b] = docTerms[b]
    /\ \A w \in Vocabulary : b \in postings'[w] <=> b \in postings[w]

SameEntries(b) == \A x : x.book = b => (x \in trie' <=> x \in trie)

(* ... and no thread takes it up, leaves it or goes on with it.            *)
SameThreads(b) ==
    \A e \in Editors :
        /\ kbook'[e] = b <=> kbook[e] = b
        /\ kbook[e] = b => UNCHANGED <<pc[e], ktext[e], kobject[e]>>

(* Then the index and the trie of the book are as right as they were.      *)
LEMMA SameIndexed ==
    ASSUME NEW b, SameRecords(b), SameIndex(b)
    PROVE  /\ Indexed(b)' <=> Indexed(b)
           /\ Matched(b)' <=> Matched(b)
BY DEF SameRecords, SameIndex, Indexed, Matched

(* The names depend on the entries and on the text that the index has.     *)
LEMMA SameNamed ==
    ASSUME NEW b, SameIndex(b), SameEntries(b), Named(b)
    PROVE  Named(b)'
<1>1. shown'[b] = shown[b]
  BY DEF SameIndex
<1>2. CASE shown[b] = None
  BY <1>1, <1>2 DEF Named
<1>3. CASE shown[b] # None
  <2>1. HasNames(trie, b, shown[b])
    BY <1>3 DEF Named
  <2>2. HasNames(trie', b, shown[b])
    BY <2>1, NamesKept DEF SameEntries
  <2> QED
    BY <1>1, <2>2 DEF Named, HasNames, HasName
<1> QED
  BY <1>2, <1>3

(* So a settled book stays settled.                                        *)
LEMMA SameSettled ==
    ASSUME NEW b, SameRecords(b), SameIndex(b), SameEntries(b), Settled(b)
    PROVE  Settled(b)'
BY SameIndexed, SameNamed DEF Settled

(* A book whose threads do not move either stays right.                    *)
LEMMA SameBook ==
    ASSUME NEW b, SameRecords(b), SameIndex(b), SameEntries(b), SameThreads(b), BookOK(b)
    PROVE  BookOK(b)'
<1>1. Busy(b)' <=> Busy(b)
  BY DEF Busy, SameThreads
<1>2. ~ Busy(b)' => Settled(b)'
  BY <1>1, SameSettled DEF BookOK
<1>3. ASSUME NEW e \in Editors, kbook'[e] = b
      PROVE  Written(e, b)' /\ \A f \in Editors : kbook'[f] = b => f = e
  <2>1. /\ kbook[e] = b /\ pc'[e] = pc[e] /\ ktext'[e] = ktext[e] /\ kobject'[e] = kobject[e]
        /\ \A f \in Editors : kbook'[f] = b => kbook[f] = b
    BY <1>3 DEF SameThreads
  <2>2. Written(e, b) /\ \A f \in Editors : kbook[f] = b => f = e
    BY <2>1 DEF BookOK
  <2>3. Saved(e, b)'
    BY <2>1, <2>2 DEF Written, Saved, SameRecords
  <2>4. Displayed(e, b) => Displayed(e, b)'
    BY <2>1 DEF Displayed, SameIndex
  <2>5. /\ Matched(b) => Matched(b)'
        /\ Indexed(b) => Indexed(b)'
        /\ Settled(b) => Settled(b)'
    BY SameIndexed, SameSettled
  <2>6. shown'[b] = shown[b] /\ docTerms'[b] = docTerms[b]
    BY DEF SameIndex
  <2>7. Written(e, b)'
    BY <2>1, <2>2, <2>3, <2>4, <2>5, <2>6 DEF Written
  <2> QED
    BY <2>1, <2>2, <2>7
<1> QED
  BY <1>2, <1>3 DEF BookOK

(***************************************************************************)
(* The actions                                                             *)
(***************************************************************************)
(* A thread at work has a book and a text.                                 *)
LEMMA AtWork ==
    ASSUME Types, ThreadsOK, NEW e \in Editors, pc[e] # "idle"
    PROVE  kbook[e] \in Books /\ ktext[e] \in Texts /\ kobject[e] \in Nat
BY DEF Types, ThreadsOK

(* What Start and Finish do to the threads.                                *)
LEMMA StartFacts ==
    ASSUME Types, ThreadsOK, NEW e \in Editors, pc[e] = "idle",
           NEW b \in Books, NEW t \in Texts, NEW o \in Nat, NEW l \in Steps \ {"idle"},
           Start(e, b, t, o, l)
    PROVE  /\ pc' \in [Editors -> Steps] /\ kbook' \in [Editors -> Books \cup {None}]
           /\ ktext' \in [Editors -> Texts \cup {None}] /\ kobject' \in [Editors -> Nat]
           /\ ThreadsOK'
           /\ pc'[e] = l /\ kbook'[e] = b /\ ktext'[e] = t /\ kobject'[e] = o
           /\ \A f \in Editors : f # e => kbook'[f] = kbook[f]
           /\ \A c \in Books : c # b => SameThreads(c)
           /\ b \notin raced' => ~ Busy(b)
           /\ raced \subseteq raced'
<1> USE CatalogAssumption
<1>1. /\ pc' = [pc EXCEPT ![e] = l] /\ kbook' = [kbook EXCEPT ![e] = b]
      /\ ktext' = [ktext EXCEPT ![e] = t] /\ kobject' = [kobject EXCEPT ![e] = o]
      /\ raced' = IF Busy(b) THEN raced \cup {b} ELSE raced
  BY DEF Start, Goto
<1>2. /\ pc \in [Editors -> Steps] /\ kbook \in [Editors -> Books \cup {None}]
      /\ ktext \in [Editors -> Texts \cup {None}] /\ kobject \in [Editors -> Nat]
  BY DEF Types
<1>3. /\ pc' \in [Editors -> Steps] /\ kbook' \in [Editors -> Books \cup {None}]
      /\ ktext' \in [Editors -> Texts \cup {None}] /\ kobject' \in [Editors -> Nat]
  BY <1>1, <1>2
<1>4. /\ pc'[e] = l /\ kbook'[e] = b /\ ktext'[e] = t /\ kobject'[e] = o
      /\ \A f \in Editors : f # e => /\ pc'[f] = pc[f] /\ kbook'[f] = kbook[f]
                                     /\ ktext'[f] = ktext[f] /\ kobject'[f] = kobject[f]
  BY <1>1, <1>2
<1>5. ThreadsOK'
  BY <1>4 DEF ThreadsOK
<1>6. \A c \in Books : c # b => SameThreads(c)
  BY <1>4 DEF SameThreads, ThreadsOK
<1> QED
  BY <1>1, <1>3, <1>4, <1>5, <1>6

(* A thread that ends leaves its book.                                     *)
LEMMA FinishFacts ==
    ASSUME Types, ThreadsOK, NEW e \in Editors, pc[e] # "idle", Finish(e)
    PROVE  /\ pc' \in [Editors -> Steps] /\ kbook' \in [Editors -> Books \cup {None}]
           /\ ktext' \in [Editors -> Texts \cup {None}] /\ kobject' \in [Editors -> Nat]
           /\ ThreadsOK'
           /\ kbook'[e] = None
           /\ \A f \in Editors : f # e => kbook'[f] = kbook[f]
           /\ \A c \in Books : c # kbook[e] => SameThreads(c)
<1> USE CatalogAssumption
<1>1. /\ pc' = [pc EXCEPT ![e] = "idle"] /\ kbook' = [kbook EXCEPT ![e] = None]
      /\ ktext' = [ktext EXCEPT ![e] = None] /\ kobject' = [kobject EXCEPT ![e] = 0]
  BY DEF Finish, Goto
<1>2. /\ pc \in [Editors -> Steps] /\ kbook \in [Editors -> Books \cup {None}]
      /\ ktext \in [Editors -> Texts \cup {None}] /\ kobject \in [Editors -> Nat]
  BY DEF Types
<1>3. /\ pc' \in [Editors -> Steps] /\ kbook' \in [Editors -> Books \cup {None}]
      /\ ktext' \in [Editors -> Texts \cup {None}] /\ kobject' \in [Editors -> Nat]
  BY <1>1, <1>2 DEF Steps
<1>4. /\ pc'[e] = "idle" /\ kbook'[e] = None
      /\ \A f \in Editors : f # e => /\ pc'[f] = pc[f] /\ kbook'[f] = kbook[f]
                                     /\ ktext'[f] = ktext[f] /\ kobject'[f] = kobject[f]
  BY <1>1, <1>2
<1>5. ThreadsOK'
  BY <1>4 DEF ThreadsOK
<1>6. \A c \in Books : c # kbook[e] => SameThreads(c)
  BY <1>4 DEF SameThreads
<1> QED
  BY <1>3, <1>4, <1>5, <1>6

(* A thread that goes on to another step stays with its book.              *)
LEMMA GotoFacts ==
    ASSUME Types, ThreadsOK, NEW e \in Editors, pc[e] # "idle",
           NEW l \in Steps \ {"idle"}, Goto(e, l), UNCHANGED thread
    PROVE  /\ pc' \in [Editors -> Steps] /\ kbook' \in [Editors -> Books \cup {None}]
           /\ ktext' \in [Editors -> Texts \cup {None}] /\ kobject' \in [Editors -> Nat]
           /\ ThreadsOK'
           /\ pc'[e] = l /\ kbook' = kbook /\ ktext' = ktext /\ kobject' = kobject
           /\ \A c \in Books : c # kbook[e] => SameThreads(c)
<1>1. pc' = [pc EXCEPT ![e] = l] /\ UNCHANGED <<kbook, ktext, kobject>>
  BY DEF Goto, thread
<1>2. /\ pc \in [Editors -> Steps] /\ kbook \in [Editors -> Books \cup {None}]
      /\ ktext \in [Editors -> Texts \cup {None}] /\ kobject \in [Editors -> Nat]
  BY DEF Types
<1>3. /\ pc' \in [Editors -> Steps] /\ pc'[e] = l
      /\ \A f \in Editors : f # e => pc'[f] = pc[f]
  BY <1>1, <1>2
<1>4. ThreadsOK'
  BY <1>1, <1>3 DEF ThreadsOK
<1>5. \A c \in Books : c # kbook[e] => SameThreads(c)
  BY <1>1, <1>3 DEF SameThreads
<1> QED
  BY <1>1, <1>2, <1>3, <1>4, <1>5

(* The one thread of a book that did not race.                             *)
LEMMA OnlyThread ==
    ASSUME CatalogInv, NEW e \in Editors, pc[e] # "idle", kbook[e] \notin raced
    PROVE  /\ Written(e, kbook[e])
           /\ \A f \in Editors : kbook[f] = kbook[e] => f = e
<1>1. PICK k : k = kbook[e]
  OBVIOUS
<1>2. k \in Books \ raced
  BY <1>1, AtWork DEF CatalogInv
<1>3. BookOK(k)
  BY <1>2 DEF CatalogInv, BooksOK
<1> QED
  BY <1>1, <1>3 DEF BookOK

(* Books other than k are as they were.                                    *)
LEMMA OtherBooks ==
    ASSUME BooksOK, raced \subseteq raced', NEW k,
           \A c \in Books : c # k =>
              SameRecords(c) /\ SameIndex(c) /\ SameEntries(c) /\ SameThreads(c),
           k \in Books /\ k \notin raced' => BookOK(k)'
    PROVE  BooksOK'
<1> SUFFICES ASSUME NEW b \in Books, b \notin raced' PROVE BookOK(b)'
  BY DEF BooksOK
<1>1. CASE b = k
  BY <1>1
<1>2. CASE b # k
  BY <1>2, SameBook DEF BooksOK
<1> QED
  BY <1>1, <1>2

(* register_book writes the database; the index is behind from here on.    *)
LEMMA SaveBookStep ==
    ASSUME CatalogInv, NEW e \in Editors, NEW b \in Books, NEW t \in Texts,
           SaveBook(e, b, t)
    PROVE  CatalogInv'
<1> USE DEF CatalogInv
<1>1. PICK o \in Nat : o = CreateBook
  BY DEF CreateBook, Types
<1>2. /\ pc[e] = "idle" /\ Start(e, b, t, o, "discard") /\ saves' = saves + 1
      /\ db' = [db EXCEPT ![b] = t]
      /\ object' = (IF backend = "memory" THEN [object EXCEPT ![b] = o] ELSE object)
      /\ UNCHANGED <<backend, copy, holding, shown, shownObject, docTerms, postings, trie>>
  BY <1>1 DEF SaveBook, PutBook, stock, index
<1>3. "discard" \in Steps \ {"idle"}
  BY DEF Steps
<1>4. /\ pc' \in [Editors -> Steps] /\ kbook' \in [Editors -> Books \cup {None}]
      /\ ktext' \in [Editors -> Texts \cup {None}] /\ kobject' \in [Editors -> Nat]
      /\ ThreadsOK'
      /\ pc'[e] = "discard" /\ kbook'[e] = b /\ ktext'[e] = t /\ kobject'[e] = o
      /\ \A f \in Editors : f # e => kbook'[f] = kbook[f]
      /\ \A c \in Books : c # b => SameThreads(c)
      /\ b \notin raced' => ~ Busy(b)
      /\ raced \subseteq raced'
  BY <1>1, <1>2, <1>3, StartFacts
<1>5. /\ db' \in [Books -> Texts \cup {None}] /\ object' \in [Books -> Nat]
      /\ db'[b] = t /\ (backend = "memory" => object'[b] = o)
      /\ \A c \in Books : c # b => db'[c] = db[c] /\ object'[c] = object[c]
  BY <1>2 DEF Types
<1>6. Types'
  BY <1>2, <1>4, <1>5 DEF Types
<1>7. RowsOnly' /\ TrieOK'
  BY <1>2 DEF RowsOnly, TrieOK
<1>8. ASSUME b \notin raced' PROVE BookOK(b)'
  <2>1. ~ Busy(b) /\ b \notin raced
    BY <1>4, <1>8
  <2>2. Matched(b)
    BY <2>1 DEF BooksOK, BookOK, Settled, Indexed
  <2>3. Matched(b)'
    BY <1>2, <2>2 DEF Matched
  <2>4. Written(e, b)'
    BY <1>2, <1>4, <1>5, <2>3 DEF Written, Saved
  <2>5. \A f \in Editors : kbook'[f] = b => f = e
    BY <1>4, <2>1 DEF Busy
  <2>6. Busy(b)'
    BY <1>4 DEF Busy
  <2> QED
    BY <2>4, <2>5, <2>6 DEF BookOK
<1>9. BooksOK'
  <2>1. \A c \in Books : c # b => SameRecords(c) /\ SameIndex(c) /\ SameEntries(c)
    BY <1>2, <1>5 DEF SameRecords, SameIndex, SameEntries
  <2> QED
    BY <1>4, <1>8, <2>1, OtherBooks
<1> QED
  BY <1>4, <1>6, <1>7, <1>9

(* The index takes the new text and drops the postings of the words it     *)
(* knew: of a book that did not race it knew all.                          *)
LEMMA IndexDiscardStep ==
    ASSUME CatalogInv, NEW e \in Editors, IndexDiscard(e)
    PROVE  CatalogInv'
<1> USE DEF CatalogInv
<1>1. PICK b : b = kbook[e]
  OBVIOUS
<1>2. /\ pc[e] = "discard" /\ Goto(e, "clear") /\ UNCHANGED thread
      /\ shown' = [shown EXCEPT ![b] = ktext[e]]
      /\ shownObject' = [shownObject EXCEPT ![b] = kobject[e]]
      /\ postings' = [w \in Vocabulary |->
                         IF w \in docTerms[b] THEN postings[w] \ {b} ELSE postings[w]]
      /\ UNCHANGED <<backend, db, object, copy, holding, docTerms, trie, saves, raced>>
  BY <1>1 DEF IndexDiscard, stock
<1>3. "clear" \in Steps \ {"idle"} /\ pc[e] # "idle"
  BY <1>2 DEF Steps
<1>4. /\ pc' \in [Editors -> Steps] /\ kbook' \in [Editors -> Books \cup {None}]
      /\ ktext' \in [Editors -> Texts \cup {None}] /\ kobject' \in [Editors -> Nat]
      /\ ThreadsOK'
      /\ pc'[e] = "clear" /\ kbook' = kbook /\ ktext' = ktext /\ kobject' = kobject
      /\ \A c \in Books : c # b => SameThreads(c)
  BY <1>1, <1>2, <1>3, GotoFacts
<1>5. b \in Books /\ ktext[e] \in Texts /\ kobject[e] \in Nat
  BY <1>1, <1>3, AtWork
<1>6. /\ shown' \in [Books -> Texts \cup {None}] /\ shownObject' \in [Books -> Nat]
      /\ shown'[b] = ktext[e] /\ shownObject'[b] = kobject[e]
      /\ \A c \in Books : c # b => shown'[c] = shown[c] /\ shownObject'[c] = shownObject[c]
  BY <1>2, <1>5 DEF Types
<1>7. /\ postings' \in [Vocabulary -> SUBSET Books]
      /\ \A w \in Vocabulary : \A c : c # b => (c \in postings'[w] <=> c \in postings[w])
      /\ \A w \in Vocabulary : b \in postings'[w] <=> b \in postings[w] /\ w \notin docTerms[b]
  BY <1>2 DEF Types
<1>8. Types'
  BY <1>2, <1>4, <1>6, <1>7 DEF Types
<1>9. RowsOnly' /\ TrieOK'
  BY <1>2 DEF RowsOnly, TrieOK
<1>10. ASSUME b \notin raced' PROVE BookOK(b)'
  <2>1. Written(e, b) /\ \A f \in Editors : kbook[f] = b => f = e
    BY <1>1, <1>2, <1>3, <1>10, OnlyThread
  <2>2. Matched(b) /\ Saved(e, b)
    BY <1>2, <2>1 DEF Written
  <2>3. \A w \in Vocabulary : b \notin postings'[w]
    BY <1>7, <2>2 DEF Matched
  <2>4. Displayed(e, b)'
    BY <1>4, <1>6, <2>3 DEF Displayed
  <2>5. Saved(e, b)'
    BY <1>2, <1>4, <2>2 DEF Saved
  <2>6. Written(e, b)'
    BY <1>4, <2>4, <2>5 DEF Written
  <2> QED
    BY <1>1, <1>4, <2>1, <2>6 DEF BookOK, Busy
<1>11. BooksOK'
  <2>1. \A c \in Books : c # b => SameRecords(c) /\ SameIndex(c) /\ SameEntries(c)
    BY <1>2, <1>6, <1>7 DEF SameRecords, SameIndex, SameEntries
  <2> QED
    BY <1>2, <1>4, <1>10, <2>1, OtherBooks
<1> QED
  BY <1>4, <1>8, <1>9, <1>11

(* The list of known words is emptied.                                     *)
LEMMA IndexClearStep ==
    ASSUME CatalogInv, NEW e \in Editors, IndexClear(e)
    PROVE  CatalogInv'
<1> USE DEF CatalogInv
<1>1. PICK b : b = kbook[e]
  OBVIOUS
<1>2. /\ pc[e] = "clear" /\ Goto(e, "add") /\ UNCHANGED thread
      /\ docTerms' = [docTerms EXCEPT ![b] = {}]
      /\ UNCHANGED <<backend, db, object, copy, holding, shown, shownObject, postings, trie,
                     saves, raced>>
  BY <1>1 DEF IndexClear, stock
<1>3. "add" \in Steps \ {"idle"} /\ pc[e] # "idle"
  BY <1>2 DEF Steps
<1>4. /\ pc' \in [Editors -> Steps] /\ kbook' \in [Editors -> Books \cup {None}]
      /\ ktext' \in [Editors -> Texts \cup {None}] /\ kobject' \in [Editors -> Nat]
      /\ ThreadsOK'
      /\ pc'[e] = "add" /\ kbook' = kbook /\ ktext' = ktext /\ kobject' = kobject
      /\ \A c \in Books : c # b => SameThreads(c)
  BY <1>1, <1>2, <1>3, GotoFacts
<1>5. b \in Books
  BY <1>1, <1>3, AtWork
<1>6. /\ docTerms' \in [Books -> SUBSET Vocabulary] /\ docTerms'[b] = {}
      /\ \A c \in Books : c # b => docTerms'[c] = docTerms[c]
  BY <1>2, <1>5 DEF Types
<1>7. Types'
  BY <1>2, <1>4, <1>6 DEF Types
<1>8. RowsOnly' /\ TrieOK'
  BY <1>2 DEF RowsOnly, TrieOK
<1>9. ASSUME b \notin raced' PROVE BookOK(b)'
  <2>1. Written(e, b) /\ \A f \in Editors : kbook[f] = b => f = e
    BY <1>1, <1>2, <1>3, <1>9, OnlyThread
  <2>2. Displayed(e, b) /\ Saved(e, b)
    BY <1>2, <2>1 DEF Written
  <2>3. Displayed(e, b)' /\ Saved(e, b)'
    BY <1>2, <1>4, <2>2 DEF Displayed, Saved
  <2>4. Written(e, b)'
    BY <1>4, <1>6, <2>3 DEF Written
  <2> QED
    BY <1>1, <1>4, <2>1, <2>4 DEF BookOK, Busy
<1>10. BooksOK'
  <2>1. \A c \in Books : c # b => SameRecords(c) /\ SameIndex(c) /\ SameEntries(c)
    BY <1>2, <1>6 DEF SameRecords, SameIndex, SameEntries
  <2> QED
    BY <1>2, <1>4, <1>9, <2>1, OtherBooks
<1> QED
  BY <1>4, <1>7, <1>8, <1>10

(* The words of the new text: index and database agree again.              *)
LEMMA IndexAddStep ==
    ASSUME CatalogInv, NEW e \in Editors, IndexAdd(e)
    PROVE  CatalogInv'
<1> USE DEF CatalogInv
<1>1. PICK b : b = kbook[e]
  OBVIOUS
<1>2. PICK new : new = Words[ktext[e]]
  OBVIOUS
<1>3. /\ pc[e] = "add" /\ Goto(e, "trie") /\ UNCHANGED thread
      /\ docTerms' = [docTerms EXCEPT ![b] = docTerms[b] \cup new]
      /\ postings' = [w \in Vocabulary |->
                         IF w \in new THEN postings[w] \cup {b} ELSE postings[w]]
      /\ UNCHANGED <<backend, db, object, copy, holding, shown, shownObject, trie, saves, raced>>
  BY <1>1, <1>2 DEF IndexAdd, stock
<1>4. "trie" \in Steps \ {"idle"} /\ pc[e] # "idle"
  BY <1>3 DEF Steps
<1>5. /\ pc' \in [Editors -> Steps] /\ kbook' \in [Editors -> Books \cup {None}]
      /\ ktext' \in [Editors -> Texts \cup {None}] /\ kobject' \in [Editors -> Nat]
      /\ ThreadsOK'
      /\ pc'[e] = "trie" /\ kbook' = kbook /\ ktext' = ktext /\ kobject' = kobject
      /\ \A c \in Books : c # b => SameThreads(c)
  BY <1>1, <1>3, <1>4, GotoFacts
<1>6. b \in Books /\ ktext[e] \in Texts /\ new \subseteq Vocabulary
  BY <1>1, <1>2, <1>4, AtWork DEF Vocabulary
<1>7. /\ docTerms' \in [Books -> SUBSET Vocabulary] /\ docTerms'[b] = docTerms[b] \cup new
      /\ \A c \in Books : c # b => docTerms'[c] = docTerms[c]
  BY <1>3, <1>6 DEF Types
<1>8. /\ postings' \in [Vocabulary -> SUBSET Books]
      /\ \A w \in Vocabulary : \A c : c # b => (c \in postings'[w] <=> c \in postings[w])
      /\ \A w \in Vocabulary : b \in postings'[w] <=> b \in postings[w] \/ w \in new
  BY <1>3, <1>6 DEF Types
<1>9. Types'
  BY <1>3, <1>5, <1>7, <1>8 DEF Types
<1>10. RowsOnly' /\ TrieOK'
  BY <1>3 DEF RowsOnly, TrieOK
<1>11. ASSUME b \notin raced' PROVE BookOK(b)'
  <2>1. Written(e, b) /\ \A f \in Editors : kbook[f] = b => f = e
    BY <1>1, <1>3, <1>4, <1>11, OnlyThread
  <2>2. Displayed(e, b) /\ Saved(e, b) /\ docTerms[b] = {}
    BY <1>3, <2>1 DEF Written
  <2>3. docTerms'[b] = new /\ \A w \in Vocabulary : b \in postings'[w] <=> w \in new
    BY <1>7, <1>8, <2>2 DEF Displayed
  <2>4. /\ shown'[b] = ktext[e] /\ shown'[b] = db'[b] /\ shown'[b] # None
        /\ backend' = "memory" => shownObject'[b] = object'[b]
    BY <1>3, <1>6, <2>2, CatalogAssumption DEF Displayed, Saved
  <2>5. Matched(b)'
    BY <2>3 DEF Matched
  <2>6. docTerms'[b] = Words[shown'[b]]
    BY <1>2, <2>3, <2>4
  <2>7. Indexed(b)'
    BY <2>4, <2>5, <2>6 DEF Indexed
  <2>8. Saved(e, b)'
    BY <1>3, <1>5, <2>2 DEF Saved
  <2>9. Written(e, b)'
    BY <1>5, <2>4, <2>7, <2>8 DEF Written
  <2> QED
    BY <1>1, <1>5, <2>1, <2>9 DEF BookOK, Busy
<1>12. BooksOK'
  <2>1. \A c \in Books : c # b => SameRecords(c) /\ SameIndex(c) /\ SameEntries(c)
    BY <1>3, <1>7, <1>8 DEF SameRecords, SameIndex, SameEntries
  <2> QED
    BY <1>3, <1>5, <1>11, <2>1, OtherBooks
<1> QED
  BY <1>5, <1>9, <1>10, <1>12

(* The names of the new text: the book is at rest again.                   *)
LEMMA TrieAndGraphStep ==
    ASSUME CatalogInv, NEW e \in Editors, TrieAndGraph(e)
    PROVE  CatalogInv'
<1> USE DEF CatalogInv
<1>1. PICK b : b = kbook[e]
  OBVIOUS
<1>2. PICK t : t = ktext[e]
  OBVIOUS
<1>3. /\ pc[e] = "trie" /\ Finish(e) /\ trie' = InsertNames(trie, b, t)
      /\ UNCHANGED <<backend, db, object, copy, holding, shown, shownObject, docTerms,
                     postings, saves, raced>>
  BY <1>1, <1>2 DEF TrieAndGraph, stock, index
<1>4. pc[e] # "idle"
  BY <1>3
<1>5. /\ pc' \in [Editors -> Steps] /\ kbook' \in [Editors -> Books \cup {None}]
      /\ ktext' \in [Editors -> Texts \cup {None}] /\ kobject' \in [Editors -> Nat]
      /\ ThreadsOK'
      /\ kbook'[e] = None
      /\ \A f \in Editors : f # e => kbook'[f] = kbook[f]
      /\ \A c \in Books : c # b => SameThreads(c)
  BY <1>1, <1>3, <1>4, FinishFacts
<1>6. b \in Books /\ t \in Texts /\ t # None /\ b # None
  BY <1>1, <1>2, <1>4, AtWork, CatalogAssumption
<1>7. PICK U : U = trie'
  OBVIOUS
<1>8. /\ Single(U) /\ Weighted(U) /\ HasNames(U, b, t)
      /\ \A x : x.book # b => (x \in U <=> x \in trie)
  BY <1>3, <1>6, <1>7, InsertNamesFacts DEF TrieOK
<1>9. Types'
  BY <1>3, <1>5 DEF Types
<1>10. RowsOnly'
  BY <1>3 DEF RowsOnly
<1>11. TrieOK'
  BY <1>7, <1>8 DEF TrieOK, Single, Weighted
<1>12. ASSUME b \notin raced' PROVE BookOK(b)'
  <2>1. Written(e, b) /\ \A f \in Editors : kbook[f] = b => f = e
    BY <1>1, <1>3, <1>4, <1>12, OnlyThread
  <2>2. Indexed(b) /\ shown[b] = t
    BY <1>2, <1>3, <2>1 DEF Written
  <2>3. SameRecords(b) /\ SameIndex(b)
    BY <1>3 DEF SameRecords, SameIndex
  <2>4. Indexed(b)'
    BY <2>2, <2>3, SameIndexed
  <2>5. Named(b)'
    BY <1>3, <1>7, <1>8, <2>2 DEF Named, HasNames
  <2>6. \A f \in Editors : kbook'[f] # b
    BY <1>5, <1>6, <2>1
  <2> QED
    BY <2>4, <2>5, <2>6 DEF BookOK, Settled
<1>13. BooksOK'
  <2>1. \A c \in Books : c # b => SameRecords(c) /\ SameIndex(c) /\ SameEntries(c)
    BY <1>3, <1>7, <1>8 DEF SameRecords, SameIndex, SameEntries
  <2> QED
    BY <1>3, <1>5, <1>12, <2>1, OtherBooks
<1> QED
  BY <1>5, <1>9, <1>10, <1>11, <1>13

(* add_physical_copy reads the book.                                       *)
LEMMA AddReadStep ==
    ASSUME CatalogInv, NEW e \in Editors, NEW b \in Books, AddRead(e, b)
    PROVE  CatalogInv'
<1> USE DEF CatalogInv
<1>1. PICK t : t = db[b]
  OBVIOUS
<1>2. PICK o : o = object[b]
  OBVIOUS
<1>3. /\ pc[e] = "idle" /\ Start(e, b, t, o, "copy") /\ t \in Physical
      /\ UNCHANGED <<backend, db, object, copy, holding, shown, shownObject, docTerms,
                     postings, trie, saves>>
  BY <1>1, <1>2 DEF AddRead, stock, index
<1>4. "copy" \in Steps \ {"idle"} /\ t \in Texts /\ o \in Nat
  BY <1>2, <1>3, CatalogAssumption DEF Steps, Types
<1>5. /\ pc' \in [Editors -> Steps] /\ kbook' \in [Editors -> Books \cup {None}]
      /\ ktext' \in [Editors -> Texts \cup {None}] /\ kobject' \in [Editors -> Nat]
      /\ ThreadsOK'
      /\ pc'[e] = "copy" /\ kbook'[e] = b /\ ktext'[e] = t /\ kobject'[e] = o
      /\ \A f \in Editors : f # e => kbook'[f] = kbook[f]
      /\ \A c \in Books : c # b => SameThreads(c)
      /\ b \notin raced' => ~ Busy(b)
      /\ raced \subseteq raced'
  BY <1>3, <1>4, StartFacts
<1>6. Types'
  BY <1>3, <1>5 DEF Types
<1>7. RowsOnly' /\ TrieOK'
  BY <1>3 DEF RowsOnly, TrieOK
<1>8. \A c \in Books : SameRecords(c) /\ SameIndex(c) /\ SameEntries(c)
  BY <1>3 DEF SameRecords, SameIndex, SameEntries
<1>9. ASSUME b \notin raced' PROVE BookOK(b)'
  <2>1. ~ Busy(b) /\ b \notin raced
    BY <1>5, <1>9
  <2>2. Settled(b)
    BY <2>1 DEF BooksOK, BookOK
  <2>3. Settled(b)'
    BY <1>8, <2>2, SameSettled
  <2>4. Saved(e, b)'
    BY <1>1, <1>2, <1>3, <1>5 DEF Saved
  <2>5. Written(e, b)'
    BY <1>5, <2>3, <2>4 DEF Written
  <2>6. \A f \in Editors : kbook'[f] = b => f = e
    BY <1>5, <2>1 DEF Busy
  <2>7. Busy(b)'
    BY <1>5 DEF Busy
  <2> QED
    BY <2>5, <2>6, <2>7 DEF BookOK
<1>10. BooksOK'
  BY <1>5, <1>8, <1>9, OtherBooks
<1> QED
  BY <1>5, <1>6, <1>7, <1>10

(* The copy touches neither index nor trie.                                *)
LEMMA AddCopyStep ==
    ASSUME CatalogInv, NEW e \in Editors, AddCopy(e)
    PROVE  CatalogInv'
<1> USE DEF CatalogInv
<1>1. PICK b : b = kbook[e]
  OBVIOUS
<1>2. /\ pc[e] = "copy" /\ Goto(e, "book") /\ UNCHANGED thread
      /\ backend = "postgres" => holding' = holding
      /\ UNCHANGED <<backend, db, object, shown, shownObject, docTerms, postings, trie,
                     saves, raced>>
  BY DEF AddCopy, PutCopy, index
<1>3. "book" \in Steps \ {"idle"} /\ pc[e] # "idle"
  BY <1>2 DEF Steps
<1>4. /\ pc' \in [Editors -> Steps] /\ kbook' \in [Editors -> Books \cup {None}]
      /\ ktext' \in [Editors -> Texts \cup {None}] /\ kobject' \in [Editors -> Nat]
      /\ ThreadsOK'
      /\ pc'[e] = "book" /\ kbook' = kbook /\ ktext' = ktext /\ kobject' = kobject
      /\ \A c \in Books : c # b => SameThreads(c)
  BY <1>1, <1>2, <1>3, GotoFacts
<1>5. Types'
  BY <1>2, <1>4 DEF Types
<1>6. RowsOnly' /\ TrieOK'
  BY <1>2 DEF RowsOnly, TrieOK
<1>7. \A c \in Books : SameRecords(c) /\ SameIndex(c) /\ SameEntries(c)
  BY <1>2 DEF SameRecords, SameIndex, SameEntries
<1>8. ASSUME b \in Books, b \notin raced' PROVE BookOK(b)'
  <2>1. Written(e, b) /\ \A f \in Editors : kbook[f] = b => f = e
    BY <1>1, <1>2, <1>3, <1>8, OnlyThread
  <2>2. Settled(b) /\ Saved(e, b)
    BY <1>2, <2>1 DEF Written
  <2>3. Settled(b)'
    BY <1>7, <1>8, <2>2, SameSettled
  <2>4. Saved(e, b)'
    BY <1>2, <1>4, <2>2 DEF Saved
  <2>5. Written(e, b)'
    BY <1>4, <2>3, <2>4 DEF Written
  <2> QED
    BY <1>1, <1>4, <2>1, <2>5 DEF BookOK, Busy
<1>9. BooksOK'
  BY <1>2, <1>4, <1>7, <1>8, OtherBooks
<1> QED
  BY <1>4, <1>5, <1>6, <1>9

(* The book is written as it was read; nobody else wrote it since.         *)
LEMMA AddBookStep ==
    ASSUME CatalogInv, NEW e \in Editors, AddBook(e)
    PROVE  CatalogInv'
<1> USE DEF CatalogInv
<1>1. PICK b : b = kbook[e]
  OBVIOUS
<1>2. /\ pc[e] = "book" /\ Finish(e)
      /\ db' = [db EXCEPT ![b] = ktext[e]]
      /\ object' = (IF backend = "memory" THEN [object EXCEPT ![b] = kobject[e]] ELSE object)
      /\ UNCHANGED <<backend, holding, shown, shownObject, docTerms, postings, trie,
                     saves, raced>>
  BY <1>1 DEF AddBook, PutBook, index
<1>3. pc[e] # "idle"
  BY <1>2
<1>4. /\ pc' \in [Editors -> Steps] /\ kbook' \in [Editors -> Books \cup {None}]
      /\ ktext' \in [Editors -> Texts \cup {None}] /\ kobject' \in [Editors -> Nat]
      /\ ThreadsOK'
      /\ kbook'[e] = None
      /\ \A f \in Editors : f # e => kbook'[f] = kbook[f]
      /\ \A c \in Books : c # b => SameThreads(c)
  BY <1>1, <1>2, <1>3, FinishFacts
<1>5. b \in Books /\ ktext[e] \in Texts /\ kobject[e] \in Nat /\ b # None
  BY <1>1, <1>3, AtWork, CatalogAssumption
<1>6. /\ db' \in [Books -> Texts \cup {None}] /\ object' \in [Books -> Nat]
      /\ db'[b] = ktext[e] /\ (backend = "memory" => object'[b] = kobject[e])
      /\ backend # "memory" => object' = object
      /\ \A c \in Books : c # b => db'[c] = db[c] /\ object'[c] = object[c]
  BY <1>2, <1>5 DEF Types
<1>7. Types'
  BY <1>2, <1>4, <1>6 DEF Types
<1>8. RowsOnly' /\ TrieOK'
  BY <1>2 DEF RowsOnly, TrieOK
<1>9. \A c \in Books : SameIndex(c) /\ SameEntries(c) /\ (c # b => SameRecords(c))
  BY <1>2, <1>6 DEF SameRecords, SameIndex, SameEntries
<1>10. ASSUME b \notin raced' PROVE BookOK(b)'
  <2>1. Written(e, b) /\ \A f \in Editors : kbook[f] = b => f = e
    BY <1>1, <1>2, <1>3, <1>10, OnlyThread
  <2>2. Settled(b) /\ Saved(e, b)
    BY <1>2, <2>1 DEF Written
  <2>3. SameRecords(b)
    BY <1>2, <1>6, <2>2 DEF SameRecords, Saved
  <2>4. Settled(b)'
    BY <1>5, <1>9, <2>2, <2>3, SameSettled
  <2>5. \A f \in Editors : kbook'[f] # b
    BY <1>4, <1>5, <2>1
  <2> QED
    BY <2>4, <2>5 DEF BookOK
<1>11. BooksOK'
  BY <1>2, <1>4, <1>9, <1>10, OtherBooks
<1> QED
  BY <1>4, <1>7, <1>8, <1>11

(* A checkout or a return touches the copy only.                           *)
LEMMA DeskStep ==
    ASSUME CatalogInv, NEW b \in Books, Desk(b)
    PROVE  CatalogInv'
<1> USE DEF CatalogInv
<1>1. /\ backend = "postgres" => holding' = holding
      /\ UNCHANGED <<backend, db, object, shown, shownObject, docTerms, postings, trie,
                     pc, kbook, ktext, kobject, saves, raced>>
  BY DEF Desk, PutCopy, index, thread
<1>2. Types' /\ ThreadsOK'
  BY <1>1 DEF Types, ThreadsOK
<1>3. RowsOnly' /\ TrieOK'
  BY <1>1 DEF RowsOnly, TrieOK
<1>4. \A c \in Books : SameRecords(c) /\ SameIndex(c) /\ SameEntries(c) /\ SameThreads(c)
  BY <1>1 DEF SameRecords, SameIndex, SameEntries, SameThreads
<1>5. BooksOK'
  BY <1>1, <1>4, SameBook DEF BooksOK
<1> QED
  BY <1>2, <1>3, <1>5

(* After a restart nothing is indexed and nobody writes.                   *)
LEMMA RestartStep ==
    ASSUME CatalogInv, Restart
    PROVE  CatalogInv'
<1> USE DEF CatalogInv
<1>1. /\ backend = "postgres"
      /\ shown' = NoText /\ shownObject' = [b \in Books |-> 0]
      /\ docTerms' = NoTerms /\ postings' = NoPostings /\ trie' = {}
      /\ pc' = [e \in Editors |-> "idle"] /\ kbook' = [e \in Editors |-> None]
      /\ ktext' = [e \in Editors |-> None] /\ kobject' = [e \in Editors |-> 0]
      /\ UNCHANGED <<backend, db, object, copy, holding, saves>>
  BY DEF Restart, stock
<1>2. Types'
  <2>1. /\ shown' \in [Books -> Texts \cup {None}] /\ shownObject' \in [Books -> Nat]
        /\ docTerms' \in [Books -> SUBSET Vocabulary]
        /\ postings' \in [Vocabulary -> SUBSET Books]
    BY <1>1 DEF NoText, NoTerms, NoPostings
  <2>2. /\ pc' \in [Editors -> Steps] /\ kbook' \in [Editors -> Books \cup {None}]
        /\ ktext' \in [Editors -> Texts \cup {None}] /\ kobject' \in [Editors -> Nat]
    BY <1>1 DEF Steps
  <2> QED
    BY <1>1, <2>1, <2>2 DEF Types
<1>3. ThreadsOK'
  BY <1>1 DEF ThreadsOK
<1>4. RowsOnly' /\ TrieOK'
  BY <1>1 DEF RowsOnly, TrieOK, Single, Weighted
<1>5. ASSUME NEW b \in Books PROVE BookOK(b)'
  <2>1. \A e \in Editors : kbook'[e] # b
    BY <1>1, CatalogAssumption
  <2>2. shown'[b] = None /\ docTerms'[b] = {} /\ \A w \in Vocabulary : postings'[w] = {}
    BY <1>1 DEF NoText, NoTerms, NoPostings
  <2>3. Indexed(b)'
    BY <1>1, <2>2 DEF Indexed, Matched
  <2>4. Named(b)'
    BY <2>2 DEF Named
  <2> QED
    BY <2>1, <2>3, <2>4 DEF BookOK, Settled
<1>6. BooksOK'
  BY <1>5 DEF BooksOK
<1> QED
  BY <1>2, <1>3, <1>4, <1>6

(***************************************************************************)
(* Theorems                                                                *)
(***************************************************************************)
(* Every step keeps the invariant.                                         *)
LEMMA NextCatalog == CatalogInv /\ [Next]_vars => CatalogInv'
<1> SUFFICES ASSUME CatalogInv, [Next]_vars PROVE CatalogInv'
  OBVIOUS
<1>1. Registered \subseteq Books
  BY CatalogAssumption
<1>2. ASSUME NEW e \in Editors, NEW b \in Registered, NEW t \in Texts, SaveBook(e, b, t)
      PROVE  CatalogInv'
  BY <1>1, <1>2, SaveBookStep
<1>3. ASSUME NEW e \in Editors, NEW b \in Registered, AddRead(e, b) PROVE CatalogInv'
  BY <1>1, <1>3, AddReadStep
<1>4. ASSUME NEW e \in Editors,
             \/ IndexDiscard(e) \/ IndexClear(e) \/ IndexAdd(e) \/ TrieAndGraph(e)
             \/ AddCopy(e) \/ AddBook(e)
      PROVE  CatalogInv'
  BY <1>4, IndexDiscardStep, IndexClearStep, IndexAddStep, TrieAndGraphStep, AddCopyStep,
     AddBookStep
<1>5. ASSUME NEW b \in Registered, Desk(b) PROVE CatalogInv'
  BY <1>1, <1>5, DeskStep
<1>6. CASE Restart
  BY <1>6, RestartStep
<1>7. CASE UNCHANGED vars
  <2>1. UNCHANGED <<backend, db, object, holding, shown, shownObject, docTerms, postings,
                    trie, pc, kbook, ktext, kobject, saves, raced>>
    BY <1>7 DEF vars, stock, index, thread
  <2>2. Types' /\ ThreadsOK' /\ RowsOnly' /\ TrieOK'
    BY <2>1 DEF CatalogInv, Types, ThreadsOK, RowsOnly, TrieOK
  <2>3. \A c \in Books : SameRecords(c) /\ SameIndex(c) /\ SameEntries(c) /\ SameThreads(c)
    BY <2>1 DEF SameRecords, SameIndex, SameEntries, SameThreads
  <2>4. BooksOK'
    BY <2>1, <2>3, SameBook DEF BooksOK, CatalogInv
  <2> QED
    BY <2>2, <2>4 DEF CatalogInv
<1> QED
  BY <1>2, <1>3, <1>4, <1>5, <1>6, <1>7 DEF Next

(* The index, the trie and the database of a book agree whenever nobody    *)
(* writes it, and on the way there in every step of the thread that does.  *)
THEOREM CatalogInvariant == Spec => []CatalogInv
<1>1. Init => CatalogInv
  BY InitCatalog
<1>2. CatalogInv /\ [Next]_vars => CatalogInv'
  BY NextCatalog
<1> QED
  BY <1>1, <1>2, PTL DEF Spec

(* The matches of a query, as the catalogue has a book.                    *)
Wanted(b, w, least, only) ==
    /\ shown[b] # None
    /\ w \in Words[db[b]] /\ Rating[db[b]] >= least
    /\ only => /\ PageAvailable(b)
               /\ backend = "memory" \/ db[b] \notin Physical

(* The index matches a book that nobody writes exactly when it should.     *)
LEMMA SettledMatches ==
    ASSUME Types, RowsOnly, NEW b \in Books, Settled(b), NEW w \in Vocabulary, NEW least,
           NEW only \in BOOLEAN
    PROVE  b \in Matches(w, least, only) <=> Wanted(b, w, least, only)
<1>1. /\ shown[b] \in {None, db[b]}
      /\ docTerms[b] = (IF shown[b] = None THEN {} ELSE Words[shown[b]])
      /\ Matched(b)
      /\ backend = "memory" => shownObject[b] = object[b]
  BY DEF Settled, Indexed
<1>2. CASE shown[b] = None
  BY <1>2 DEF Matches, Wanted
<1>3. CASE shown[b] # None
  <2>1. shown[b] = db[b]
    BY <1>1, <1>3
  <2>2. b \in postings[w] <=> w \in Words[db[b]]
    BY <1>1, <1>3, <2>1 DEF Matched
  <2>3. b \in Matches(w, least, only)
          <=> /\ w \in Words[db[b]] /\ Rating[db[b]] >= least
              /\ only => IsAvailable(b, shown[b], shownObject[b])
    BY <1>3, <2>1, <2>2 DEF Matches
  <2>4. CASE backend = "memory"
    <3>1. PageAvailable(b) <=> IsAvailable(b, shown[b], shownObject[b])
      BY <1>1, <2>1, <2>4 DEF PageAvailable
    <3> QED
      BY <1>3, <2>3, <2>4, <3>1 DEF Wanted
  <2>5. CASE backend = "postgres"
    <3>1. holding = {}
      BY <2>5 DEF RowsOnly
    <3>2. IsAvailable(b, shown[b], shownObject[b]) <=> db[b] \notin Physical
      BY <2>1, <3>1 DEF IsAvailable
    <3>3. db[b] \notin Physical => PageAvailable(b)
      BY <2>5 DEF PageAvailable
    <3> QED
      BY <1>3, <2>3, <2>5, <3>2, <3>3 DEF Wanted
  <2> QED
    BY <2>4, <2>5 DEF Types
<1> QED
  BY <1>2, <1>3

(* An answer has matches only, and all of them unless it is full.          *)
LEMMA SearchAnswers ==
    ASSUME NEW w, NEW least, NEW only, NEW A \in Search(w, least, only), NEW b
    PROVE  /\ b \in A => b \in Matches(w, least, only)
           /\ b \in Matches(w, least, only) => b \in A \/ Cardinality(A) = SearchLimit
BY DEF Search

(* So does what search answers for a book that nobody writes.              *)
LEMMA SettledSearch ==
    ASSUME Types, RowsOnly, NEW b \in Books, Settled(b)
    PROVE  /\ shown[b] \in {None, db[b]}
           /\ \A w \in Vocabulary, least \in {Rating[t] : t \in Texts}, only \in BOOLEAN :
                 \A A \in Search(w, least, only) :
                    /\ b \in A => Wanted(b, w, least, only)
                    /\ Wanted(b, w, least, only) => b \in A \/ Cardinality(A) = SearchLimit
<1>1. shown[b] \in {None, db[b]}
  BY DEF Settled, Indexed
<1>2. ASSUME NEW w \in Vocabulary, NEW least, NEW only \in BOOLEAN,
             NEW A \in Search(w, least, only)
      PROVE  /\ b \in A => Wanted(b, w, least, only)
             /\ Wanted(b, w, least, only) => b \in A \/ Cardinality(A) = SearchLimit
  BY SettledMatches, SearchAnswers
<1> QED
  BY <1>1, <1>2

(* A set of bounded naturals that is not empty has a greatest element.     *)
LEMMA Greatest ==
    ASSUME NEW S \in SUBSET (0 .. HighestWeight), S # {}
    PROVE  \E n \in S : \A m \in S : m <= n
<1> DEFINE D == {n \in Nat : n <= HighestWeight /\ HighestWeight - n \in S}
<1>1. D \subseteq Nat /\ D # {}
  <2>1. PICK n \in S : n \in 0 .. HighestWeight
    OBVIOUS
  <2>2. HighestWeight - n \in Nat /\ HighestWeight - (HighestWeight - n) = n
    BY <2>1 DEF HighestWeight
  <2>3. HighestWeight - n \in D
    BY <2>1, <2>2 DEF HighestWeight
  <2> QED
    BY <2>3
<1> HIDE DEF D
<1>2. PICK x \in D : \A y \in D : ~ (<<y, x>> \in OpToRel(<, Nat))
  BY <1>1, WFMin, NatLessThanWellFounded, Zenon
<1>3. \A y \in D : ~ (y < x)
  BY <1>1, <1>2 DEF OpToRel
<1>4. x \in Nat /\ HighestWeight - x \in S
  BY <1>1, <1>2 DEF D
<1>5. ASSUME NEW m \in S PROVE m <= HighestWeight - x
  <2>1. HighestWeight - m \in D
    BY DEF D, HighestWeight
  <2>2. ~ (HighestWeight - m < x)
    BY <1>3, <2>1
  <2> QED
    BY <1>4, <2>2 DEF HighestWeight
<1> QED
  BY <1>4, <1>5

(* Below a prefix a book with an entry has a best one.                     *)
LEMMA BestExists ==
    ASSUME TrieOK, NEW P, NEW e \in trie, e.phrase \in P
    PROVE  \E y \in BestItems(P) : y.book = e.book /\ y.weight >= e.weight
<1> DEFINE E == {x \in trie : x.phrase \in P /\ x.book = e.book}
           S == {x.weight : x \in E}
<1>1. S \in SUBSET (0 .. HighestWeight) /\ S # {} /\ e.weight \in S
  BY DEF TrieOK, Weighted
<1>2. PICK n \in S : \A m \in S : m <= n
  BY <1>1, Greatest
<1>3. PICK y \in E : y.weight = n
  BY <1>2
<1>4. \A x \in E : x.weight <= y.weight
  BY <1>2, <1>3
<1>5. y \in BestItems(P)
  BY <1>3, <1>4 DEF BestItems
<1>6. e.weight <= y.weight /\ y.weight \in Nat /\ e.weight \in Nat
  BY <1>3, <1>4 DEF TrieOK, Weighted, HighestWeight
<1> QED
  BY <1>3, <1>5, <1>6

(* What autocomplete answers below prefix P for book b with name n.        *)
OfferedAs(b, P, A, n) ==
    /\ \/ \E x \in A : x.book = b
       \/ Cardinality(A) = SuggestLimit /\ \A x \in A : x.weight >= n[2]
    /\ \A x \in A : x.book = b /\ x.text # shown[b] =>
          /\ \A m \in Names(shown[b]) : x.phrase # m[1]
          /\ x.weight >= n[2]

(* A book that has its names in the trie is offered so: among the entries  *)
(* below the prefix there is a best one of the book, it weighs as much as  *)
(* the name, and the entry of a name has the last text.                    *)
LEMMA SettledNames ==
    ASSUME TrieOK, NEW b, NEW t, t = shown[b], t \in Texts, HasNames(trie, b, t), NEW P,
           NEW A \in Suggestions(P), NEW n \in Names(t), n[1] \in P
    PROVE  OfferedAs(b, P, A, n)
<1>1. /\ A \subseteq BestItems(P)
      /\ \A y \in BestItems(P) :
            \/ \E x \in A : x.book = y.book
            \/ Cardinality(A) = SuggestLimit /\ \A x \in A : x.weight >= y.weight
  BY DEF Suggestions
<1>2. n[2] \in Nat
  BY CatalogAssumption DEF Names, Title, Author
<1>3. PICK e \in trie : e.phrase = n[1] /\ e.book = b /\ e.text = t /\ e.weight >= n[2]
  BY DEF Names, HasNames, HasName
<1>4. \A x \in trie : x.weight \in Nat
  BY DEF TrieOK, Weighted, HighestWeight
<1>5. ASSUME NEW x \in A, x.book = b PROVE x.weight >= n[2]
  <2>1. x \in trie /\ e.weight <= x.weight
    BY <1>1, <1>3, <1>5 DEF BestItems
  <2> QED
    BY <1>2, <1>3, <1>4, <2>1
<1>6. ASSUME NEW x \in A, x.book = b, NEW m \in Names(t), x.phrase = m[1] PROVE x.text = t
  <2>1. PICK y \in trie : y.phrase = m[1] /\ y.book = b /\ y.text = t
    BY <1>6 DEF Names, HasNames, HasName
  <2>2. x = y
    BY <1>1, <1>6, <2>1 DEF BestItems, TrieOK, Single
  <2> QED
    BY <2>1, <2>2
<1>7. ASSUME \A x \in A : x.book # b
      PROVE  Cardinality(A) = SuggestLimit /\ \A x \in A : x.weight >= n[2]
  <2>1. PICK y \in BestItems(P) : y.book = b /\ y.weight >= e.weight
    BY <1>3, BestExists
  <2>2. Cardinality(A) = SuggestLimit /\ \A x \in A : x.weight >= y.weight
    BY <1>1, <1>7, <2>1
  <2>3. y.weight \in Nat /\ \A x \in A : x.weight \in Nat
    BY <1>1, <1>4 DEF BestItems
  <2>4. \A x \in A : x.weight >= n[2]
    BY <1>2, <1>3, <1>4, <2>1, <2>2, <2>3
  <2> QED
    BY <2>2, <2>4
<1> QED
  BY <1>5, <1>6, <1>7 DEF OfferedAs

(* Search finds a book that nobody writes by the words of its last text,   *)
(* unless the limit is full, and by no former word, whatever other         *)
(* registrations, copies, loans and restarts went on; and a search for     *)
(* available books agrees with the page of the book in memory, and finds   *)
(* digital books only on PostgreSQL.                                       *)
THEOREM SearchIsCurrent == Spec => []SearchFollowsCatalog
<1>1. CatalogInv => SearchFollowsCatalog
  <2>1. SUFFICES ASSUME CatalogInv, NEW b \in Books \ raced, ~ Busy(b)
        PROVE  /\ shown[b] \in {None, db[b]}
               /\ \A w \in Vocabulary, least \in {Rating[t] : t \in Texts}, only \in BOOLEAN :
                     \A A \in Search(w, least, only) :
                        /\ b \in A => Wanted(b, w, least, only)
                        /\ Wanted(b, w, least, only)
                              => b \in A \/ Cardinality(A) = SearchLimit
    BY Zenon DEF SearchFollowsCatalog, Wanted
  <2>2. Types /\ RowsOnly /\ Settled(b)
    BY <2>1 DEF CatalogInv, BooksOK, BookOK
  <2> QED
    BY <2>1, <2>2, SettledSearch
<1> QED
  BY <1>1, CatalogInvariant, PTL

(* Whatever begins the title or the author of a book's last registration   *)
(* makes autocomplete offer the book as that registration wrote it, unless *)
(* the limit is full of books that weigh as much, or a former title or     *)
(* author that begins the same way does and is offered instead.            *)
THEOREM NamesAreSuggested == Spec => []SuggestedByName
<1>1. CatalogInv => SuggestedByName
  <2>1. SUFFICES ASSUME CatalogInv, NEW b \in Books \ raced, ~ Busy(b), shown[b] # None,
                        NEW P \in QueryPrefixes, NEW A \in Suggestions(P),
                        NEW n \in Names(shown[b]), n[1] \in P
        PROVE  OfferedAs(b, P, A, n)
    BY DEF SuggestedByName, OfferedAs
  <2>2. TrieOK /\ HasNames(trie, b, shown[b]) /\ shown[b] \in Texts
    BY <2>1 DEF CatalogInv, BooksOK, BookOK, Settled, Named, Types
  <2> QED
    BY <2>1, <2>2, SettledNames
<1> QED
  BY <1>1, CatalogInvariant, PTL
=============================================================================
