------------------------------- MODULE Catalog -------------------------------
(***************************************************************************)
(* services/catalog_service.py and the search structures it feeds: the     *)
(* inverted index, the autocomplete trie and the graph of related books    *)
(* (CatalogWalks has the walks over it).                                   *)
(* They live in the process and have no lock.  PostgreSQL keeps the books  *)
(* over a restart, the search structures start empty; the in-memory        *)
(* backend starts from seed.py, related books included.                    *)
(*                                                                         *)
(* A text is what a registration says of a book: its words, the phrases of *)
(* its title and its author, its rating, its format.  A prefix is the set  *)
(* of phrases that begin with it, so the subtree below its node.  The      *)
(* relevance score that ranks the results of a search is left out: any     *)
(* results may be the ones that the limit keeps.                           *)
(*                                                                         *)
(* Every registration makes a Book object, numbered here.  The index keeps *)
(* the object it was given.  The in-memory repository keeps it too, and    *)
(* hangs copies into it; PostgreSQL keeps rows and makes objects to read.  *)
(* A book has one copy: Transfers adds a copy id twice.                    *)
(***************************************************************************)
EXTENDS Integers, FiniteSets, FiniteSetsExt

CONSTANTS
    Books,         \* isbns, as numbers
    Registered,    \* the ones that requests register
    Editors,       \* threads in register_book
    Texts, Words, TitlePhrase, AuthorPhrase, Rating,
    Physical,      \* texts of the PHYSICAL format; the others are digital
    SeedText,      \* the text of a book in seed.py
    QueryPrefixes, \* what is typed for autocomplete
    SearchLimit,   \* limit of search, 20
    SuggestLimit,  \* limit of autocomplete, 8
    MaxSaves,      \* bound: registrations
    None

ASSUME CatalogAssumption ==
    /\ Books \subseteq Nat /\ Registered \subseteq Books
    /\ None \notin Books /\ None \notin Texts
    /\ MaxSaves \in Nat /\ Physical \subseteq Texts
    /\ SearchLimit \in Nat /\ SuggestLimit \in Nat
    /\ SeedText \in Texts /\ \A t \in Texts : Rating[t] \in 1 .. 5

Vocabulary == UNION {Words[t] : t \in Texts}
Pairs == {p \in SUBSET Books : Cardinality(p) = 2}

VARIABLES
    backend,
    db,            \* committed text of a book, or None
    object,        \* in memory, the Book object of the repository
    copy,          \* status of the book's copy, None before there is one
    holding,       \* <<book, object>>: Book objects with the copy in .copies
    shown,         \* index.books: the text the index has of a book
    shownObject,   \* and its object
    docTerms,      \* doc_term_freq: words the index thinks it has of a book
    postings,      \* index: word -> books
    trie,          \* payloads: phrase, book, text displayed, weight
    nodes,         \* books in the graph
    relation,      \* pairs of related books
    pc, kbook, ktext, kobject, saves,
    raced          \* history: books written by two threads at a time

stock == <<copy, holding>>
index == <<shown, shownObject, docTerms, postings>>
graph == <<nodes, relation>>
thread == <<kbook, ktext, kobject>>
vars == <<backend, db, object, stock, index, trie, graph, pc, thread, saves, raced>>

NoText == [b \in Books |-> None]
NoTerms == [b \in Books |-> {}]
NoPostings == [w \in Vocabulary |-> {}]

(* Fault: a book that is there already is left alone.                      *)
InsertOnce(T, phrase, b, text, weight) ==
    IF \E x \in T : x.phrase = phrase /\ x.book = b THEN T
    ELSE T \cup {[phrase |-> phrase, book |-> b, text |-> text, weight |-> weight]}

(* insert: a second insertion of the book replaces the text and keeps the  *)
(* higher weight.                                                          *)
Insert(T, phrase, b, text, weight) ==
    LET old == {x \in T : x.phrase = phrase /\ x.book = b}
    IN  (T \ old) \cup {[phrase |-> phrase, book |-> b, text |-> text,
                         weight |-> Max({weight} \cup {x.weight : x \in old})]}

(* The phrases of a text and their weights, in tenths: the rating for the  *)
(* title, nine tenths of it for the author.                                *)
Title(t) == <<TitlePhrase[t], 10 * Rating[t]>>
Author(t) == <<AuthorPhrase[t], 9 * Rating[t]>>
Names(t) == {Title(t), Author(t)}

InsertNames(T, b, t) ==
    Insert(Insert(T, Title(t)[1], b, t, Title(t)[2]), Author(t)[1], b, t, Author(t)[2])

(* seed_library registers every book and relates some of them; PostgreSQL  *)
(* starts as it was left, here without books.                              *)
Init ==
    /\ backend \in {"memory", "postgres"}
    /\ nodes = IF backend = "memory" THEN Books ELSE {}
    /\ relation \in SUBSET {p \in Pairs : p \subseteq nodes}
    /\ db = [b \in Books |-> IF b \in nodes THEN SeedText ELSE None]
    /\ object = [b \in Books |-> 0]
    /\ copy = [b \in Books |->
                 IF b \in nodes /\ SeedText \in Physical THEN "AVAILABLE" ELSE None]
    /\ holding = {<<b, 0>> : b \in {b \in Books : copy[b] # None}}
    /\ shown = db /\ shownObject = object
    /\ docTerms = [b \in Books |-> IF b \in nodes THEN Words[SeedText] ELSE {}]
    /\ postings = [w \in Vocabulary |-> IF w \in Words[SeedText] THEN nodes ELSE {}]
    /\ trie = UNION {InsertNames({}, b, SeedText) : b \in nodes}
    /\ pc = [e \in Editors |-> "idle"]
    /\ kbook = [e \in Editors |-> None]
    /\ ktext = [e \in Editors |-> None]
    /\ kobject = [e \in Editors |-> 0]
    /\ saves = 0 /\ raced = {}

Goto(e, l) == pc' = [pc EXCEPT ![e] = l]
Busy(b) == \E e \in Editors : kbook[e] = b

(***************************************************************************)
(* register_book: the database, then the index in three steps, then the    *)
(* trie and the graph.                                                     *)
(***************************************************************************)
Start(e, b, t, o, l) ==
    /\ kbook' = [kbook EXCEPT ![e] = b]
    /\ ktext' = [ktext EXCEPT ![e] = t]
    /\ kobject' = [kobject EXCEPT ![e] = o]
    /\ raced' = IF Busy(b) THEN raced \cup {b} ELSE raced
    /\ Goto(e, l)

Finish(e) ==
    /\ kbook' = [kbook EXCEPT ![e] = None]
    /\ ktext' = [ktext EXCEPT ![e] = None]
    /\ kobject' = [kobject EXCEPT ![e] = 0]
    /\ Goto(e, "idle")

(* save_book: the row on PostgreSQL, the object itself in memory.          *)
PutBook(b, t, o) ==
    /\ db' = [db EXCEPT ![b] = t]
    /\ object' = IF backend = "memory" THEN [object EXCEPT ![b] = o] ELSE object

(* create_book: an object of the class of the format, without copies.      *)
CreateBook == saves + 1

SaveBook(e, b, t) ==
    /\ pc[e] = "idle" /\ saves < MaxSaves
    /\ PutBook(b, t, CreateBook)
    /\ saves' = saves + 1
    /\ Start(e, b, t, CreateBook, "discard")
    /\ UNCHANGED <<backend, stock, index, trie, graph>>

(* Fault: the old words of the book stay in the index.                     *)
IndexKeep(e) ==
    /\ pc[e] = "discard"
    /\ shown' = [shown EXCEPT ![kbook[e]] = ktext[e]]
    /\ shownObject' = [shownObject EXCEPT ![kbook[e]] = kobject[e]]
    /\ Goto(e, "clear")
    /\ UNCHANGED <<backend, db, object, stock, docTerms, postings, trie, graph, thread, saves, raced>>

IndexDiscard(e) ==
    LET b == kbook[e]
    IN  /\ pc[e] = "discard"
        /\ shown' = [shown EXCEPT ![b] = ktext[e]]
        /\ shownObject' = [shownObject EXCEPT ![b] = kobject[e]]
        /\ postings' = [w \in Vocabulary |->
                           IF w \in docTerms[b] THEN postings[w] \ {b} ELSE postings[w]]
        /\ Goto(e, "clear")
        /\ UNCHANGED <<backend, db, object, stock, docTerms, trie, graph, thread, saves, raced>>

IndexClear(e) ==
    /\ pc[e] = "clear"
    /\ docTerms' = [docTerms EXCEPT ![kbook[e]] = {}]
    /\ Goto(e, "add")
    /\ UNCHANGED <<backend, db, object, stock, shown, shownObject, postings, trie, graph,
                   thread, saves, raced>>

IndexAdd(e) ==
    LET b == kbook[e]
        new == Words[ktext[e]]
    IN  /\ pc[e] = "add"
        /\ postings' = [w \in Vocabulary |->
                           IF w \in new THEN postings[w] \cup {b} ELSE postings[w]]
        /\ docTerms' = [docTerms EXCEPT ![b] = @ \cup new]
        /\ Goto(e, "trie")
        /\ UNCHANGED <<backend, db, object, stock, shown, shownObject, trie, graph,
                       thread, saves, raced>>

TrieAndGraph(e) ==
    /\ pc[e] = "trie"
    /\ trie' = InsertNames(trie, kbook[e], ktext[e])
    /\ nodes' = nodes \cup {kbook[e]}
    /\ Finish(e)
    /\ UNCHANGED <<backend, db, object, stock, index, relation, saves, raced>>

(***************************************************************************)
(* add_physical_copy: the book is read, the copy is saved, and then the    *)
(* book as it was read.                                                    *)
(***************************************************************************)
AddRead(e, b) ==
    /\ pc[e] = "idle"
    /\ db[b] \in Physical /\ copy[b] = None
    /\ \A f \in Editors : pc[f] \in {"copy", "book"} => kbook[f] # b
    /\ Start(e, b, db[b], object[b], "copy")
    /\ UNCHANGED <<backend, db, object, stock, index, trie, graph, saves>>

(* save_copy: in memory the book of the moment gets the copy, if it is a   *)
(* PhysicalBook; others are objects that have the copy already.            *)
PutCopy(b, status, others) ==
    /\ copy' = [copy EXCEPT ![b] = status]
    /\ holding' = IF backend = "postgres" THEN holding
                  ELSE holding \cup others
                       \cup (IF db[b] \in Physical THEN {<<b, object[b]>>} ELSE {})

AddCopy(e) ==
    /\ pc[e] = "copy"
    /\ PutCopy(kbook[e], "AVAILABLE", {<<kbook[e], kobject[e]>>})
    /\ Goto(e, "book")
    /\ UNCHANGED <<backend, db, object, index, trie, graph, thread, saves, raced>>

(* On PostgreSQL save_book also merges the copies as they were read.       *)
AddBook(e) ==
    /\ pc[e] = "book"
    /\ PutBook(kbook[e], ktext[e], kobject[e])
    /\ copy' = IF backend = "postgres" THEN [copy EXCEPT ![kbook[e]] = "AVAILABLE"] ELSE copy
    /\ Finish(e)
    /\ UNCHANGED <<backend, holding, index, trie, graph, saves, raced>>

(* A checkout or a return saves the copy, with its new status.             *)
Desk(b) ==
    /\ copy[b] # None
    /\ PutCopy(b, IF copy[b] = "AVAILABLE" THEN "ISSUED" ELSE "AVAILABLE", {})
    /\ UNCHANGED <<backend, db, object, index, trie, graph, pc, thread, saves, raced>>

(* The process starts again: PostgreSQL has the books, nothing reads them. *)
Restart ==
    /\ backend = "postgres" /\ saves > 0
    /\ shown' = NoText /\ shownObject' = [b \in Books |-> 0]
    /\ docTerms' = NoTerms /\ postings' = NoPostings /\ trie' = {}
    /\ nodes' = {}
    /\ pc' = [e \in Editors |-> "idle"]
    /\ kbook' = [e \in Editors |-> None]
    /\ ktext' = [e \in Editors |-> None]
    /\ kobject' = [e \in Editors |-> 0]
    /\ raced' = {}
    /\ UNCHANGED <<backend, db, object, stock, relation, saves>>

Next ==
    \/ \E e \in Editors :
          \/ \E b \in Registered, t \in Texts : SaveBook(e, b, t)
          \/ IndexDiscard(e) \/ IndexClear(e) \/ IndexAdd(e) \/ TrieAndGraph(e)
          \/ \E b \in Registered : AddRead(e, b)
          \/ AddCopy(e) \/ AddBook(e)
    \/ \E b \in Registered : Desk(b)
    \/ Restart

Spec == Init /\ [][Next]_vars

(***************************************************************************)
(* Queries                                                                 *)
(***************************************************************************)
(* is_available of a Book object with text t: a digital book always is, as *)
(* nothing takes read access.                                              *)
IsAvailable(b, t, o) ==
    t \notin Physical \/ (<<b, o>> \in holding /\ copy[b] = "AVAILABLE")

(* The candidates of a query of one word that pass the filters: a least    *)
(* rating and, with only, the availability of the index's object.          *)
Matches(w, least, only) ==
    {b \in postings[w] : /\ shown[b] # None /\ Rating[shown[b]] >= least
                         /\ only => IsAvailable(b, shown[b], shownObject[b])}

(* search: the answers it may give, the best of the matches up to a limit. *)
Search(w, least, only) ==
    LET found == Matches(w, least, only)
    IN  {A \in SUBSET found : /\ Cardinality(A) <= SearchLimit
                              /\ A # found => Cardinality(A) = SearchLimit}

(* is_available on the page of a book: get_book, then to_dict.             *)
PageAvailable(b) ==
    IF backend = "memory" THEN IsAvailable(b, db[b], object[b])
    ELSE db[b] \notin Physical \/ copy[b] = "AVAILABLE"

(* search_prefix, the walk: a best payload of every book below the prefix. *)
BestItems(P) ==
    {x \in trie : /\ x.phrase \in P
                  /\ \A y \in trie :
                        y.phrase \in P /\ y.book = x.book => y.weight <= x.weight}

(* search_prefix: the answers it may give.  One payload of a book, the     *)
(* heaviest books up to a limit; equal weights are ordered by the text,    *)
(* and those of one book by the walk, which is left open.                  *)
Suggestions(P) ==
    {A \in SUBSET BestItems(P) :
        /\ \A x, y \in A : x.book = y.book => x = y
        /\ Cardinality(A) <= SuggestLimit
        /\ \A y \in BestItems(P) :
              \/ \E x \in A : x.book = y.book
              \/ Cardinality(A) = SuggestLimit /\ \A x \in A : x.weight >= y.weight}
-----------------------------------------------------------------------------
(* Search finds a registered book by the words of its last text, unless    *)
(* the limit is full, shows that text, and finds it by no former word, for *)
(* every interleaving with other threads; only two threads writing one     *)
(* book at a time break this, and a book not registered since the start is *)
(* not found.  In memory a search for available books agrees with the page *)
(* of the book; on PostgreSQL it finds digital books only: the index's     *)
(* objects never learn of a copy.                                          *)
SearchFollowsCatalog ==
    \A b \in Books \ raced : ~ Busy(b) =>
        /\ shown[b] \in {None, db[b]}
        /\ \A w \in Vocabulary, least \in {Rating[t] : t \in Texts}, only \in BOOLEAN :
           LET wanted == /\ shown[b] # None
                         /\ w \in Words[db[b]] /\ Rating[db[b]] >= least
                         /\ only => /\ PageAvailable(b)
                                    /\ backend = "memory" \/ db[b] \notin Physical
           IN  \A A \in Search(w, least, only) :
                  /\ b \in A => wanted
                  /\ wanted => b \in A \/ Cardinality(A) = SearchLimit

(* Whatever begins the title or the author of a book's last registration   *)
(* makes autocomplete offer the book, unless the limit is full of books    *)
(* that weigh as much, and offer it as that registration wrote it, even    *)
(* where an earlier one rated it higher.  The exception: a former title or *)
(* author stays in the trie, and is offered instead where it begins the    *)
(* same way and weighs as much.                                            *)
SuggestedByName ==
    \A b \in Books \ raced : ~ Busy(b) /\ shown[b] # None =>
        \A P \in QueryPrefixes : \A A \in Suggestions(P) : \A n \in Names(shown[b]) :
            n[1] \in P =>
              /\ \/ \E x \in A : x.book = b
                 \/ Cardinality(A) = SuggestLimit /\ \A x \in A : x.weight >= n[2]
              /\ \A x \in A : x.book = b /\ x.text # shown[b] =>
                    /\ \A m \in Names(shown[b]) : x.phrase # m[1]
                    /\ x.weight >= n[2]
=============================================================================
