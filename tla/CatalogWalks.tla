----------------------------- MODULE CatalogWalks -----------------------------
(***************************************************************************)
(* dsa/graph.py: the walks over the graph of related                       *)
(* books that Catalog keeps.                                               *)
(***************************************************************************)
EXTENDS Catalog, Sequences, SequencesExt

CONSTANTS
    Weight,        \* weight of a relation of two books
    MaxDepth       \* max_depth of dfs_learning_path

ASSUME WalksAssumption ==
    /\ \A p \in Pairs : Weight[p] \in Nat \ {0}
    /\ MaxDepth \in Nat

SeedOrder == SetToSortSeq(Books, LAMBDA x, y : x < y)

(* Neighbours of a book, in the order the seed relates them.               *)
Neighbours(b) ==
    SelectSeq(SeedOrder, LAMBDA c : c # b /\ {b, c} \in relation)

(* bfs_shortest_path: a queue of paths; <<>> for None.                     *)
RECURSIVE Bfs(_, _, _)
Bfs(queue, visited, target) ==
    IF queue = <<>> THEN <<>>
    ELSE LET path == Head(queue)
             fresh == SelectSeq(Neighbours(Last(path)), LAMBDA c : c \notin visited)
         IN  IF Last(path) = target THEN path
             ELSE Bfs(Tail(queue) \o [i \in 1 .. Len(fresh) |-> Append(path, fresh[i])],
                      visited \cup ToSet(fresh), target)

ShortestPath(a, b) == Bfs(<<<<a>>>>, {a}, b)

(* Fault: one relation too far.                                            *)
RECURSIVE DfsTooDeep(_, _, _)
DfsTooDeep(path, b, depth) ==
    IF depth > MaxDepth + 1 \/ b \in ToSet(path) THEN path
    ELSE FoldLeft(LAMBDA p, c : DfsTooDeep(p, c, depth + 1), Append(path, b), Neighbours(b))

(* dfs_learning_path: what a visit of a book adds to the path so far, the  *)
(* heaviest relations first.                                               *)
RECURSIVE Dfs(_, _, _)
Dfs(path, b, depth) ==
    IF depth > MaxDepth \/ b \in ToSet(path) THEN path
    ELSE LET byWeight == SortSeq(Neighbours(b),
                            LAMBDA x, y : Weight[{b, x}] > Weight[{b, y}])
         IN  FoldLeft(LAMBDA p, c : Dfs(p, c, depth + 1), Append(path, b), byWeight)

LearningPath(a) == Dfs(<<>>, a, 1)

(* get_related_recommendations: neighbours and theirs, but not the book.   *)
Related(a) ==
    LET near == ToSet(Neighbours(a))
    IN  (near \cup UNION {ToSet(Neighbours(c)) : c \in near}) \ {a}
-----------------------------------------------------------------------------
(* Reference: books at most n relations away.                              *)
Ball(a, n) ==
    LET ball[i \in 0 .. n] ==
          IF i = 0 THEN {a}
          ELSE ball[i - 1] \cup UNION {ToSet(Neighbours(c)) : c \in ball[i - 1]}
    IN  ball[n]

Linked(p) == \A i \in 1 .. Len(p) - 1 : p[i + 1] \in ToSet(Neighbours(p[i]))

(* The walks over related books: a shortest path is one, or there is none; *)
(* a learning path has no book twice, takes the heaviest relation first,   *)
(* reaches every book from one before it and nothing beyond its depth;     *)
(* recommendations are the books one or two relations away.                *)
WalksAreSound ==
    \A a \in nodes :
        /\ \A b \in nodes :
              LET p == ShortestPath(a, b)
              IN  IF p = <<>> THEN b \notin Ball(a, Cardinality(Books))
                  ELSE /\ p[1] = a /\ Last(p) = b /\ Linked(p)
                       /\ Len(p) > 1 => b \notin Ball(a, Len(p) - 2)
        /\ LET p == LearningPath(a)
           IN  /\ p[1] = a /\ Cardinality(ToSet(p)) = Len(p)
               /\ \A i \in 2 .. Len(p) :
                     \E j \in 1 .. i - 1 : p[i] \in ToSet(Neighbours(p[j]))
               /\ \A c \in ToSet(Neighbours(a)) :
                     Weight[{a, c}] <= Weight[{a, p[2]}]
               /\ ToSet(p) \subseteq Ball(a, MaxDepth - 1)
        /\ Related(a) = Ball(a, 2) \ {a}
=============================================================================
