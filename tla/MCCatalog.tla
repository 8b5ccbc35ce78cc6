------------------------------ MODULE MCCatalog ------------------------------
(* Two texts of one book, of one author, that differ in a word, in the     *)
(* rating, in the format and in the title: the title of the second goes on *)
(* where that of the first ends.  Every relation has a weight of its own.  *)
EXTENDS CatalogWalks

TwoWords == [t \in Texts |-> IF t = "first" THEN {"w1", "w2"} ELSE {"w2", "w3"}]
TwoTitles == [t \in Texts |-> IF t = "first" THEN "title" ELSE "title, continued"]
OneAuthor == [t \in Texts |-> "author"]
Typed == {{"title", "title, continued"}, {"title, continued"}, {"author"},
          {"title", "title, continued", "author"}}
Ratings == [t \in Texts |-> IF t = "first" THEN 4 ELSE 5]
PairWeight == [p \in SUBSET Books |->
                 IF Cardinality(p) = 2 THEN Max(p) * 10 - Min(p) ELSE 0]
=============================================================================
