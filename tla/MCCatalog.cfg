SPECIFICATION Spec
CONSTANTS
    Books = {1, 2, 3}
    Registered = {1, 2}
    Editors = {e1, e2}
    Texts = {"first", "second"}
    Words <- TwoWords
    TitlePhrase <- TwoTitles
    AuthorPhrase <- OneAuthor
    Rating <- Ratings
    SeedText = "second"
    Weight <- PairWeight
    Physical = {"first"}
    MaxDepth = 2
    QueryPrefixes <- Typed
    SearchLimit = 2
    SuggestLimit = 2
    MaxSaves = 2
    None = None
INVARIANTS
    SearchFollowsCatalog
    
    WalksAreSound
CHECK_DEADLOCK FALSE
