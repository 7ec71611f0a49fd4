SPECIFICATION Spec
CONSTANTS
    Ids = {1, 2, 3}
    Related = {1, 2, 3}
    LiveRelated = {1, 2}
    Relations <- AllRelations
    Predicates <- TwoPredicates
    Groups <- OneGroup
    Closures <- OneClosure
    Counts <- AtLeastTwo
    Contexts = {"t1", "t2"}
    Scopes <- TenantOnly
    ScopeAdds <- AndScopes
    ScopeFaults = {"rejects", "fails"}
    Limits = {1}
    Pages = {1, 2}
    MaxCalls = 3
INVARIANTS TypeOK CountsAreOfLiveRelated
PROPERTIES AnswerAsAsked NoRowEscapes
