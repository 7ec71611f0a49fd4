SPECIFICATION Spec
CONSTANTS
    Ids = {1, 2, 3}
    Related = {1, 2, 3}
    LiveRelated = {1, 2}
    Relations <- JustDirect
    Predicates <- TwoPredicates
    Groups <- NoLists
    Closures <- OrClosure
    Counts <- NoLists
    Contexts = {"t1", "t2"}
    Scopes <- TenantOnly
    ScopeAdds <- AndScopes
    ScopeFaults = {}
    Limits = {1}
    Pages = {1, 2}
    MaxCalls = 3
PROPERTIES AnswerAsAsked
