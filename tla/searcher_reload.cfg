CONSTANTS
    d1 = d1
    d2 = d2
    s1 = s1
    s2 = s2
    Shards <- MCShards
    Docs <- MCDocs
    ShardOf <- MCShardOf
    Terms <- MCTerms
    TermsOf <- MCTermsOf
    NormalizedTerm <- MCNormalizedTerm
    NoTerm = NoTerm
    Queries <- AndNotQueries
    Requests = {r1}
    MaxSegments <- MCMaxSegments
    MaxFaults = 0
SPECIFICATION Spec
INVARIANTS
    AnswerExact
    OpenedOnce
CHECK_DEADLOCK FALSE
