CONSTANTS
    d1 = d1
    d2 = d2
    s1 = s1
    s2 = s2
    Shards <- MCShards
    Docs <- MCDocs
    ShardOf <- MCShardOf
    Terms <- MCTerms
    TermsOf <- MCTermsOf
    NormalizedTerm <- MCNormalizedTerm
    NoTerm = NoTerm
    Queries <- OrQueries
    Requests = {r1}
    MaxSegments <- OneSegment
    MaxFaults = 1
SPECIFICATION Spec
PROPERTIES
    HotReloaded
    Answered
CHECK_DEADLOCK FALSE
