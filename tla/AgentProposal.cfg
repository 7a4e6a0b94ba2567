SPECIFICATION Spec
CONSTANTS
    l1 = l1
    l2 = l2
    unlisted = unlisted
    ancient = ancient
    c1 = c1
    c2 = c2
    c3 = c3
    Leaves = {l1, l2, unlisted, ancient}
    Rule <- MCRule
    Customers = {c1, c2, c3}
    Matching <- MCMatching
    MaxDepth = 3
    MaxLeaves = 3
    MaxAttempts = 2
    Texts <- MCTexts
    Requests <- MCRequests
    Populations = {{c1, c2}, {c2, c3}}
    MaxChanges = 1
    Statistics <- MCStatistics
    MaxIterations = 4
INVARIANTS
    BareProposalIsReturned
