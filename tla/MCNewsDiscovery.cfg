CONSTANTS
    d1 = d1
    d2 = d2
    o1 = o1
    Discoverers <- MCDiscoverers
    Operators <- MCOperators
    Pages <- MCPages
    Links <- MCLinks
    Collectable = {"giants_official_news", "hochi_giants_articles"}
    MaxItems = 2
    Numbers = {"1"}
    HochiNames = {"a1", "a2", "a3"}
    Tracking = {"utm_source"}
    PrivateHosts = {"127.0.0.1"}
    NoUrl = NoUrl
SPECIFICATION Spec
INVARIANT EnqueuedByRegistrarOnly NothingForgotten OneIntakePerArticle
INVARIANT StoredUrlsResolve CollectsFirstComplete
