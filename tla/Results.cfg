SPECIFICATION Spec
CONSTANTS
    Null = Null
    MaxPages = 3
    MaxLength = 2
    MinDigital = 2
    Marker = 1
    Limit = 5
    MaxContent = 3
    MaxReasons = 1
    Reasons = {"", "doubt"}
    Numbers <- Around
    Rules <- DeclaredRules

    ali = ali
    Ali = Ali
    veli = veli
    Words = {ali, Ali, veli}
    Blank = Blank
    Lower <- OneInCapitals
    MaxText = 4
    MaxEntities = 2
    MaxAnswer = 2

    acme = acme
    acmeDot = acmeDot
    none = none
    Role = {"BUYER", "SELLER"}
    Name = {acme, acmeDot}
    NoName = none
    Normalized <- TwoSpellings
    MentionConfidence = {1, 2}
    Page = {1, 2}
    MaxMentions = 3

    Article <- MCArticle
    Accepted = {"tbk-1", "tbk-2", "kvkk-3"}
    Query <- MCQuery
    score <- MCScore
    MinScore = 2
    corpora <- MCCorpora
    MaxRules = 2
    None = None

    Label = {"box"}
    NoClass = NoClass
    Confidence = {1, 2, 3}
    MinConfidence = 2
    Scale = 4
    ReportedFps = {0, 1, 10, 11}
    SampleSeconds = 4
    MaxSampled = 2
    MaxFrames = 4
    MaxPredictions = 3
    MaxExpected = 2
    MaxCount = 2
INVARIANTS
    ResultsTypeOK
    CutIsReviewed
    OcrIsReported
    FallbacksAreWarned
    OnlyMisfitsAreLost
    NamesAreReplaced
    NamesComeBack
    PartiesAreRight
    BasisIsNearest
    SamplesAreSpaced
    ReviewIffEvidence
    EveryClassIsReported
    DamageIsWorst
CHECK_DEADLOCK FALSE
