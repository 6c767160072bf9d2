CONSTANTS
    Ords <- MCOrds
    Ids <- MCIds
    PackNames <- MCPackNames
    Fields <- MCFields
    None = None
    SeedPack = 3
    SeedSchema <- MCSeedSchema
    SeedCards <- MCSeedCards
    UserSchema <- MCUserSchema
    AdminCard <- MCAdminCard
    FieldMax = 4
    ByteMod = 4
    DeleteMax = 2
    CountMax = 2
    SchemaMax = 3
    Base = 2
    LongMax = 4
    Queries <- MCQueries
    MayRead = {1, 2}
    SelectMax = 4
    FromMax = 2
    WhereMax = 3
    CacheMax = 1
    FanoutMax = 1
    ScanMax = 3
    JoinMax = 3
    ListMax = 2
    RowMax = 2
    AggRows = 3
    AggGroups = 2
    Starts <- MCStarts
    NewCards <- MCNewCards
SPECIFICATION QuerySpec
INVARIANTS AnswerIsReference CardsReadAsWritten
CHECK_DEADLOCK FALSE
