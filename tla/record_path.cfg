SPECIFICATION Spec
CONSTANTS
    Contents <- MCContents
    Hints = {"none", "json", "csv"}
    Baselines <- MCBaselines
    Keyword <- MCKeyword
    Similar <- MCSimilar
    Remembered <- MCRemembered
    Taught <- MCTaught
    Profiles <- MCProfiles
    Fallback <- MCFallback
    MaxFields = 4
INVARIANTS
    FieldsAgree
    NothingIsDropped
    MarkdownShowsTheLine
    RerenderIsFaithful
