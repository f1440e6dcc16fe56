SPECIFICATION FairSpec
CONSTANTS
    NodeCount = 5
    Parent <- Family
    Scenes <- CoarseOrSharp
    Views <- AllViews
    Retains <- Extremes
    Brush = {1}
    Moves = 2
    Others = 1
INVARIANTS
    FrontierIsIdeal
    ActiveIsMeshed
    AnswersAreFresh
    TickNeverRefused
PROPERTY EventuallySharp
