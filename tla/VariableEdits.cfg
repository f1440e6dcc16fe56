SPECIFICATION Spec
CONSTANTS
    NodeCount = 5
    Parent <- Family
    Scenes <- CoarseOrSharp
    Views <- AllViews
    Retains <- Extremes
    Brush = {1}
    Moves = 2
    Others = 1
INVARIANT EditsAreShown
