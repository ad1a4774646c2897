SPECIFICATION Spec
CONSTANTS
  SIZE = 5
  BOX_MAX = 2
  Letters = {"a", "b"}
  Scores = {1, 2, 3}
  FirstFiles <- MCFirstFiles
  MaxName = 2
  MaxResults = 3
  MaxRuns = 2
INVARIANT BoxEndsName
PROPERTIES RestartKeepsScores ImplementsTopScores
