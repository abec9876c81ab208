CONSTANTS
    None = None
    Agents = {a1, a2}
    Clears = {}
    Values <- Threads
    MaxIterations = 1
    MaxTokens = 100
    Strategy = "prune"
    Attempts = 2
    CharsPerToken = 4
    Sizes = {4, 12}
SPECIFICATION Spec
PROPERTIES
    SavedTurnsStay
