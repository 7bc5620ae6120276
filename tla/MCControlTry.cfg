SPECIFICATION Spec
CONSTANTS
    Function = {1}
    Programs <- ContinueInTry
    MaxCallDepth = 2
    MaxTrue = 2
PROPERTY CatchesNearest
