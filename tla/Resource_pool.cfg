SPECIFICATION Spec
CONSTANTS
    p1 = p1  p2 = p2 
    Users <- TwoUsers
    Concurrency = 2
    Predictions <- Predicted
    Wrap = 16
    MaxAttaches = 5
INVARIANTS TypeOK
PROPERTIES HandleSpec CloseIsCalled
