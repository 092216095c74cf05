SPECIFICATION Spec
CONSTANT Duration = 3
PROPERTY ClosedOnlyIfInactive
