SPECIFICATION Spec
CONSTANT Duration = 3
INVARIANT ChecksContinuously
