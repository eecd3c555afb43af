SPECIFICATION Spec
CONSTANTS
    s1 = s1
    o1 = o1
    v1 = v1
    Nil = Nil
    Ints <- SomeInts
    Strings <- SomeStrings
    Objects <- SomeObjects
    Vals <- SomeVals
    NewSizes <- SomeSizes
    hash <- SomeHash
    MaxItems = 2
    MAXBITS = 3
    MAX_INT = 5
INVARIANTS
    TypeOK
    AssertionsHold
    ReadsWhatWasAssigned
    TraversalOnce
    BoundaryRight

