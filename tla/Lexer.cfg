CONSTANTS
    Texts <- MCTexts
    MaxFiles = 2
SPECIFICATION Spec
INVARIANTS
    TypeOK
    PositionsAreTrue
    CommentsEndAtFirstClose
    WordsAreWhole
