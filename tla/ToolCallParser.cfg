CONSTANTS
    Texts <- PieceTexts
    MaxPieces = 3
SPECIFICATION Spec
INVARIANT FindsTheCall
