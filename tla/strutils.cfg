CONSTANTS
    Kinds <- BothKinds
    Alphabet <- SmallAlphabet
    MaxLen <- SmallMaxLen
    Space = " "
    Backslash = Backslash
    Digit <- Values
    Bases <- BasePrefixes
    Letters <- KiloMega
    I = "i"
    LLongBits = 21
    IntBits = 8
    ShortBits = 4
    Delm <- Comma
    Quote <- Quotes
    Maxes <- OneToThree
    Limits <- UpToTwo
SPECIFICATION Spec
INVARIANTS NumbersRight TextsRight
CHECK_DEADLOCK FALSE
