SPECIFICATION PrepFairSpec
CONSTANTS
    Chars <- MCChars
    MaxLength = 6
INVARIANT CleansExactly
PROPERTY Terminates
