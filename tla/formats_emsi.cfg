SPECIFICATION Spec
CONSTANTS
 Bytes <- SomeBytes
 MaxLen <- Short
 Garbage = 4
INVARIANTS PasswordKept LettersKept
CHECK_DEADLOCK FALSE
