SPECIFICATION Spec
CONSTANTS
 Bytes <- SomeBytes
 MaxLen <- Short
 Garbage = 4
INVARIANT HydraTransparent ZmodemTransparent IdentKept
CHECK_DEADLOCK FALSE
