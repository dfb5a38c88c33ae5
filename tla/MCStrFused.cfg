SPECIFICATION Spec
CONSTANTS
    MaxHaystack = 2
    MaxNeedle = 1
    AsciiLength = 3
PROPERTIES StaysExhausted
