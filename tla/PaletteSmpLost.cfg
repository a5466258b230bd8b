CONSTANTS
    red = red
    green = green
    blue = blue
    Color = {red, green, blue}
    Word = {0, 1}
    WordOf <- MCWordOf
    Smp = TRUE
    MaxChange = 2
SPECIFICATION SpecPalette
INVARIANTS
    StaleIsDirty
