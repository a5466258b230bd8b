CONSTANTS
    red = red
    green = green
    blue = blue
    Color = {red, green, blue}
    Word = {0, 1}
    WordOf <- MCWordOf
    Smp = FALSE
    MaxChange = 3
SPECIFICATION SpecPalette
INVARIANTS
    StaleIsDirty
PROPERTIES
    DrawnWithItsColors
