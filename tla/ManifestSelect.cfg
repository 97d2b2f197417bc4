\* Small manifests, the dylibs asked for, and the files that sort before.
CONSTANTS
    A = A
    B = B
    x = x
    y = y
    z = z
    f = f
    g = g
    ours = ours
    theirs = theirs
    Null = Null
    AddressLimit = 16
    Mains = {ours, theirs}
    Symbols = {f, g}
    AsciiNames = {x, y, z}
    Directories <- Files
    Requests <- Asked
SPECIFICATION Spec
\* npa-patch stops when the payload is built or refused.
CHECK_DEADLOCK FALSE

INVARIANTS
    FirstMatch
    DefaultsSelectable
    OneOwner
    DeclaredEnough
