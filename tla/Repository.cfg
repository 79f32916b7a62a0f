SPECIFICATION Spec
CONSTANTS
    Shells = {h1, h2}
    Sftps = {f1}
    Paths = {a, b}
    MaxFiles = 2
SYMMETRY Symmetric
VIEW Visible
INVARIANTS UploadedIsThere GetRoundTrips
CHECK_DEADLOCK FALSE
