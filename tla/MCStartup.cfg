\* Three containers of two images.
SPECIFICATION StartupSpec
CONSTANTS
    a = a
    b = b
    c = c
    Containers = {a, b, c}
    Files = {1, 2}
    Versions = {"first", "edited"}
    None = "none"
    Image <- MCImage
    MaxStops = 1
INVARIANTS
    RecordIsTrue

    
