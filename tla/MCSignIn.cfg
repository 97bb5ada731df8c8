SPECIFICATION Spec
CONSTANTS
    Tabs = {a, b}
    Logins = {x, y}
    NoLogin = none
    MaxChunks = 2
    Sizes = {1, 2}
PROPERTIES
    SignInSettles
    NoEndlessBouncing
