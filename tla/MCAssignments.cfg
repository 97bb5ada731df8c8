\* Two answers on two tabs, two handlers in flight.
SPECIFICATION Spec
CONSTANTS
    k1 = k1
    k2 = k2
    market = market
    irrbb = irrbb
    Rows = {k1, k2}
    Tabs = {market, irrbb}
    TabOf <- MCTabOf
    NoTab = none
    Scores = {1}
    Calls = {1, 2}
    MaxReturns = 1
INVARIANTS
    SubmittedIsScored
PROPERTIES
    ReturnedIsRevised
CHECK_DEADLOCK FALSE
