CONSTANTS
    Calls = {c1, c2}
    App = App
SPECIFICATION LiveSpec
PROPERTY EveryCallReturns
