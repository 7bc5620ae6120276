CONSTANTS
    MaxId = 1
    Calls = 1
    Delayed = {}
SPECIFICATION Spec
INVARIANT EveryCancelReachesPark
