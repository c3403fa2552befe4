SPECIFICATION Spec
CONSTANTS
    Sources = {s1, s2}
    MaxEvents = 2
    Bits = 2
    Tasks = {0, 1, 2}
    Masks <- MCMasks
    Timeout = 2
    CounterModulus = 2
PROPERTIES
    SignalWakes
    HungTaskIsReset
