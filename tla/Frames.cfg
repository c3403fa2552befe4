SPECIFICATION Spec
CONSTANTS
    Pods <- MCPods
    Me = "p1"
    DevId <- MCDevId
    Salt <- MCSalt
    Key <- MCKey
    Payloads <- MCPayloads
    NaN = NaN
    MaxFc = 2
    MaxFactLen = 3
    Capacity = 3
    MaxCiphertext = 3
    TagLen = 1
    Tails = {t1, t2}
    OldTail = t0
    WindowSize = 1
    Elsewhere <- MCElsewhere
INVARIANTS
    
    NonceSealsOneFact
