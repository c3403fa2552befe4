SPECIFICATION Spec
CONSTANTS
    Clients = {c1}
    Sampler = sampler
    MaxQueue = 1
    MaxPending <- MCMaxPending
    MaxSampleAge = 1
    Modes <- MCModes
    ProducerStates <- MCProducerStates
    None = None
INVARIANT PendingTickIsServiced
