SPECIFICATION Spec
CONSTANTS
    MaxExt = 2
    MaxEmbExt = 1
    RowOf <- MCRowOf
    MaxVips = 2
    MaxBackends = 8
    Setups <- Hosts
INVARIANTS FlowAffinity HalvesTogether QuicHonoured FilterHolds DirectDelivery FrameFits
CHECK_DEADLOCK FALSE
