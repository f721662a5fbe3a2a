SPECIFICATION VaultSpec
CONSTANTS
    Wards = {"send"}
    Devices = {"d1"}
    Bodies = {"b1"}
    s1 = s1
    s2 = s2
    k1 = k1
    k2 = k2
    Nonces = {k1, k2}
    Senders = {s1, s2}
    Window = 1
    TTL = 1
    MaxNow = 2
    MaxDrafts = 1
    MaxUses = 1
    Envelopes <- EnvelopesOf
    Holds <- HoldsOf
    Quality <- QualityOf
    Inbound <- InboundOf
    Lease = 2
    Exports <- ExportsOf
    GrantRequests = {"g1"}
    MaxPairs = 3
    MaxUpsets = 1
INVARIANT DraftSentOnce
SYMMETRY Interchangeable
CHECK_DEADLOCK FALSE
