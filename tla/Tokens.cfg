SPECIFICATION Spec
CONSTANTS
    k1 = k1
    k2 = k2
    k3 = k3
    i1 = i1
    None = None
    Tokens = {a, b}
    Internals = {i1}
    Clients <- TwoClients
    Requests = {q}
    Instance <- OneInstance
    Major <- Mixed
    MaxAdders = 1
    MaxChanges = 3
INVARIANTS NoMissedProvider OneRegistration EveryProviderHasATurn ConnectorHasReverse
SYMMETRY TokenSymmetry
CHECK_DEADLOCK FALSE
