SPECIFICATION Spec
CONSTANTS
    Address = {a, b, c}
    Neighbour = {a, b}
    Target = {b, c}
    Direct = Direct
    None = None
    Rtt = {1, 2}
    Waiter = {w1, w2}
INVARIANTS TypeOK TableConsistent NoPhantomOffer ReachableIsOffered
           NoMissedConnection CleanupOnce
SYMMETRY Symmetry
