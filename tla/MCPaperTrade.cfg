SPECIFICATION Spec
CONSTANTS
    Workers = {w1, w2}
    Requests = {q1, q2}
    g1 = g1
    g2 = g2
    l1 = l1
    Goods = {g1, g2}
    Listings = {l1}
    NoListing = NoListing
    Offers <- MCOffers
    Idle = Idle
    MaxDay = 1
    MemorySize = 2
SYMMETRY Symmetry
INVARIANTS OncePerPurchase MemorySound 
