SPECIFICATION CatalogSpec
CONSTANTS
    Overture = {1, 2}
    Permits = {p1}
    Kakao = {k1, k2}
    Naver = {n1}
    SeoulSpots = {here, there}
    Outside = outside
    None = None
    Refused = Refused
    MoveBound = 1
    CandidateBound = 1
SYMMETRY Interchangeable
INVARIANTS
    CatalogInv
PROPERTIES
    VerifiedIdentitiesStay
