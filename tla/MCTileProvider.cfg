SPECIFICATION Spec
CONSTANTS
    wide = wide
    near = near
    k1 = k1
    k2 = k2
    k3 = k3
    Calls = {wide, near}
    Roots <- MCRoots
    Quadrants = {0, 1}
    Cafes = {k1, k2, k3}
    Catalogs = {{k1, k2, k3}, {k1, k2}, {k3}}
    Location <- MCLocation
    MaxCafes = 1
    MaxSplitDepth = 1
    MaxRequests = 2
    v1 = v1
    v2 = v2
    Versions = {v1, v2}
    MaxChanges = 2
SYMMETRY Interchangeable
INVARIANTS
    TileInv
    OpenCallsProceed
