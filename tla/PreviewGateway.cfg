SPECIFICATION Spec
CONSTANTS
    Runs = {r1}
    Visitors = {v1, v2}
    r1 = r1
    v1 = v1
    v2 = v2
    preview = preview
    next = next
    home = home
    Prefix <- MCPrefix
    NextAssets = next
    Segments = {preview, home}
    MaxFaults = 2
    MaxDeploys = 1
    None = None
SYMMETRY VisitorSymmetry
PROPERTY ExpiryIsHonest
INVARIANT LinksArrive
