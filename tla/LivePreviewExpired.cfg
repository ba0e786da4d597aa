SPECIFICATION Spec
CONSTANTS
    Runs = {r1}
    Visitors = {v1}
    r1 = r1
    v1 = v1
    v2 = v1
    preview = preview
    next = next
    home = home
    Prefix <- MCPrefix
    NextAssets = next
    Segments = {preview, home}
    MaxFaults = 0
    MaxDeploys = 0
    None = None
INVARIANT LivePreviewIsKept
