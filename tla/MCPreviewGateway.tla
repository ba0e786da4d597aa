-------------------------- MODULE MCPreviewGateway --------------------------
EXTENDS PreviewGateway, TLC

CONSTANTS r1, v1, v2, preview, next, home

MCPrefix == <<preview>>

VisitorSymmetry == Permutations(Visitors)
=============================================================================
