----------------------------- MODULE MCAperture -----------------------------
EXTENDS Aperture
=============================================================================
