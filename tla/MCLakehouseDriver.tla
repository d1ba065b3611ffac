------------------------- MODULE MCLakehouseDriver -------------------------
EXTENDS LakehouseDriver
CONSTANTS a, b, c
=============================================================================
