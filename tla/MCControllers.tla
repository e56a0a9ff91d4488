--------------------------- MODULE MCControllers ---------------------------
EXTENDS Controllers
=============================================================================
