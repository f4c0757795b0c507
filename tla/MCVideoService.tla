--------------------------- MODULE MCVideoService ---------------------------
EXTENDS VideoService
=============================================================================
