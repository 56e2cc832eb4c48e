--------------------------------- MODULE MCSchema --------------------------------
\* Schema with the bounds of Schema.cfg, for TLC.
EXTENDS Schema
=============================================================================
