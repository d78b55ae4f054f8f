--------------------------- MODULE MCStoredObject ---------------------------
\* Instances of StoredObject for TLC.
EXTENDS StoredObject
=============================================================================
