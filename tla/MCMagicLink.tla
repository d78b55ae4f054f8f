---------------------------- MODULE MCMagicLink ----------------------------
\* The instance of MagicLink for TLC.  No symmetry: a liveness property is checked.
EXTENDS MagicLink
=============================================================================
