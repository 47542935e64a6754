------------------------------- MODULE MCTurns -------------------------------
EXTENDS Turns
=============================================================================
