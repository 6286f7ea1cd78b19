----------------------------- MODULE MCForwards -----------------------------
EXTENDS Forwards
CONSTANTS f1, f2
=============================================================================
