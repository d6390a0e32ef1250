---------------------------- MODULE MCEstimators ----------------------------
EXTENDS Estimators
=============================================================================
