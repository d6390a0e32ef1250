----------------------------- MODULE MCFlightPlan -----------------------------
EXTENDS FlightPlan
=============================================================================
