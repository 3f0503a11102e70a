------------------------------ MODULE MCFanOut ------------------------------
EXTENDS FanOut

MCOptions == [settle : BOOLEAN, cancel : BOOLEAN]
=============================================================================
