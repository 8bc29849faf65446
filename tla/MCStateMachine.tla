--------------------------- MODULE MCStateMachine ---------------------------
EXTENDS StateMachine
=============================================================================
