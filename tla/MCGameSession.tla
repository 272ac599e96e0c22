---------------------------- MODULE MCGameSession ----------------------------
EXTENDS GameSession

MCSeatOrder == <<"A", "B", "C">>
=============================================================================
