---------------------------- MODULE MCOrderSync -----------------------------
EXTENDS OrderSync

MCOrder == 1..3
MCMatching == {1, 3}
MCStream == 1..2
=============================================================================
