----------------------------- MODULE MCTables -----------------------------
EXTENDS Tables

MCRows == 1..2
=============================================================================
