----------------------------- MODULE MCSession -----------------------------
EXTENDS Session

CONSTANTS t1, t2, c1, c2, c3

\* Two requests of one tab share a refresh; a request of another tab competes.
MCCalls == {c1, c2, c3}
MCTabOf == [c \in MCCalls |-> IF c = c3 THEN t2 ELSE t1]
MCTabs  == {t1, t2}
MCDoors == {t1}
=============================================================================
