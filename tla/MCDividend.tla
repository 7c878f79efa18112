------------------------------ MODULE MCDividend ------------------------------
(* Small instances of Dividend: two stakers, rewards in the native token. *)
EXTENDS DividendProperties

CONSTANTS u1, u2, eth, usd

NoStake == [u \in Users |-> 0]
JustOne == [u \in Users |-> IF u = u1 THEN 1 ELSE 0]
OneTwo  == [u \in Users |-> IF u = u1 THEN 1 ELSE 2]
=============================================================================
