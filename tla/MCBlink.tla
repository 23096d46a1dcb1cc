------------------------------ MODULE MCBlink -------------------------------
(***************************************************************************)
(* Small instances of Blink: three members, an interval boundary between   *)
(* two transactions that spend the same key image.                         *)
(***************************************************************************)
EXTENDS Blink, TLC

CONSTANTS n1, n2, n3, tx1, tx2, tx3

(* With Interval = 2 and Lag = 2 the subquorums of height 4 are those of   *)
(* heights 2 and 4, the ones of height 6 those of heights 4 and 6.         *)
Everyone == {n1, n2, n3}
AllThree == [h \in {2, 4, 6} |-> Everyone]
OneShort == [h \in {2, 4, 6} |-> IF h = 2 THEN {n2, n3} ELSE Everyone]

First == [tx |-> tx1, height |-> 4]
Second == [tx |-> tx2, height |-> 6]
OneBlink == {First}
TwoBlinks == {First, Second}
NoPlain == {}
OnePlain == {tx3}
OneImage == [v \in {tx1, tx2, tx3} |-> {"image"}]
Others == Permutations({n2, n3})
=============================================================================
