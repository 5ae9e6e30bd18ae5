------------------------------- MODULE MCBulletins -------------------------------
(* Bulletins for TLC: two states whose warnings age differently, and an
   identifier drawn by the feed that lies in the way of the next one given out. *)
EXTENDS Bulletins
MCRecency == [st \in 1..2 |-> IF st = 1 THEN <<1, 0>> ELSE <<2, 1>>]
MCWindow == [st \in 1..2 |-> 2]
MCSeeded == [st \in 1..2 |-> <<[id |-> st, by |-> "seed", st |-> "verified"]>>]
================================================================================
