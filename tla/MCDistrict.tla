------------------------------- MODULE MCDistrict -------------------------------
(* District for TLC: Uttarakhand opened on a flood that fills its shelters, and
   a coastal state with a second hazard and a locality without figures. *)
EXTENDS District
Row(z, size, occ, days, state) ==
  [zone |-> z, size |-> size, occ |-> occ, days |-> days, staff |-> 1, state |-> state]
MCPrimary == [st \in {"ut", "tn"} |-> IF st = "ut" THEN "flood" ELSE "cyclone"]
MCRegister == [st \in {"ut", "tn"} |->
  IF st = "ut" THEN <<Row(1, 3, 2, 1, "standby"), Row(2, 2, 0, 2, "open"), Row(2, 2, 0, 2, "standby")>>
               ELSE <<Row(1, 3, 2, 0, "open"), Row(2, 2, 1, 2, "compromised"), Row(2, 2, 1, 1, "open")>>]
MCBase == [st \in {"ut", "tn"} |->
  IF st = "ut" THEN [h \in {"flood"} |-> 50] ELSE [h \in {"flood", "cyclone"} |-> 70]]
MCGround == [st \in {"ut", "tn"} |->
  IF st = "ut" THEN [h \in {"flood"} |-> <<100, 70>>]
  ELSE [h \in {"flood", "cyclone"} |-> IF h = "flood" THEN <<-1, 60>> ELSE <<115, 35>>]]
MCClocks == {[h \in {"flood", "cyclone"} |-> 100]}
MCPeople == [h \in {"flood", "cyclone"} |-> IF h = "flood" THEN <<1, 3>> ELSE <<2, 1>>]
MCMerit == [h \in {"flood", "cyclone"} |-> <<0, 1>>]
MCDistance == <<<<0, 2, 1>>, <<2, 1, 1>>>>
MCForms == {[occ |-> 0, days |-> 2, staff |-> 1]}
================================================================================
