----------------------------- MODULE MCCallFeed -----------------------------
(* CallFeed for TLC: u1 owns both repeaters and u2 none. *)
EXTENDS CallFeed

CONSTANTS u1, u2, r1, r2

BothOfU1 == [r \in {r1, r2} |-> u1]

\* Group calls of either user to the talkgroup, and a private call.
SomeCalls ==
    [from : Users, to : {"talkgroup"}, group : {TRUE},
     state : {"live"}, active : {TRUE}, revived : {FALSE}]
        \cup [from : {u2}, to : {r1}, group : {FALSE},
              state : {"live"}, active : {TRUE}, revived : {FALSE}]

SomeLinks == {[r \in {r1, r2} |-> IF r = r1 THEN "dynamic" ELSE "none"]}
=============================================================================
