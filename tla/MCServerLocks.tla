--------------------------- MODULE MCServerLocks ---------------------------
(* For TLC: two pool addresses and one outside the pool; a goroutine for   *)
(* registrations, one for peers, one for orphan timers.                    *)
EXTENDS ServerLocks

CONSTANTS a, rg, hb, tm
MCHost == {a}
MCIP   == {2, 3, 9}
MCLastNum == [ip \in MCIP |-> IF ip = 9 THEN 3 ELSE ip]  \* 9 is 10.9.0.3

MCGoroutine == {rg, hb, tm}
MCJob == [g \in MCGoroutine |-> CASE g = rg -> {"register"}
                                  [] g = hb -> {"add", "remove", "clean"}
                                  [] g = tm -> {"look"}]

(* Hosts called a, and one that was granted a-2 and 9 and is back. *)
MCRequests == {<<<<a>>, NoIP>>, <<<<a, 2>>, 9>>}
=============================================================================
