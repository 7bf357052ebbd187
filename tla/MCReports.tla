-------------------------------- MODULE MCReports --------------------------------
(***************************************************************************)
(* A small instance of Reports for TLC: an agent and a manager of one team *)
(* out of two, and an admin.  Everything in the backlog happened at 0.     *)
(***************************************************************************)
EXTENDS Reports

CONSTANTS k1, k2, a1, m1, d1, t1, t2, r1

Times == {0, 5, 10}

Fresh    == [team |-> t1, assignee |-> Nobody, status |-> "OPEN", created |-> 0,
             clock |-> [g \in Target |-> StartedClock(g, 0)], deleted |-> FALSE]
Owned    == [Fresh EXCEPT !.assignee = a1]
Foreign  == [Fresh EXCEPT !.team = t2]
Resolved == [Owned EXCEPT !.status = "RESOLVED",
                          !.clock["RESOLUTION"] = ResolutionAfter(@, "OPEN", "RESOLVED", 0)]

Rows == [ticket |-> [k \in {k1} |-> Fresh], request |-> <<>>, active |-> Staff,
         member |-> [u \in Staff |-> IF u = d1 THEN {} ELSE {t1}]]
Asking == [Rows EXCEPT !.ticket = [k \in {k1} |-> Owned],
                       !.request = [i \in {r1} |-> [ticket |-> k1, by |-> a1,
                           status |-> "PENDING", created |-> 0, closed |-> NoTime]]]

SmallBacklog == {Rows, Asking,
                 [Rows EXCEPT !.ticket = [k \in {k1, k2} |-> IF k = k1 THEN Owned ELSE Foreign]],
                 [Rows EXCEPT !.ticket = [k \in {k1, k2} |-> IF k = k1 THEN Resolved ELSE Fresh]]}

================================================================================
