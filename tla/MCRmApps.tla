------------------------------- MODULE MCRmApps -------------------------------
(* The two programs of p3 as TLC instances of RmApps. *)
EXTENDS RmApps

AppProgram   == [t \in Thread |-> IF t = 0 THEN threadfunc1 ELSE threadfunc2]
AppExist     == V1(8)

MyAppProgram == [t \in Thread |-> <<worker1, worker2, worker3>>[t+1]]
MyAppExist   == V5(7, 2, 6, 1, 1)

\* The programs say what is claimed and requested.
FromProgram(op) ==
  UNION {{Program[t][k].arr : k \in {n \in DOMAIN Program[t] : Program[t][n].op = op}} :
           t \in Thread}
Claimed   == FromProgram("claim")
Requested == FromProgram("request")
===============================================================================
