----------------------------- MODULE MCExecCliApp -----------------------------
(* Instances of ExecCliApp: a Service behind a load balancer that does not answer, and
   one with a node that does. *)
EXTENDS ExecCliApp

Balanced == [port |-> 8001, nodePort |-> 0, ingress |-> <<"lb">>, nodes |-> <<"node">>,
             clusterIP |-> "cluster"]
OnNodes  == [port |-> 8001, nodePort |-> 30001, ingress |-> <<>>, nodes |-> <<"node">>,
             clusterIP |-> "cluster"]

MCServices  == {Balanced, OnNodes}
MCReachable == {"node"}
===============================================================================
