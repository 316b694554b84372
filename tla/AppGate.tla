-------------------------------- MODULE AppGate --------------------------------
(***************************************************************************)
(* The RPC AppGate.OpenShell (pkg/session/rpc.proto): a stream of StdIn    *)
(* from the client and a stream of StdOut from the gate, each in order,    *)
(* then the status the handler returns.  Shared by both ends.              *)
(*                                                                         *)
(* A StdIn has an App, with its name and namespace or without one of them, *)
(* or none; a terminal size or none; and any number of inputs, numbered    *)
(* from 1 by the client.  Raw is StdOut.Raw.                               *)
(***************************************************************************)
EXTENDS Naturals, Sequences

VARIABLES
  rpc,              \* "none", "open" or the status the client will receive
  up, down,         \* messages under way to the gate and to the client
  hungup            \* the gate's s.Context() is done

rpcVars == <<rpc, up, down, hungup>>

Statuses == {"ok", "aborted", "unavailable", "invalid"}

StdIn  == [app : {"nil", "unnamed", "named"}, size : BOOLEAN, input : Seq(Nat \ {0})]
StdOut == [raw : BOOLEAN, output : Nat]

RpcTypeOK ==
  /\ rpc \in Statuses \cup {"none", "open"}
  /\ up \in Seq(StdIn)
  /\ down \in Seq(StdOut)
  /\ hungup \in BOOLEAN

RpcInit ==
  /\ rpc = "none"
  /\ up = <<>>
  /\ down = <<>>
  /\ hungup = FALSE

(* The connection breaks: what is under way to the client is lost. *)
ConnectionLost ==
  /\ rpc = "open"
  /\ ~hungup
  /\ rpc' = "unavailable"
  /\ down' = <<>>
  /\ hungup' = TRUE
  /\ UNCHANGED up
===============================================================================
