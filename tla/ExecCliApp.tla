------------------------------ MODULE ExecCliApp ------------------------------
(***************************************************************************)
(* ExecCliApp (pkg/libcli/api.go): the client's end of a shell.  Three     *)
(* goroutines, the one that reads stdin, the one that receives from the    *)
(* gate and the one in the select loop, meet on channels without a buffer; *)
(* a send and its receive are one step.  The deferred calls run one by one *)
(* when the select loop returns, while the other two go on.                *)
(*                                                                         *)
(* Chunks of input and output are numbered as they appear.  A select that  *)
(* finds inCh closed does nothing and is left out.  The gate (modelled in  *)
(* ClientReader) is the environment: it reports progress, writes the       *)
(* output of the process and returns.                                      *)
(***************************************************************************)
EXTENDS AppGate

CONSTANTS
  Services,         \* what Services().Get and Nodes().List may answer
  Reachable,        \* the addresses that accept connections
  StdinIsTerminal,
  StdOutIsTerminal,
  MaxInputs,        \* bound: chunks read from stdin
  MaxSignals,       \* bound: SIGWINCHs
  MaxOutputs,       \* bound: chunks the process writes
  MaxProgress       \* bound: messages before its first output

ASSUME ExecAssumption ==
  /\ StdinIsTerminal \in BOOLEAN
  /\ StdOutIsTerminal \in BOOLEAN
  /\ {MaxInputs, MaxSignals, MaxOutputs, MaxProgress} \subseteq Nat

VARIABLES
  endpoints,        \* addresses still to be tried
  ctxDone,
  main,             \* where the function is
  result,           \* what it returns
  raw,              \* the terminal is in raw mode
  printed,          \* raw output written to stdout
  errCh,            \* "none", "open" or "closed"
  winch,            \* the same
  signalled,        \* a signal waits in winch
  notified,         \* winch is registered with package signal
  inpc, typed,      \* the goroutine of stdin, and how many chunks it has read
  rcpc, got,        \* the goroutine of sh.Recv, and what it has received
  ended,            \* "no" while the process runs, "exit" or "panic"
  signals,
  produced,         \* how many chunks of output the gate has sent
  progress

mainVars   == <<endpoints, main, result, raw, printed>>
chanVars   == <<errCh, winch, signalled, notified>>
clientVars == <<mainVars, chanVars, ctxDone, inpc, typed, rcpc, got, ended, signals>>
gateVars   == <<produced, progress>>
vars       == <<rpcVars, clientVars, gateVars>>

Errors   == {"eof", "code", "error"}       \* what goes through errCh
MainLabels == {"fetch", "dial", "open", "select", "restore", "stopnotify", "closeerr",
               "returned"}

MainTypeOK ==
  /\ main \in MainLabels
  /\ result \in Errors \cup {"none", "nil"}
  /\ raw \in BOOLEAN
  /\ printed \in Seq(Nat)

ChanTypeOK ==
  /\ errCh \in {"none", "open", "closed"}
  /\ winch \in {"none", "open", "closed"}
  /\ signalled \in BOOLEAN
  /\ notified \in BOOLEAN

GoroutineTypeOK ==
  /\ ctxDone \in BOOLEAN
  /\ inpc \in {"none", "read", "send", "err", "ended"}
  /\ typed \in Nat
  /\ inpc = "send" => typed > 0
  /\ rcpc \in {"none", "recv", "send", "ended"} \cup Errors
  /\ got \in Nat
  /\ ended \in {"no", "exit", "panic"}

BoundsOK ==
  /\ signals \in 0..MaxSignals
  /\ produced \in 0..MaxOutputs
  /\ progress \in 0..MaxProgress

(* TypeOK: the types of the variables; the goroutine of stdin has read what it sends. *)
TypeOK == RpcTypeOK /\ MainTypeOK /\ ChanTypeOK /\ GoroutineTypeOK /\ BoundsOK

-----------------------------------------------------------------------------
(* FetchGateEndpoints: load balancers, then nodes, then the cluster IP. *)

FetchServiceEndpoints(svc) ==
  (IF svc.port > 0 THEN svc.ingress ELSE <<>>)
    \o (IF svc.nodePort > 0 THEN svc.nodes ELSE <<>>)
    \o <<svc.clusterIP>>

Init ==
  /\ RpcInit
  /\ endpoints = <<>>
  /\ ctxDone = FALSE
  /\ main = "fetch"
  /\ result = "none"
  /\ raw = FALSE
  /\ printed = <<>>
  /\ errCh = "none"
  /\ winch = "none"
  /\ signalled = FALSE
  /\ notified = FALSE
  /\ inpc = "none"
  /\ typed = 0
  /\ rcpc = "none"
  /\ got = 0
  /\ ended = "no"
  /\ signals = MaxSignals
  /\ produced = 0
  /\ progress = MaxProgress

-----------------------------------------------------------------------------
(* Connecting. *)

(* The caller has FetchGateEndpoints look for the gate and passes on what it returns; it
   gives up when the Service or the nodes cannot be read. *)
FetchGateEndpoints ==
  /\ main = "fetch"
  /\ ~ctxDone
  /\ \E svc \in Services : endpoints' = FetchServiceEndpoints(svc)
  /\ main' = "dial"
  /\ UNCHANGED <<gateVars, rpcVars, chanVars, ctxDone, result, raw, printed, inpc, typed, rcpc, got, ended,
                 signals>>

FetchFails ==
  /\ main = "fetch"
  /\ main' = "returned"
  /\ result' = "error"
  /\ UNCHANGED <<gateVars, rpcVars, chanVars, endpoints, ctxDone, raw, printed, inpc, typed, rcpc, got, ended,
                 signals>>

(* DialContext blocks (WithBlock) until the endpoint answers or ctx is done. *)
DialOk ==
  /\ main = "dial"
  /\ endpoints # <<>>
  /\ Head(endpoints) \in Reachable
  /\ ~ctxDone
  /\ main' = "open"
  /\ endpoints' = <<>>
  /\ UNCHANGED <<gateVars, rpcVars, chanVars, ctxDone, result, raw, printed, inpc, typed, rcpc, got, ended,
                 signals>>

(* Mutant: an endpoint that does not answer is waited for whatever ctx says. *)
DialWaits == FALSE

DialFails ==
  /\ main = "dial"
  /\ endpoints # <<>>
  /\ ctxDone
  /\ endpoints' = Tail(endpoints)
  /\ UNCHANGED <<gateVars, rpcVars, chanVars, ctxDone, main, result, raw, printed, inpc, typed, rcpc, got,
                 ended, signals>>

NoEndpoint ==
  /\ main = "dial"
  /\ endpoints = <<>>
  /\ main' = "returned"
  /\ result' = "error"
  /\ UNCHANGED <<gateVars, rpcVars, chanVars, endpoints, ctxDone, raw, printed, inpc, typed, rcpc, got, ended,
                 signals>>

(* The first request, and the ones that follow: a size, which getSize may fail to find
   out, or a chunk of input. *)
First(size)   == [app |-> "named", size |-> size, input |-> <<>>]
Resized(size) == [app |-> "nil", size |-> size, input |-> <<>>]
Typed(in)     == [app |-> "nil", size |-> FALSE, input |-> in]

(* OpenShell and the first Send, which names the app and the terminal's size; the
   goroutines and the signal handler start. *)
OpenShell ==
  /\ main = "open"
  /\ ~ctxDone
  /\ rpc' = "open"
  /\ \E size \in {FALSE, StdOutIsTerminal} : up' = <<First(size)>>
  /\ main' = "select"
  /\ errCh' = "open"
  /\ winch' = "open"
  /\ notified' = TRUE
  /\ inpc' = "read"
  /\ rcpc' = "recv"
  /\ UNCHANGED <<gateVars, down, hungup, endpoints, ctxDone, result, raw, printed, signalled, typed, got, ended,
                 signals>>

(* One of both fails: ctx is done, or the connection is broken. *)
OpenShellFails ==
  /\ main = "open"
  /\ main' = "returned"
  /\ result' = "error"
  /\ UNCHANGED <<gateVars, rpcVars, chanVars, endpoints, ctxDone, raw, printed, inpc, typed, rcpc, got, ended,
                 signals>>

-----------------------------------------------------------------------------
(* The goroutine that reads stdin. *)

Alive == ended = "no"

(* Mutant: io.EOF goes through errCh too. *)
ReadToEOF ==
  /\ Alive
  /\ inpc = "read"
  /\ \/ typed < MaxInputs /\ typed' = typed + 1 /\ inpc' = "send"
     \/ inpc' \in {"eof", "err"} /\ UNCHANGED typed
  /\ UNCHANGED <<gateVars, rpcVars, mainVars, chanVars, ctxDone, rcpc, got, ended, signals>>

ReadStdin ==
  /\ Alive
  /\ inpc = "read"
  /\ \/ typed < MaxInputs /\ typed' = typed + 1 /\ inpc' = "send"
     \/ inpc' \in {"ended", "err"} /\ UNCHANGED typed        \* io.EOF, or another error
  /\ UNCHANGED <<gateVars, rpcVars, mainVars, chanVars, ctxDone, rcpc, got, ended, signals>>

-----------------------------------------------------------------------------
(* The goroutine that receives from the gate. *)

(* Mutants: an output is dropped if the select loop is busy; Aborted is no special status;
   io.EOF is not passed on. *)
RecvOrDrop ==
  /\ Alive
  /\ rcpc = "recv"
  /\ down # <<>>
  /\ down' = Tail(down)
  /\ \/ Head(down).raw /\ rcpc' = "send" /\ got' = Head(down).output
     \/ UNCHANGED <<rcpc, got>>
  /\ UNCHANGED <<gateVars, rpc, up, hungup, mainVars, chanVars, ctxDone, inpc, typed, ended, signals>>

Recv ==
  /\ Alive
  /\ rcpc = "recv"
  /\ down # <<>>
  /\ down' = Tail(down)
  /\ IF Head(down).raw
       THEN rcpc' = "send" /\ got' = Head(down).output
       ELSE UNCHANGED <<rcpc, got>>                       \* fmt.Print
  /\ UNCHANGED <<gateVars, rpc, up, hungup, mainVars, chanVars, ctxDone, inpc, typed, ended, signals>>

AbortedIsEOF(status) == IF status \in {"ok", "aborted"} THEN {"eof"} ELSE {"error"}

(* Aborted has an exit code in its message, unless that is no number. *)
RecvError(status) ==
  CASE status = "ok"      -> {"eof"}
    [] status = "aborted" -> {"code", "error"}
    [] OTHER              -> {"error"}

EndsQuietly ==
  /\ Alive
  /\ rcpc = "recv"
  /\ \/ rpc \in Statuses /\ down = <<>> /\ rcpc' \in (IF rpc = "ok" THEN {"ended"} ELSE RecvError(rpc))
     \/ ctxDone /\ rcpc' = "error"
  /\ UNCHANGED <<gateVars, rpcVars, mainVars, chanVars, ctxDone, inpc, typed, got, ended, signals>>

(* The status comes after everything the gate has sent, unless ctx is cancelled. *)
RecvEnds ==
  /\ Alive
  /\ rcpc = "recv"
  /\ \/ rpc \in Statuses /\ down = <<>> /\ rcpc' \in RecvError(rpc)
     \/ ctxDone /\ rcpc' = "error"
  /\ UNCHANGED <<gateVars, rpcVars, mainVars, chanVars, ctxDone, inpc, typed, got, ended, signals>>

-----------------------------------------------------------------------------
(* The select loop. *)

Selecting == Alive /\ main = "select"

(* Mutant: the terminal is restored only when the gate has ended the session. *)
ReturnSome(r) ==
  /\ main' = IF r \in {"eof", "error"} THEN "stopnotify" ELSE "restore"
  /\ result' = r
  /\ UNCHANGED <<endpoints, raw, printed>>

Return(r) ==
  /\ main' = "restore"
  /\ result' = r
  /\ UNCHANGED <<endpoints, raw, printed>>

SelectErr ==
  /\ Selecting
  /\ \/ /\ inpc = "err"
        /\ Return("error")
        /\ inpc' = "ended"
        /\ UNCHANGED rcpc
     \/ /\ rcpc \in Errors
        /\ Return(IF rcpc = "eof" THEN "nil" ELSE rcpc)
        /\ rcpc' = "ended"
        /\ UNCHANGED inpc
  /\ UNCHANGED <<gateVars, rpcVars, chanVars, ctxDone, typed, got, ended, signals>>

SelectDone ==
  /\ Selecting
  /\ ctxDone
  /\ Return("nil")
  /\ UNCHANGED <<gateVars, rpcVars, chanVars, ctxDone, inpc, typed, rcpc, got, ended, signals>>

(* sh.Send: once the RPC has ended the message is lost, and as soon as the client
   knows of it, Send returns io.EOF and the loop returns that. *)
Send(m) ==
  \/ /\ ~ctxDone
     /\ up' = IF rpc = "open" THEN Append(up, m) ELSE up
     /\ UNCHANGED mainVars
  \/ /\ rpc # "open" \/ ctxDone
     /\ Return("eof")
     /\ UNCHANGED up

SelectWinch ==
  /\ Selecting
  /\ signalled
  /\ signalled' = FALSE
  /\ IF StdOutIsTerminal
       THEN \E size \in BOOLEAN : Send(Resized(size))
       ELSE UNCHANGED <<up, mainVars>>
  /\ UNCHANGED <<gateVars, rpc, down, hungup, errCh, winch, notified, ctxDone, inpc, typed, rcpc, got, ended,
                 signals>>

(* Mutant: a chunk is sent again. *)
SelectInTwice ==
  /\ Selecting
  /\ inpc = "send"
  /\ inpc' = "read"
  /\ up' = IF rpc = "open" THEN up \o [i \in 1..2 |-> Typed(<<typed>>)] ELSE up
  /\ UNCHANGED <<gateVars, rpc, down, hungup, mainVars, chanVars, ctxDone, typed, rcpc, got, ended, signals>>

SelectIn ==
  /\ Selecting
  /\ inpc = "send"
  /\ inpc' = "read"
  /\ Send(Typed(<<typed>>))
  /\ UNCHANGED <<gateVars, rpc, down, hungup, chanVars, ctxDone, typed, rcpc, got, ended, signals>>

(* MakeRaw before the first output; it may fail. *)
SelectOut ==
  /\ Selecting
  /\ rcpc = "send"
  /\ rcpc' = "recv"
  /\ \/ /\ raw' = StdinIsTerminal
        /\ printed' = Append(printed, got)
        /\ UNCHANGED <<endpoints, main, result>>
     \/ StdinIsTerminal /\ ~raw /\ Return("error")
  /\ got' = 0
  /\ UNCHANGED <<gateVars, rpcVars, chanVars, ctxDone, inpc, typed, ended, signals>>

-----------------------------------------------------------------------------
(* The deferred calls, last one first. *)

Deferred(from, to) ==
  /\ Alive
  /\ main = from
  /\ main' = to
  /\ UNCHANGED <<gateVars, rpcVars, endpoints, result, printed, ctxDone, inpc, typed, rcpc, got, ended, signals>>

(* Restore the terminal, then close(winch). *)
RestoreTerminal ==
  /\ Deferred("restore", "stopnotify")
  /\ raw' = FALSE
  /\ winch' = "closed"
  /\ UNCHANGED <<errCh, signalled, notified>>

(* Mutant: the signals are not stopped. *)
NeverStops == Deferred("stopnotify", "closeerr") /\ UNCHANGED <<raw, chanVars>>

StopNotify ==
  /\ Deferred("stopnotify", "closeerr")
  /\ notified' = FALSE
  /\ UNCHANGED <<raw, errCh, winch, signalled>>

CloseErrCh ==
  /\ Deferred("closeerr", "returned")
  /\ errCh' = "closed"
  /\ UNCHANGED <<raw, winch, signalled, notified>>

-----------------------------------------------------------------------------
(* The end of the process, by exit or by a panic, ends its goroutines and closes the
   connection. *)
Ends(how) ==
  /\ ended' = how
  /\ hungup' = TRUE
  /\ down' = <<>>
  /\ inpc' = "ended"
  /\ rcpc' = "ended"
  /\ got' = 0
  /\ signalled' = FALSE

EndsNow(how) ==
  /\ Alive
  /\ Ends(how)
  /\ UNCHANGED <<gateVars, rpc, up, mainVars, errCh, winch, notified, ctxDone, typed, signals>>

Exit == main = "returned" /\ EndsNow("exit")

(* A goroutine sends on errCh, which has been closed. *)
SendOnClosed == errCh = "closed" /\ (inpc = "err" \/ rcpc \in Errors) /\ EndsNow("panic")

(* Package signal never blocks; to send on a closed channel is a panic. *)
Signal ==
  /\ Alive
  /\ notified
  /\ signals > 0
  /\ signals' = signals - 1
  /\ \/ winch = "closed" /\ Ends("panic")
     \/ winch = "open" /\ signalled' = TRUE /\ UNCHANGED <<down, hungup, inpc, rcpc, got, ended>>
  /\ UNCHANGED <<gateVars, rpc, up, mainVars, errCh, winch, notified, ctxDone, typed>>

Cancel ==
  /\ Alive
  /\ ~ctxDone
  /\ ctxDone' = TRUE
  /\ hungup' = TRUE
  /\ UNCHANGED <<gateVars, rpc, up, down, mainVars, chanVars, inpc, typed, rcpc, got, ended, signals>>

-----------------------------------------------------------------------------
(* The gate. *)

GateReports ==
  /\ rpc = "open"
  /\ ~hungup
  /\ \/ progress > 0 /\ produced = 0
        /\ progress' = progress - 1
        /\ down' = Append(down, [raw |-> FALSE, output |-> 0])
        /\ UNCHANGED produced
     \/ produced < MaxOutputs
        /\ produced' = produced + 1
        /\ down' = Append(down, [raw |-> TRUE, output |-> produced'])
        /\ UNCHANGED progress
  /\ UNCHANGED <<rpc, up, hungup, clientVars>>

GateReturns ==
  /\ rpc = "open"
  /\ ~hungup
  /\ rpc' \in Statuses
  /\ UNCHANGED <<up, down, hungup, clientVars, gateVars>>

Disconnect == ConnectionLost /\ UNCHANGED <<clientVars, gateVars>>

-----------------------------------------------------------------------------

Next ==
  \/ FetchGateEndpoints \/ FetchFails
  \/ DialOk \/ DialFails \/ NoEndpoint \/ OpenShell \/ OpenShellFails
  \/ ReadStdin \/ Recv \/ RecvEnds
  \/ SelectErr \/ SelectDone \/ SelectWinch \/ SelectIn \/ SelectOut
  \/ RestoreTerminal \/ StopNotify \/ CloseErrCh
  \/ Exit \/ SendOnClosed \/ Signal \/ Cancel
  \/ GateReports \/ GateReturns \/ Disconnect

Spec == Init /\ [][Next]_vars

(* Each goroutine that can go on does, and a select that finds a case ready for good
   takes it at last: it picks among the ready ones at random.  Nobody has to type, to
   cancel or to exit. *)
FairSpec ==
  /\ Spec
  /\ WF_vars(FetchGateEndpoints \/ FetchFails \/ DialOk \/ DialFails \/ NoEndpoint \/ OpenShell \/ OpenShellFails)
  /\ WF_vars(Recv \/ RecvEnds)
  /\ WF_vars(SelectErr)
  /\ WF_vars(SelectDone)
  /\ WF_vars(SelectOut)
  /\ WF_vars(RestoreTerminal \/ StopNotify \/ CloseErrCh)

-----------------------------------------------------------------------------

(* The input in messages, in their order. *)
Inputs(messages) ==
  LET Upto[n \in 0..Len(messages)] ==
        IF n = 0 THEN <<>> ELSE Upto[n - 1] \o messages[n].input
  IN  Upto[Len(messages)]

(* StdinIsPipe: what the user types goes to the gate in order, nothing twice and nothing
   skipped, between terminal sizes and while either end is going away. *)
StdinPipe == INSTANCE Pipe WITH
  sent <- [i \in 1..typed |-> i], received <- Inputs(up)

StdinIsPipe == StdinPipe!Spec

(* StdoutIsPipe: the same for what the gate sends as raw output, through the goroutine of
   Recv, rawOutCh and the select loop, up to the user's stdout. *)
StdoutPipe == INSTANCE Pipe WITH
  sent <- [i \in 1..produced |-> i], received <- printed

StdoutIsPipe == StdoutPipe!Spec

(* ReturnsRemoteStatus: unless cancelled, ExecCliApp returns nil only after the gate has
   returned OK, and an exit code only after it has returned Aborted; all the output has
   been printed by then, though it and the status take different channels. *)
ReturnsRemoteStatus ==
  LET AllPrinted == Len(printed) = produced
  IN /\ result = "nil" /\ ~ctxDone => rpc = "ok" /\ AllPrinted
     /\ result = "code" => rpc = "aborted" /\ AllPrinted

(* TerminalRestored: the terminal is never left raw, by a return or by the panics that a
   signal or a late error causes while ExecCliApp returns. *)
TerminalRestored == main = "returned" \/ ended # "no" => ~raw

(* PanicsOnlyOnReturn: the channels closed by the deferred calls are still sent on, by
   package signal (winch, closed before signal.Stop) and by both goroutines (errCh): the
   process may panic then, never while it runs the select loop. *)
PanicsOnlyOnReturn == ended = "panic" => main \in {"stopnotify", "returned"}

ClientEnded == main = "returned" \/ ended # "no"

(* StatusEndsExec: once the RPC has ended ExecCliApp returns, whatever waits in its
   channels. *)
StatusEndsExec == rpc \in Statuses ~> ClientEnded

(* CancelReturns: a cancelled ExecCliApp returns, wherever it is, an endpoint that does
   not answer included. *)
CancelReturns == ctxDone ~> ClientEnded
===============================================================================
