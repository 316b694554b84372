----------------------------- MODULE ClientReader -----------------------------
(***************************************************************************)
(* The gate's end of a shell (OpenShell in pkg/gate/gate.go, clientReader  *)
(* and stdoutWriter in pkg/gate/io.go): the handler, the goroutine in      *)
(* clientReader.loop, the goroutines that send a size, and the ones that   *)
(* remotecommand starts to copy stdin, stdout and the sizes.  stdin has no *)
(* buffer, so a send and its receive are one step; sizeCh has one of one.  *)
(*                                                                         *)
(* session.open and session.close are modelled in AppSession; here they    *)
(* take their time.  The process in the Pod is the environment, and so is  *)
(* the client: it may send any message of rpc.proto and stop reading at    *)
(* any time.  obeys tells whether it has kept to what pkg/libcli sends     *)
(* (modelled in ExecCliApp); only properties read it.                      *)
(*                                                                         *)
(* s.Send waits while the client has not read Window messages, which       *)
(* stands for the flow control of gRPC.                                    *)
(***************************************************************************)
EXTENDS AppGate

CONSTANTS
  MaxOutputs,       \* bound: chunks the process writes
  MaxProgress,      \* bound: messages of the progress writer
  MaxInputs,        \* bound: chunks the client sends
  MaxResizes,       \* bound: messages it sends with a terminal size or without input
  Window            \* messages of the gate that s.Send accepts before the client reads

ASSUME ReaderAssumption ==
  /\ {MaxOutputs, MaxProgress, MaxInputs, MaxResizes} \subseteq Nat
  /\ Window \in Nat \ {0}

VARIABLES
  handler,          \* where OpenShell is
  status,           \* what it is about to return
  closed,           \* clientReader.closed
  stdin,            \* clientReader.stdin: "nil", "open" or "closed"
  loop, loopIn,     \* the goroutine of loop, and the input it holds
  sizes, sizesOpen, \* how many sizes are in sizeCh, and whether it is open
  sizers,           \* goroutines about to send on sizeCh
  copier, copied,   \* remotecommand's copy of stdin, and the chunk it holds
  resizer,          \* its loop over Next
  process,          \* "none", "running", or the outcome of the exec
  consumed,         \* the input the process has read
  produced,         \* how many chunks it has written
  written,          \* how many of them stdoutWriter has sent
  gatePanic,
  progress,
  typed, resizes,   \* how many chunks and sizes the client has sent
  unread,           \* how many messages of the gate it has not read
  obeys             \* it has sent what the gate asks for

handlerVars == <<handler, status>>
readerVars  == <<closed, stdin, loop, loopIn>>
sizeVars    == <<sizes, sizesOpen, sizers, resizer>>
copyVars    == <<copier, copied>>
outVars     == <<produced, written>>
gateVars    == <<handlerVars, readerVars, sizeVars, copyVars, outVars, process, consumed, gatePanic,
                 progress>>
clientVars  == <<typed, resizes, unread, obeys>>
vars        == <<rpcVars, gateVars, clientVars>>

Exited == Statuses \ {"invalid"}

(* TypeOK: the types of the variables; loop and the copy of stdin hold an input exactly
   while they pass it on, and sizeCh holds one size. *)
HandlerTypeOK ==
  /\ handler \in {"recv", "opening", "attach", "streaming", "detached", "returned"}
  /\ status \in Statuses \cup {"none"}
  /\ progress \in 0..MaxProgress

ReaderTypeOK ==
  /\ closed \in BOOLEAN
  /\ stdin \in {"nil", "open", "closed"}
  /\ loop \in {"none", "make", "recv", "send", "ended"}
  /\ loopIn \in Nat
  /\ loop = "send" <=> loopIn # 0

SizeTypeOK ==
  /\ sizes \in 0..1
  /\ sizesOpen \in BOOLEAN
  /\ sizers \in Nat
  /\ resizer \in {"none", "waiting", "ended"}
  /\ gatePanic \in BOOLEAN

CopyTypeOK ==
  /\ copier \in {"none", "read", "stuck", "write", "ended"}
  /\ copied \in Nat
  /\ copier = "write" <=> copied # 0
  /\ consumed \in Seq(Nat)

ProcessTypeOK ==
  /\ process \in Exited \cup {"none", "running"}
  /\ produced \in 0..MaxOutputs
  /\ written \in 0..produced

ClientTypeOK ==
  /\ typed \in 0..MaxInputs
  /\ resizes \in 0..MaxResizes
  /\ unread \in 0..Window
  /\ obeys \in BOOLEAN

TypeOK ==
  /\ RpcTypeOK
  /\ HandlerTypeOK
  /\ ReaderTypeOK
  /\ SizeTypeOK
  /\ CopyTypeOK
  /\ ProcessTypeOK
  /\ ClientTypeOK

Init ==
  /\ RpcInit
  /\ handler = "recv"
  /\ status = "none"
  /\ closed = FALSE
  /\ stdin = "nil"
  /\ loop = "none"
  /\ loopIn = 0
  /\ sizes = 0
  /\ sizesOpen = TRUE
  /\ sizers = 0
  /\ copier = "none"
  /\ copied = 0
  /\ resizer = "none"
  /\ process = "none"
  /\ consumed = <<>>
  /\ produced = 0
  /\ written = 0
  /\ gatePanic = FALSE
  /\ progress = MaxProgress
  /\ typed = 0
  /\ resizes = 0
  /\ unread = 0
  /\ obeys = TRUE

GateAlive == ~gatePanic

(* A panic of any goroutine ends the gate and every session in it. *)
Panic ==
  /\ gatePanic' = TRUE
  /\ rpc' = IF rpc = "open" THEN "unavailable" ELSE rpc

-----------------------------------------------------------------------------
(* The handler OpenShell. *)

(* The first request names the app and has the initial size, which goes into sizeCh
   when the streams are made. *)
AcceptRequest ==
  /\ GateAlive
  /\ handler = "recv"
  /\ up # <<>>
  /\ Head(up).app # "nil"
  /\ up' = Tail(up)
  /\ IF Head(up).app = "named"
       THEN handler' = "opening" /\ sizes' = (IF Head(up).size THEN 1 ELSE 0) /\ UNCHANGED status
       ELSE handler' = "detached" /\ status' = "invalid" /\ UNCHANGED sizes
  /\ UNCHANGED <<rpc, down, hungup, readerVars, sizesOpen, sizers, resizer, copyVars, outVars, process,
                 consumed, gatePanic, progress,
                 clientVars>>

(* One without an App: req.App.Name dereferences nil. *)
AcceptPanics ==
  /\ GateAlive
  /\ handler = "recv"
  /\ up # <<>>
  /\ Head(up).app = "nil"
  /\ up' = Tail(up)
  /\ Panic
  /\ UNCHANGED <<down, hungup, handlerVars, readerVars, sizeVars, copyVars, outVars, process, consumed,
                 progress, clientVars>>

RequestFails ==
  /\ GateAlive
  /\ handler = "recv"
  /\ hungup
  /\ handler' = "detached"
  /\ status' = "unavailable"
  /\ UNCHANGED <<rpcVars, readerVars, sizeVars, copyVars, outVars, process, consumed, gatePanic, progress,
                 clientVars>>

(* s.Send: it waits for room in the window, and fails once the RPC is cancelled. *)
Send(m) ==
  /\ ~hungup
  /\ unread < Window
  /\ unread' = unread + 1
  /\ down' = Append(down, m)

(* While session.open waits for the Pod it reports to the client, and goes on if that
   fails. *)
ReportProgress ==
  /\ GateAlive
  /\ handler = "opening"
  /\ progress > 0
  /\ progress' = progress - 1
  /\ \/ Send([raw |-> FALSE, output |-> 0])
     \/ hungup /\ UNCHANGED <<down, unread>>
  /\ UNCHANGED <<rpc, up, hungup, handlerVars, readerVars, sizeVars, copyVars, outVars, process, consumed,
                 gatePanic, typed, resizes, obeys>>

OpenFails ==
  /\ GateAlive
  /\ handler = "opening"
  /\ handler' = "detached"
  /\ status' = "unavailable"
  /\ UNCHANGED <<rpcVars, readerVars, sizeVars, copyVars, outVars, process, consumed, gatePanic, progress,
                 clientVars>>

(* session.open returns; genClientIOStreams starts loop. *)
OpenSucceeds ==
  /\ GateAlive
  /\ handler = "opening"
  /\ handler' = "attach"
  /\ loop' = "make"
  /\ UNCHANGED <<rpcVars, status, closed, stdin, loopIn, sizeVars, copyVars, outVars, process, consumed,
                 gatePanic, progress, clientVars>>

(* What Next answers: a size, or nil once closed is set or sizeCh is closed.  The
   check of closed belongs to the end of the round before. *)
NextRound == IF closed THEN "ended" ELSE "waiting"

(* Mutant: Stream is not given the queue of sizes. *)
AttachWithoutSizes ==
  /\ GateAlive
  /\ handler = "attach"
  /\ handler' = "streaming"
  /\ process' = "running"
  /\ copier' = "read"
  /\ UNCHANGED <<rpcVars, status, readerVars, sizeVars, copied, outVars, consumed, gatePanic, progress,
                 clientVars>>

(* Stream has connected to the Pod and starts its goroutines. *)
AttachSucceeds ==
  /\ GateAlive
  /\ handler = "attach"
  /\ handler' = "streaming"
  /\ process' = "running"
  /\ copier' = "read"
  /\ resizer' = NextRound
  /\ UNCHANGED <<rpcVars, status, readerVars, sizes, sizesOpen, sizers, copied, outVars, consumed,
                 gatePanic, progress, clientVars>>

AttachFails ==
  /\ GateAlive
  /\ handler = "attach"
  /\ handler' = "detached"
  /\ status' = "unavailable"
  /\ closed' = TRUE
  /\ UNCHANGED <<rpcVars, stdin, loop, loopIn, sizeVars, copyVars, outVars, process, consumed, gatePanic,
                 progress, clientVars>>

(* Mutant: the end of the process does not wait for its output. *)
AttachLosesTail ==
  /\ GateAlive
  /\ handler = "streaming"
  /\ process \in Exited
  /\ handler' = "detached"
  /\ status' = process
  /\ closed' = TRUE
  /\ UNCHANGED <<rpcVars, stdin, loop, loopIn, sizeVars, copyVars, outVars, process, consumed, gatePanic,
                 progress, clientVars>>

(* Mutant: it waits for the copy of stdin as well. *)
AttachWaitsForStdin ==
  /\ GateAlive
  /\ handler = "streaming"
  /\ process \in Exited
  /\ written = produced \/ hungup
  /\ copier = "ended"
  /\ handler' = "detached"
  /\ status' = process
  /\ closed' = TRUE
  /\ UNCHANGED <<rpcVars, stdin, loop, loopIn, sizeVars, copyVars, outVars, process, consumed, gatePanic,
                 progress, clientVars>>

(* Stream returns when the process has exited and its output is copied, or could not
   be; then stdin.Close(). *)
AttachReturns ==
  /\ GateAlive
  /\ handler = "streaming"
  /\ process \in Exited
  /\ written = produced \/ hungup
  /\ handler' = "detached"
  /\ status' = process
  /\ closed' = TRUE
  /\ UNCHANGED <<rpcVars, stdin, loop, loopIn, sizeVars, copyVars, outVars, process, consumed, gatePanic,
                 progress, clientVars>>

(* session.close has returned too; the status reaches a client that still listens. *)
HandlerReturns ==
  /\ GateAlive
  /\ handler = "detached"
  /\ handler' = "returned"
  /\ rpc' = IF rpc = "open" /\ ~hungup THEN status ELSE rpc
  /\ UNCHANGED <<up, down, hungup, status, readerVars, sizeVars, copyVars, outVars, process, consumed,
                 gatePanic, progress, clientVars>>

-----------------------------------------------------------------------------
(* clientReader.loop. *)

(* The deferred function: closed, close(stdin), close(sizeCh). *)
LoopReturns ==
  /\ loop' = "ended"
  /\ closed' = TRUE
  /\ stdin' = "closed"
  /\ sizesOpen' = FALSE

(* The head of the loop, part of the step that leads to it. *)
LoopChecksClosed ==
  \/ closed /\ LoopReturns
  \/ ~closed /\ loop' = "recv" /\ UNCHANGED <<closed, stdin, sizesOpen>>

LoopMakesStdin ==
  /\ GateAlive
  /\ loop = "make"
  /\ \/ closed /\ LoopReturns
     \/ ~closed /\ loop' = "recv" /\ stdin' = "open" /\ UNCHANGED <<closed, sizesOpen>>
  /\ UNCHANGED <<rpcVars, handlerVars, loopIn, sizes, sizers, resizer, copyVars, outVars, process, consumed,
                 gatePanic, progress, clientVars>>

(* Mutants: a message without input is passed on as an empty chunk; every message must
   have one input. *)
LoopReceivesAny ==
  /\ GateAlive
  /\ loop = "recv"
  /\ up # <<>>
  /\ handler # "returned"
  /\ up' = Tail(up)
  /\ sizers' = IF Head(up).size THEN sizers + 1 ELSE sizers
  /\ IF Len(Head(up).input) > 1
       THEN LoopReturns /\ UNCHANGED loopIn
       ELSE /\ loop' = "send"
            /\ loopIn' = IF Head(up).input = <<>> THEN 0 ELSE Head(up).input[1]
            /\ UNCHANGED <<closed, stdin, sizesOpen>>
  /\ UNCHANGED <<rpc, down, hungup, handlerVars, sizes, resizer, copyVars, outVars, process, consumed,
                 gatePanic, progress, clientVars>>

LoopReceivesOne ==
  /\ GateAlive
  /\ loop = "recv"
  /\ up # <<>>
  /\ handler # "returned"
  /\ up' = Tail(up)
  /\ sizers' = IF Head(up).size THEN sizers + 1 ELSE sizers
  /\ IF Len(Head(up).input) = 1
       THEN loop' = "send" /\ loopIn' = Head(up).input[1] /\ UNCHANGED <<closed, stdin, sizesOpen>>
       ELSE LoopReturns /\ UNCHANGED loopIn
  /\ UNCHANGED <<rpc, down, hungup, handlerVars, sizes, resizer, copyVars, outVars, process, consumed,
                 gatePanic, progress, clientVars>>

LoopReceives ==
  /\ GateAlive
  /\ loop = "recv"
  /\ up # <<>>
  /\ handler # "returned"
  /\ up' = Tail(up)
  /\ sizers' = IF Head(up).size THEN sizers + 1 ELSE sizers
  /\ LET input == Head(up).input
     IN CASE Len(input) = 0 -> LoopChecksClosed /\ UNCHANGED loopIn
          [] Len(input) = 1 -> /\ loop' = "send"
                               /\ loopIn' = input[1]
                               /\ UNCHANGED <<closed, stdin, sizesOpen>>
          [] OTHER          -> LoopReturns /\ UNCHANGED loopIn
  /\ UNCHANGED <<rpc, down, hungup, handlerVars, sizes, resizer, copyVars, outVars, process, consumed,
                 gatePanic, progress, clientVars>>

(* Mutant: an error of Recv is logged and Recv called again. *)
LoopRetries ==
  /\ GateAlive
  /\ loop = "recv"
  /\ hungup \/ handler = "returned"
  /\ UNCHANGED vars

LoopRecvFails ==
  /\ GateAlive
  /\ loop = "recv"
  /\ hungup \/ handler = "returned"
  /\ LoopReturns
  /\ UNCHANGED <<rpcVars, handlerVars, loopIn, sizes, sizers, resizer, copyVars, outVars, process, consumed,
                 gatePanic, progress, clientVars>>

(* r.stdin <- req.Input[0] meets Read. *)
LoopSends ==
  /\ GateAlive
  /\ loop = "send"
  /\ copier = "read"
  /\ LoopChecksClosed
  /\ loopIn' = 0
  /\ copier' = "write"
  /\ copied' = loopIn
  /\ UNCHANGED <<rpcVars, handlerVars, sizes, sizers, resizer, outVars, process, consumed, gatePanic,
                 progress, clientVars>>

-----------------------------------------------------------------------------
(* The goroutines of remotecommand. *)

(* Read of a channel that is nil, never ready whatever loop makes of it, or closed. *)
Read ==
  /\ GateAlive
  /\ copier = "read"
  /\ stdin \in {"nil", "closed"}
  /\ copier' = IF stdin = "nil" THEN "stuck" ELSE "ended"
  /\ UNCHANGED <<rpcVars, handlerVars, readerVars, sizeVars, copied, outVars, process, consumed, gatePanic,
                 progress, clientVars>>

(* Mutant: the buffer is written again after a short write. *)
CopyStdinAgain ==
  /\ GateAlive
  /\ copier = "write"
  /\ process = "running"
  /\ consumed' = Append(consumed, copied)
  /\ copier' \in {"read", "write"}
  /\ copied' = IF copier' = "read" THEN 0 ELSE copied
  /\ UNCHANGED <<rpcVars, handlerVars, readerVars, sizeVars, outVars, process, gatePanic, progress,
                 clientVars>>

(* The chunk reaches the process, or the write fails since it has exited. *)
CopyStdin ==
  /\ GateAlive
  /\ copier = "write"
  /\ IF process = "running"
       THEN consumed' = Append(consumed, copied) /\ copier' = "read"
       ELSE copier' = "ended" /\ UNCHANGED consumed
  /\ copied' = 0
  /\ UNCHANGED <<rpcVars, handlerVars, readerVars, sizeVars, outVars, process, gatePanic, progress, clientVars>>

(* stdoutWriter.Write; nothing is written after it has failed. *)
Write ==
  /\ GateAlive
  /\ handler = "streaming"
  /\ written < produced
  /\ written' = written + 1
  /\ Send([raw |-> TRUE, output |-> written'])
  /\ UNCHANGED <<rpc, up, hungup, handlerVars, readerVars, sizeVars, copyVars, produced, process, consumed,
                 gatePanic, progress, typed, resizes, obeys>>

TakeSize ==
  /\ GateAlive
  /\ resizer = "waiting"
  /\ IF sizes > 0
       THEN sizes' = sizes - 1 /\ resizer' = NextRound
       ELSE ~sizesOpen /\ resizer' = "ended" /\ UNCHANGED sizes
  /\ UNCHANGED <<rpcVars, handlerVars, readerVars, sizesOpen, sizers, copyVars, outVars, process, consumed,
                 gatePanic, progress, clientVars>>

-----------------------------------------------------------------------------
(* The goroutine loop starts for a size. *)

SendSize ==
  /\ GateAlive
  /\ sizers > 0
  /\ sizesOpen
  /\ sizes < 1
  /\ sizes' = sizes + 1
  /\ sizers' = sizers - 1
  /\ UNCHANGED <<rpcVars, handlerVars, readerVars, sizesOpen, resizer, copyVars, outVars, process, consumed,
                 gatePanic, progress, clientVars>>

(* A send on the closed sizeCh. *)
SizePanics ==
  /\ GateAlive
  /\ sizers > 0
  /\ ~sizesOpen
  /\ Panic
  /\ UNCHANGED <<up, down, hungup, handlerVars, readerVars, sizeVars, copyVars, outVars, process, consumed,
                 progress, clientVars>>

-----------------------------------------------------------------------------
(* The process in the Pod. *)

ProcessWrites ==
  /\ process = "running"
  /\ produced < MaxOutputs
  /\ written = produced
  /\ produced' = produced + 1
  /\ UNCHANGED <<rpcVars, handlerVars, readerVars, sizeVars, copyVars, written, process, consumed, gatePanic,
                 progress, clientVars>>

(* It exits, with a code or without, or the connection to it breaks. *)
ProcessExits ==
  /\ process = "running"
  /\ process' \in Exited
  /\ UNCHANGED <<rpcVars, handlerVars, readerVars, sizeVars, copyVars, outVars, consumed, gatePanic, progress,
                 clientVars>>

-----------------------------------------------------------------------------
(* The client. *)

(* The first request; its Input is the command to run, not what the user types. *)
ClientOpens ==
  /\ rpc = "none"
  /\ rpc' = "open"
  /\ \E app \in {"nil", "unnamed", "named"}, size \in BOOLEAN :
       /\ up' = <<[app |-> app, size |-> size, input |-> <<>>]>>
       /\ obeys' = (obeys /\ app # "nil")
  /\ UNCHANGED <<down, hungup, gateVars, typed, resizes, unread>>

(* A message with up to two inputs, with a size or without. *)
ClientSends ==
  /\ rpc = "open"
  /\ ~hungup
  /\ \E n \in 0..2, size \in BOOLEAN :
       /\ typed' = typed + n
       /\ resizes' = IF size \/ n = 0 THEN resizes + 1 ELSE resizes
       /\ up' = Append(up, [app |-> "nil", size |-> size, input |-> [i \in 1..n |-> typed + i]])
       /\ obeys' = (obeys /\ n # 2)
  /\ typed' <= MaxInputs
  /\ resizes' <= MaxResizes
  /\ UNCHANGED <<rpc, down, hungup, gateVars, unread>>

ClientReads ==
  /\ unread > 0
  /\ ~hungup
  /\ unread' = unread - 1
  /\ UNCHANGED <<rpcVars, gateVars, typed, resizes, obeys>>

(* It exits, cancels the RPC, or the connection breaks. *)
ClientHangsUp ==
  /\ rpc # "none"
  /\ ~hungup
  /\ hungup' = TRUE
  /\ UNCHANGED <<rpc, up, down, gateVars, clientVars>>

-----------------------------------------------------------------------------

LoopStep == LoopMakesStdin \/ LoopReceives \/ LoopRecvFails \/ LoopSends

Next ==
  \/ AcceptRequest \/ AcceptPanics \/ RequestFails \/ ReportProgress \/ OpenFails \/ OpenSucceeds
  \/ AttachSucceeds \/ AttachFails \/ AttachReturns \/ HandlerReturns
  \/ LoopMakesStdin \/ LoopReceives \/ LoopRecvFails \/ LoopSends
  \/ Read \/ CopyStdin \/ Write \/ TakeSize
  \/ SendSize \/ SizePanics
  \/ ProcessWrites \/ ProcessExits
  \/ ClientOpens \/ ClientSends \/ ClientReads \/ ClientHangsUp

Spec == Init /\ [][Next]_vars

(* Every goroutine that can go on does.  session.open may wait for ever, the process need
   not read, write or exit, and the client need not send, read or leave. *)
FairSpec ==
  /\ Spec
  /\ WF_vars(AttachReturns \/ HandlerReturns)
  /\ WF_vars(LoopStep)
  /\ WF_vars(Read \/ CopyStdin)
  /\ WF_vars(Write)
  /\ WF_vars(TakeSize)
  /\ WF_vars(SendSize \/ SizePanics)

-----------------------------------------------------------------------------

(* StdinIsPipe: what the client sends reaches the process in order, nothing twice and
   nothing skipped, through loop, clientReader.stdin and the copy of it, even while the
   session ends or after a message with two inputs, which loop refuses. *)
StdinPipe == INSTANCE Pipe WITH
  sent <- [i \in 1..typed |-> i], received <- consumed

StdinIsPipe == StdinPipe!Spec

(* OkMeansAllSent: a client that has not hung up is told how the process has exited after
   all of its output, in order and after every report of progress, by a handler that has
   closed the reader. *)
AllSent(n) ==
  /\ n <= Len(down)
  /\ \A i \in 1..Len(down) - n : ~down[i].raw
  /\ \A i \in 1..n : down[Len(down) - n + i] = [raw |-> TRUE, output |-> i]

OkMeansAllSent == rpc \in {"ok", "aborted"} => process = rpc /\ closed /\ AllSent(produced)

(* GatePanicsOnlyAtEnd: a size sent on the closed sizeCh takes the whole gate down; with a
   client that names an App first and sends at most one input at a time, as pkg/libcli
   does, that is possible once the client or the process has gone, never in a running
   session. *)
GatePanicsOnlyAtEnd == gatePanic /\ obeys => hungup \/ handler \in {"detached", "returned"}

(* SizesAreTaken: in a running session with such a client the goroutines that send a size
   all get it into sizeCh; none is left behind. *)
SizesAreTaken ==
  sizers > 0 /\ process = "running" ~> sizers = 0 \/ hungup \/ process # "running" \/ ~obeys

(* ExitEndsHandler: when the process has exited OpenShell returns, whatever the client
   sends and whatever the other goroutines are blocked on, as long as the client goes on
   reading or hangs up: s.Send waits for one that does neither. *)
ExitEndsHandler ==
  []<>(unread < Window \/ hungup) => (process \in Exited ~> handler = "returned" \/ gatePanic)

(* LoopEndsUnlessInputPending: after the handler has returned, clientReader.loop ends
   unless it holds input, which nobody will read any more. *)
LoopEndsUnlessInputPending ==
  handler = "returned" ~> loop \in {"none", "ended", "send"} \/ gatePanic
===============================================================================
