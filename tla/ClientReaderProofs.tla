-------------------------- MODULE ClientReaderProofs --------------------------
(***************************************************************************)
(* Proofs about ClientReader, for any number of inputs, sizes and outputs: *)
(* when the gate may panic, what the client has when it learns how the     *)
(* process ended, and that the process's stdin is a pipe.                  *)
(***************************************************************************)
EXTENDS ClientReader, TLAPS

-----------------------------------------------------------------------------
(* What makes the invariants inductive. *)

(* The session is over for the client or for the handler.  closed is set and the channels
   are closed only then if the client obeys: loop gets no message with two inputs, and
   the handler no request without an App. *)
Over == hungup \/ handler \in {"detached", "returned"}

OverInv ==
  obeys => /\ closed => Over
           /\ ~sizesOpen => Over
           /\ gatePanic => Over
           /\ \A i \in 1..Len(up) : Len(up[i].input) <= 1
           /\ handler = "recv" /\ up # <<>> => up[1].app # "nil"

(* The steps of the handler start the goroutines; the first request is the handler's. *)
PhaseInv ==
  /\ rpc = "none" => handler = "recv" /\ up = <<>> /\ typed = 0 /\ ~hungup
  /\ handler = "recv" /\ rpc # "none" /\ ~gatePanic => up # <<>> /\ up[1].input = <<>>
  /\ handler \in {"recv", "opening"} => loop = "none"
  /\ handler \in {"recv", "opening", "attach"} => process = "none" /\ copier = "none"
  /\ process = "none" => produced = 0

(* The handler returns what became of the process, once the output is sent. *)
StatusInv ==
  /\ AllSent(written)
  /\ handler \in {"detached", "returned"} => status # "none"
  /\ handler \in {"detached", "returned"} /\ status \in {"ok", "aborted"} =>
       process = status /\ closed /\ (written = produced \/ hungup)
  /\ rpc \in {"ok", "aborted"} => process = rpc /\ closed /\ written = produced

(* How many inputs have left up, as long as none is lost: the process has read them, or
   the copy of stdin or loop holds one each. *)
ByCopier == IF copier = "write" THEN 1 ELSE 0
ByLoop   == IF loop = "send" THEN 1 ELSE 0
Taken    == Len(consumed) + ByCopier + ByLoop

(* The inputs in a queue q are the ones after k up to n, each of them and in order: up to
   message i the first f[i]. *)
Adds(m, a, b) ==
  /\ b = a + Len(m.input)
  /\ Len(m.input) > 0 => m.input[1] = a + 1

Counts(q, f, k, n) ==
  /\ f \in [0..Len(q) -> Nat]
  /\ f[0] = k
  /\ f[Len(q)] = n
  /\ \A i \in 1..Len(q) : Adds(q[i], f[i - 1], f[i])
  /\ \A i, j \in 0..Len(q) : i <= j => f[i] <= f[j]

Queue(q, k, n) == \E f : Counts(q, f, k, n)

(* The process reads from 1 on.  An input is lost only when the copy of stdin ends, or when
   loop does. *)
InputInv ==
  /\ consumed = [i \in 1..Len(consumed) |-> i]
  /\ Len(consumed) <= typed
  /\ copier # "ended" =>
       /\ Taken <= typed
       /\ copier = "write" => copied = Len(consumed) + 1
       /\ loop = "send" => loopIn = Taken
       /\ loop # "ended" => Queue(up, Taken, typed)

Inv == TypeOK /\ OverInv /\ PhaseInv /\ StatusInv /\ InputInv

-----------------------------------------------------------------------------
(* TypeOK, a part at a time. *)

(* The messages under way. *)
LEMMA RpcType == TypeOK /\ StatusInv /\ [Next]_vars => RpcTypeOK'
<1> SUFFICES ASSUME TypeOK, RpcTypeOK, StatusInv, [Next]_vars PROVE RpcTypeOK'
  BY DEF TypeOK
<1>1. CASE AcceptRequest \/ AcceptPanics \/ LoopReceives
  <2>1. up # <<>> /\ up' = Tail(up) /\ UNCHANGED <<down, hungup>> /\ rpc' \in {rpc, "unavailable"}
    BY <1>1 DEF AcceptRequest, AcceptPanics, Panic, LoopReceives
  <2> QED
    BY <2>1 DEF RpcTypeOK, Statuses
<1>2. CASE ReportProgress \/ Write
  <2>1. [raw |-> FALSE, output |-> 0] \in StdOut /\ [raw |-> TRUE, output |-> written + 1] \in StdOut
    BY ReaderAssumption DEF TypeOK, ProcessTypeOK, StdOut
  <2>2. PICK m \in StdOut : down' = down \/ down' = Append(down, m)
    BY <1>2, <2>1 DEF ReportProgress, Write, Send
  <2>3. UNCHANGED <<rpc, up, hungup>>
    BY <1>2 DEF ReportProgress, Write
  <2> QED
    BY <2>2, <2>3 DEF RpcTypeOK
<1>3. CASE HandlerReturns \/ SizePanics
  <2>1. UNCHANGED <<up, down, hungup>>
    BY <1>3 DEF HandlerReturns, SizePanics
  <2>2. rpc' = rpc \/ rpc' \in Statuses
    BY <1>3 DEF HandlerReturns, SizePanics, Panic, Statuses, TypeOK, HandlerTypeOK, StatusInv
  <2> QED
    BY <2>1, <2>2 DEF RpcTypeOK
<1>4. CASE ClientOpens
  <2>1. PICK a \in {"nil", "unnamed", "named"}, z \in BOOLEAN :
          up' = <<[app |-> a, size |-> z, input |-> <<>>]>>
    BY <1>4 DEF ClientOpens
  <2>2. <<>> \in Seq(Nat \ {0})
    OBVIOUS
  <2>3. [app |-> a, size |-> z, input |-> <<>>] \in StdIn
    BY <2>2 DEF StdIn
  <2>4. up' \in Seq(StdIn)
    BY <2>1, <2>3
  <2> QED
    BY <1>4, <2>4 DEF ClientOpens, RpcTypeOK
<1>5. CASE ClientSends
  <2>1. PICK n \in 0..2, z \in BOOLEAN :
          up' = Append(up, [app |-> "nil", size |-> z, input |-> [i \in 1..n |-> typed + i]])
    BY <1>5 DEF ClientSends
  <2>2. [i \in 1..n |-> typed + i] \in Seq(Nat \ {0})
    <3>1. typed \in Nat
      BY ReaderAssumption DEF TypeOK, ClientTypeOK
    <3>2. \A i \in 1..n : typed + i \in Nat \ {0}
      BY <3>1
    <3> QED
      BY <3>2
  <2>3. [app |-> "nil", size |-> z, input |-> [i \in 1..n |-> typed + i]] \in StdIn
    BY <2>2 DEF StdIn
  <2>4. up' \in Seq(StdIn)
    BY <2>1, <2>3 DEF RpcTypeOK
  <2> QED
    BY <1>5, <2>4 DEF ClientSends, RpcTypeOK
<1>6. CASE ClientHangsUp
  BY <1>6 DEF ClientHangsUp, RpcTypeOK
<1>7. CASE UNCHANGED rpcVars
  BY <1>7 DEF rpcVars, RpcTypeOK
<1> QED
  BY <1>1, <1>2, <1>3, <1>4, <1>5, <1>6, <1>7
     DEF Next, RequestFails, OpenFails, OpenSucceeds, AttachSucceeds, AttachFails, AttachReturns,
         LoopMakesStdin, LoopRecvFails, LoopSends, Read, CopyStdin, TakeSize, SendSize,
         ProcessWrites, ProcessExits, ClientReads, vars

(* The handler. *)
LEMMA HandlerType == TypeOK /\ [Next]_vars => HandlerTypeOK'
<1> SUFFICES ASSUME HandlerTypeOK, ProcessTypeOK, [Next]_vars PROVE HandlerTypeOK'
  BY DEF TypeOK
<1>1. CASE AcceptRequest
  BY <1>1 DEF AcceptRequest, HandlerTypeOK, Statuses
<1>2. CASE ReportProgress
  BY <1>2, ReaderAssumption DEF ReportProgress, HandlerTypeOK, handlerVars
<1>3. CASE RequestFails \/ OpenFails \/ OpenSucceeds \/ AttachSucceeds \/ AttachFails
  BY <1>3 DEF RequestFails, OpenFails, OpenSucceeds, AttachSucceeds, AttachFails, HandlerTypeOK, Statuses
<1>4. CASE AttachReturns \/ HandlerReturns
  BY <1>4 DEF AttachReturns, HandlerReturns, HandlerTypeOK, Exited
<1>5. CASE UNCHANGED <<handlerVars, progress>>
  BY <1>5 DEF handlerVars, HandlerTypeOK
<1> QED
  BY <1>1, <1>2, <1>3, <1>4, <1>5
     DEF Next, AcceptPanics, LoopMakesStdin, LoopReceives, LoopRecvFails, LoopSends, Read, CopyStdin,
         Write, TakeSize, SendSize, SizePanics, ProcessWrites, ProcessExits, ClientOpens, ClientSends,
         ClientReads, ClientHangsUp, vars, gateVars

(* The first input of a message, if it has one. *)
LEMMA FirstInput == ASSUME TypeOK, up # <<>>, Len(Head(up).input) = 1 PROVE Head(up).input[1] \in Nat \ {0}
<1>1. Head(up) \in StdIn
  BY DEF TypeOK, RpcTypeOK
<1>2. Head(up).input \in Seq(Nat \ {0})
  BY <1>1 DEF StdIn
<1> QED
  BY <1>2

(* The reader. *)
LEMMA ReaderType == TypeOK /\ PhaseInv /\ [Next]_vars => ReaderTypeOK'
<1> SUFFICES ASSUME TypeOK, ReaderTypeOK, PhaseInv, [Next]_vars PROVE ReaderTypeOK'
  BY DEF TypeOK
<1>1. CASE OpenSucceeds \/ AttachFails \/ AttachReturns
  BY <1>1 DEF OpenSucceeds, AttachFails, AttachReturns, ReaderTypeOK, PhaseInv
<1>2. CASE LoopMakesStdin \/ LoopRecvFails
  BY <1>2 DEF LoopMakesStdin, LoopRecvFails, LoopReturns, ReaderTypeOK
<1>3. CASE LoopReceives
  <2>1. PICK n : n = Len(Head(up).input)
    OBVIOUS
  <2>2. \/ loopIn' = loopIn /\ loop' \in {"recv", "ended"}
        \/ n = 1 /\ loopIn' = Head(up).input[1] /\ loop' = "send"
    BY <1>3, <2>1 DEF LoopReceives, LoopChecksClosed, LoopReturns
  <2>3. loop = "recv" /\ loopIn = 0
    BY <1>3 DEF LoopReceives, ReaderTypeOK
  <2>4. loopIn' \in Nat /\ (loop' = "send" <=> loopIn' # 0)
    BY <1>3, <2>1, <2>2, <2>3, FirstInput DEF LoopReceives
  <2>5. closed' \in BOOLEAN /\ stdin' \in {"nil", "open", "closed"}
    BY <1>3 DEF LoopReceives, LoopChecksClosed, LoopReturns, ReaderTypeOK
  <2> QED
    BY <2>2, <2>4, <2>5 DEF ReaderTypeOK
<1>4. CASE LoopSends
  BY <1>4 DEF LoopSends, LoopChecksClosed, LoopReturns, ReaderTypeOK
<1>5. CASE UNCHANGED readerVars
  BY <1>5 DEF readerVars, ReaderTypeOK
<1> QED
  BY <1>1, <1>2, <1>3, <1>4, <1>5
     DEF Next, AcceptRequest, AcceptPanics, RequestFails, ReportProgress, OpenFails, AttachSucceeds,
         HandlerReturns, Read, CopyStdin, Write, TakeSize, SendSize, SizePanics, ProcessWrites,
         ProcessExits, ClientOpens, ClientSends, ClientReads, ClientHangsUp, vars, gateVars

(* The terminal sizes. *)
LEMMA SizeType == TypeOK /\ [Next]_vars => SizeTypeOK'
<1> SUFFICES ASSUME SizeTypeOK, [Next]_vars PROVE SizeTypeOK'
  BY DEF TypeOK
<1>1. CASE AcceptRequest \/ AttachSucceeds
  <2>1. /\ sizes' = sizes \/ sizes' \in 0..1
        /\ resizer' = resizer \/ resizer' \in {"waiting", "ended"}
        /\ UNCHANGED <<sizesOpen, sizers, gatePanic>>
    BY <1>1 DEF AcceptRequest, AttachSucceeds, NextRound
  <2> QED
    BY <2>1 DEF SizeTypeOK
<1>2. CASE LoopMakesStdin \/ LoopRecvFails
  BY <1>2 DEF LoopMakesStdin, LoopRecvFails, LoopReturns, SizeTypeOK
<1>3. CASE LoopReceives
  <2>1. sizesOpen' \in BOOLEAN
    BY <1>3 DEF LoopReceives, LoopChecksClosed, LoopReturns, SizeTypeOK
  <2>2. sizers' = sizers \/ sizers' = sizers + 1
    BY <1>3 DEF LoopReceives
  <2>3. UNCHANGED <<sizes, resizer, gatePanic>>
    BY <1>3 DEF LoopReceives
  <2> QED
    BY <2>1, <2>2, <2>3 DEF SizeTypeOK
<1>4. CASE LoopSends
  BY <1>4 DEF LoopSends, LoopChecksClosed, LoopReturns, SizeTypeOK
<1>5. CASE TakeSize \/ SendSize \/ SizePanics \/ AcceptPanics
  <2>1. CASE TakeSize
    BY <2>1 DEF TakeSize, NextRound, SizeTypeOK
  <2>2. CASE SendSize
    BY <2>2 DEF SendSize, SizeTypeOK
  <2>3. CASE SizePanics \/ AcceptPanics
    BY <2>3 DEF SizePanics, AcceptPanics, Panic, SizeTypeOK, sizeVars
  <2> QED
    BY <1>5, <2>1, <2>2, <2>3
<1>6. CASE UNCHANGED <<sizeVars, gatePanic>>
  BY <1>6 DEF sizeVars, SizeTypeOK
<1> QED
  BY <1>1, <1>2, <1>3, <1>4, <1>5, <1>6
     DEF Next, RequestFails, ReportProgress, OpenFails, OpenSucceeds, AttachFails, AttachReturns,
         HandlerReturns, Read, CopyStdin, Write, ProcessWrites, ProcessExits, ClientOpens,
         ClientSends, ClientReads, ClientHangsUp, vars, gateVars

(* The copy of stdin. *)
LEMMA CopyType == TypeOK /\ PhaseInv /\ [Next]_vars => CopyTypeOK'
<1> SUFFICES ASSUME CopyTypeOK, ReaderTypeOK, PhaseInv, [Next]_vars PROVE CopyTypeOK'
  BY DEF TypeOK
<1>1. CASE AttachSucceeds \/ LoopSends \/ Read
  BY <1>1 DEF AttachSucceeds, LoopSends, Read, CopyTypeOK, ReaderTypeOK, PhaseInv
<1>2. CASE CopyStdin
  <2>1. consumed' = consumed \/ consumed' = Append(consumed, copied)
    BY <1>2 DEF CopyStdin
  <2>2. consumed' \in Seq(Nat)
    BY <2>1 DEF CopyTypeOK
  <2> QED
    BY <1>2, <2>2 DEF CopyStdin, CopyTypeOK
<1>3. CASE UNCHANGED <<copyVars, consumed>>
  BY <1>3 DEF copyVars, CopyTypeOK
<1> QED
  BY <1>1, <1>2, <1>3
     DEF Next, AcceptRequest, AcceptPanics, RequestFails, ReportProgress, OpenFails, OpenSucceeds,
         AttachFails, AttachReturns, HandlerReturns, LoopMakesStdin, LoopReceives, LoopRecvFails, Write,
         TakeSize, SendSize, SizePanics, ProcessWrites, ProcessExits, ClientOpens, ClientSends,
         ClientReads, ClientHangsUp, vars, gateVars

(* The process. *)
LEMMA ProcessType == TypeOK /\ [Next]_vars => ProcessTypeOK'
<1> SUFFICES ASSUME ProcessTypeOK, [Next]_vars PROVE ProcessTypeOK'
  BY DEF TypeOK
<1>1. CASE AttachSucceeds \/ ProcessExits
  BY <1>1 DEF AttachSucceeds, ProcessExits, outVars, ProcessTypeOK
<1>2. CASE Write \/ ProcessWrites
  BY <1>2, ReaderAssumption DEF Write, ProcessWrites, ProcessTypeOK
<1>3. CASE UNCHANGED <<outVars, process>>
  BY <1>3 DEF outVars, ProcessTypeOK
<1> QED
  BY <1>1, <1>2, <1>3
     DEF Next, AcceptRequest, AcceptPanics, RequestFails, ReportProgress, OpenFails, OpenSucceeds,
         AttachFails, AttachReturns, HandlerReturns, LoopMakesStdin, LoopReceives, LoopRecvFails,
         LoopSends, Read, CopyStdin, TakeSize, SendSize, SizePanics, ClientOpens, ClientSends,
         ClientReads, ClientHangsUp, vars, gateVars

(* What the client has sent. *)
LEMMA ClientType == TypeOK /\ [Next]_vars => ClientTypeOK'
<1> SUFFICES ASSUME ClientTypeOK, [Next]_vars PROVE ClientTypeOK'
  BY DEF TypeOK
<1>1. CASE ClientSends
  <2>1. PICK n \in 0..2 : typed' = typed + n /\ resizes' \in {resizes, resizes + 1}
    BY <1>1 DEF ClientSends
  <2>2. typed' \in 0..MaxInputs /\ resizes' \in 0..MaxResizes
    BY <1>1, <2>1, ReaderAssumption DEF ClientSends, ClientTypeOK
  <2>3. obeys' \in BOOLEAN /\ UNCHANGED unread
    BY <1>1 DEF ClientSends, ClientTypeOK
  <2> QED
    BY <2>2, <2>3 DEF ClientTypeOK
<1>2. CASE ClientOpens
  <2>1. obeys' \in BOOLEAN /\ UNCHANGED <<typed, resizes, unread>>
    BY <1>2 DEF ClientOpens
  <2> QED
    BY <2>1 DEF ClientTypeOK
<1>3. CASE ReportProgress \/ Write \/ ClientReads
  <2>1. /\ UNCHANGED <<typed, resizes, obeys>>
        /\ \/ UNCHANGED unread
           \/ unread < Window /\ unread' = unread + 1
           \/ unread > 0 /\ unread' = unread - 1
    BY <1>3 DEF ReportProgress, Write, Send, ClientReads
  <2>2. unread' \in 0..Window
    BY <2>1, ReaderAssumption DEF ClientTypeOK
  <2> QED
    BY <2>1, <2>2 DEF ClientTypeOK
<1>4. CASE UNCHANGED clientVars
  BY <1>4 DEF clientVars, ClientTypeOK
<1> QED
  BY <1>1, <1>2, <1>3, <1>4
     DEF Next, AcceptRequest, AcceptPanics, RequestFails, OpenFails, OpenSucceeds, AttachSucceeds,
         AttachFails, AttachReturns, HandlerReturns, LoopMakesStdin, LoopReceives, LoopRecvFails,
         LoopSends, Read, CopyStdin, TakeSize, SendSize, SizePanics, ProcessWrites, ProcessExits,
         ClientHangsUp, vars

(* Every step keeps the types. *)
LEMMA NextType == TypeOK /\ PhaseInv /\ StatusInv /\ [Next]_vars => TypeOK'
  BY RpcType, HandlerType, ReaderType, SizeType, CopyType, ProcessType, ClientType DEF TypeOK

-----------------------------------------------------------------------------
(* How a session ends. *)

(* What an obedient client sends: no message has two inputs, and the first has an App. *)
Short(m) == Len(m.input) <= 1
UpObeys  ==
  /\ \A i \in 1..Len(up) : Short(up[i])
  /\ handler = "recv" /\ up # <<>> => up[1].app # "nil"

(* It has obeyed so far if it does in the end. *)
LEMMA ObeyedBefore == ASSUME [Next]_vars, obeys' PROVE obeys
  BY DEF Next, AcceptRequest, AcceptPanics, RequestFails, ReportProgress, OpenFails, OpenSucceeds,
         AttachSucceeds, AttachFails, AttachReturns, HandlerReturns, LoopMakesStdin, LoopReceives,
         LoopRecvFails, LoopSends, Read, CopyStdin, Write, TakeSize, SendSize, SizePanics,
         ProcessWrites, ProcessExits, ClientOpens, ClientSends, ClientReads, ClientHangsUp, vars,
         clientVars

(* Taking a message, or adding one it may send, keeps it so. *)
LEMMA NextUpObeys ==
  ASSUME TypeOK, PhaseInv, gatePanic => hungup \/ handler # "recv", UpObeys, [Next]_vars, obeys'
  PROVE  UpObeys'
<1>1. up \in Seq(StdIn)
  BY DEF TypeOK, RpcTypeOK
<1>2. CASE AcceptRequest \/ LoopReceives
  <2>1. up # <<>> /\ up' = Tail(up) /\ handler' # "recv"
    BY <1>2 DEF AcceptRequest, LoopReceives, PhaseInv, handlerVars
  <2>2. \A i \in 1..Len(up') : i + 1 \in 1..Len(up) /\ up'[i] = up[i + 1]
    BY <1>1, <2>1
  <2> QED
    BY <2>1, <2>2 DEF UpObeys
<1>3. CASE AcceptPanics
  BY <1>3 DEF AcceptPanics, UpObeys
<1>4. CASE ClientOpens
  <2>1. PICK a \in {"nil", "unnamed", "named"}, z \in BOOLEAN :
          up' = <<[app |-> a, size |-> z, input |-> <<>>]>> /\ a # "nil"
    BY <1>4 DEF ClientOpens
  <2>2. PICK m : m = [app |-> a, size |-> z, input |-> <<>>]
    OBVIOUS
  <2>3. Short(m) /\ m.app # "nil"
    BY <2>1, <2>2 DEF Short
  <2>4. up' = <<m>>
    BY <2>1, <2>2
  <2> QED
    BY <2>3, <2>4 DEF UpObeys
<1>5. CASE ClientSends
  <2>1. PICK n \in 0..2, z \in BOOLEAN :
          /\ up' = Append(up, [app |-> "nil", size |-> z, input |-> [i \in 1..n |-> typed + i]])
          /\ n # 2
    BY <1>5 DEF ClientSends
  <2>2. PICK m : m = [app |-> "nil", size |-> z, input |-> [i \in 1..n |-> typed + i]]
    OBVIOUS
  <2>3. Short(m)
    <3>1. Len([i \in 1..n |-> typed + i]) = n
      OBVIOUS
    <3> QED
      BY <2>1, <2>2, <3>1 DEF Short
  <2>4. up' = Append(up, m)
    BY <2>1, <2>2
  <2>5. handler' = "recv" => handler = "recv" /\ up # <<>>
    BY <1>5 DEF ClientSends, PhaseInv, gateVars, handlerVars
  <2>6. /\ Len(up') = Len(up) + 1 /\ up'[Len(up) + 1] = m
        /\ \A i \in 1..Len(up) : up'[i] = up[i]
    BY <1>1, <2>4
  <2>7. \A i \in 1..Len(up') : Short(up'[i])
    BY <1>1, <2>3, <2>6 DEF UpObeys
  <2>8. up # <<>> => up'[1] = up[1]
    BY <1>1, <2>6
  <2> QED
    BY <2>5, <2>7, <2>8 DEF UpObeys
<1>6. CASE UNCHANGED up /\ (handler' = "recv" => handler = "recv")
  BY <1>6 DEF UpObeys
<1>7. handler' = "recv" => handler = "recv"
  BY DEF Next, AcceptRequest, AcceptPanics, RequestFails, ReportProgress, OpenFails, OpenSucceeds,
         AttachSucceeds, AttachFails, AttachReturns, HandlerReturns, LoopMakesStdin, LoopReceives,
         LoopRecvFails, LoopSends, Read, CopyStdin, Write, TakeSize, SendSize, SizePanics,
         ProcessWrites, ProcessExits, ClientOpens, ClientSends, ClientReads, ClientHangsUp, vars,
         gateVars, handlerVars
<1> QED
  BY <1>2, <1>3, <1>4, <1>5, <1>6, <1>7
     DEF Next, RequestFails, ReportProgress, OpenFails, OpenSucceeds, AttachSucceeds, AttachFails,
         AttachReturns, HandlerReturns, LoopMakesStdin, LoopRecvFails, LoopSends, Read, CopyStdin,
         Write, TakeSize, SendSize, SizePanics, ProcessWrites, ProcessExits, ClientReads,
         ClientHangsUp, vars, rpcVars

(* So loop gets one input or none, and the handler an App. *)
LEMMA HeadObeys ==
  ASSUME TypeOK, UpObeys, up # <<>>
  PROVE  Len(Head(up).input) \in {0, 1} /\ (handler = "recv" => Head(up).app # "nil")
<1>1. up \in Seq(StdIn)
  BY DEF TypeOK, RpcTypeOK
<1>2. Head(up) \in StdIn /\ Head(up) = up[1] /\ 1 \in 1..Len(up)
  BY <1>1
<1>3. Len(Head(up).input) <= 1
  BY <1>2 DEF UpObeys, Short
<1>4. Head(up).input \in Seq(Nat \ {0})
  BY <1>2 DEF StdIn
<1>5. PICK n \in Nat : n = Len(Head(up).input)
  BY <1>4
<1>6. n <= 1
  BY <1>3, <1>5
<1>7. n \in {0, 1}
  BY <1>6
<1> QED
  BY <1>2, <1>5, <1>7 DEF UpObeys

(* Nothing reopens a session. *)
LEMMA StaysOver == ASSUME Over, [Next]_vars PROVE Over'
<1>1. CASE hungup
  <2>1. hungup'
    BY <1>1 DEF Next, AcceptRequest, AcceptPanics, RequestFails, ReportProgress, OpenFails,
         OpenSucceeds, AttachSucceeds, AttachFails, AttachReturns, HandlerReturns, LoopMakesStdin,
         LoopReceives, LoopRecvFails, LoopSends, Read, CopyStdin, Write, TakeSize, SendSize, SizePanics,
         ProcessWrites, ProcessExits, ClientOpens, ClientSends, ClientReads, ClientHangsUp, vars, rpcVars
  <2> QED
    BY <2>1 DEF Over
<1>2. CASE handler \in {"detached", "returned"}
  <2>1. handler' \in {"detached", "returned"}
    BY <1>2 DEF Next, AcceptRequest, AcceptPanics, RequestFails, ReportProgress, OpenFails,
         OpenSucceeds, AttachSucceeds, AttachFails, AttachReturns, HandlerReturns, LoopMakesStdin,
         LoopReceives, LoopRecvFails, LoopSends, Read, CopyStdin, Write, TakeSize, SendSize, SizePanics,
         ProcessWrites, ProcessExits, ClientOpens, ClientSends, ClientReads, ClientHangsUp, vars,
         gateVars, handlerVars
  <2> QED
    BY <2>1 DEF Over
<1> QED
  BY <1>1, <1>2 DEF Over

(* loop returns when the reader is closed, or when Recv fails; it closes the channels. *)
LEMMA NextOver == TypeOK /\ PhaseInv /\ OverInv /\ [Next]_vars => OverInv'
<1> SUFFICES ASSUME TypeOK, PhaseInv, OverInv, [Next]_vars, obeys' PROVE OverInv'
  BY DEF OverInv
<1>1. obeys
  BY ObeyedBefore
<1>2. UpObeys
  BY <1>1 DEF OverInv, UpObeys, Short
<1>3. Over => Over'
  BY StaysOver
<1>4. gatePanic => hungup \/ handler # "recv"
  BY <1>1 DEF OverInv, Over
<1>5. UpObeys'
  BY <1>2, <1>4, NextUpObeys
<1>6. (closed' => closed \/ Over') /\ (~sizesOpen' => ~sizesOpen \/ Over') /\ (gatePanic' => gatePanic \/ Over')
  <2>1. CASE AttachFails \/ AttachReturns
    BY <2>1 DEF AttachFails, AttachReturns, Over, sizeVars
  <2>2. CASE LoopMakesStdin \/ LoopSends
    BY <1>1, <1>3, <2>2 DEF LoopMakesStdin, LoopSends, LoopChecksClosed, LoopReturns, OverInv
  <2>3. CASE LoopRecvFails
    BY <2>3, <1>3 DEF LoopRecvFails, Over
  <2>4. CASE LoopReceives
    <3>1. Len(Head(up).input) \in {0, 1}
      BY <1>2, <2>4, HeadObeys DEF LoopReceives
    <3>2. PICK n : n = Len(Head(up).input)
      OBVIOUS
    <3>3. \/ UNCHANGED <<closed, sizesOpen>>
          \/ closed /\ LoopReturns
      BY <2>4, <3>1, <3>2 DEF LoopReceives, LoopChecksClosed
    <3>4. UNCHANGED gatePanic
      BY <2>4 DEF LoopReceives
    <3> QED
      BY <1>1, <1>3, <3>3, <3>4 DEF OverInv
  <2>5. CASE SizePanics
    BY <1>1, <1>3, <2>5 DEF SizePanics, OverInv, readerVars, sizeVars
  <2>6. CASE AcceptPanics
    BY <1>2, <2>6, HeadObeys DEF AcceptPanics
  <2>7. CASE UNCHANGED <<closed, sizesOpen, gatePanic>>
    BY <2>7
  <2> QED
    BY <2>1, <2>2, <2>3, <2>4, <2>5, <2>6, <2>7
       DEF Next, AcceptRequest, RequestFails, ReportProgress, OpenFails, OpenSucceeds,
         AttachSucceeds, HandlerReturns, Read, CopyStdin, Write, TakeSize, SendSize,
         ProcessWrites, ProcessExits, ClientOpens, ClientSends, ClientReads, ClientHangsUp, vars,
         gateVars, readerVars, sizeVars
<1> QED
  BY <1>1, <1>3, <1>5, <1>6 DEF OverInv, UpObeys, Short

-----------------------------------------------------------------------------
(* What has started when. *)

(* The client's side: the first message of the RPC stays at the head of up until the
   handler takes it. *)
LEMMA ClientPhase ==
  ASSUME TypeOK, PhaseInv, ClientOpens \/ ClientSends \/ ClientHangsUp
  PROVE  PhaseInv'
<1>1. UNCHANGED <<handler, loop, process, copier, produced, gatePanic>>
  BY DEF ClientOpens, ClientSends, ClientHangsUp, gateVars, handlerVars, readerVars, copyVars, outVars
<1>2. rpc' # "none"
  BY DEF ClientOpens, ClientSends, ClientHangsUp
<1>3. handler = "recv" /\ ~gatePanic => up' # <<>> /\ up'[1].input = <<>>
  <2>1. CASE ClientOpens
    <3>1. PICK a \in {"nil", "unnamed", "named"}, z \in BOOLEAN :
            up' = <<[app |-> a, size |-> z, input |-> <<>>]>>
      BY <2>1 DEF ClientOpens
    <3> QED
      BY <3>1
  <2>2. CASE ClientSends
    <3>1. PICK m : up' = Append(up, m)
      BY <2>2 DEF ClientSends
    <3>2. up \in Seq(StdIn) /\ (handler = "recv" /\ ~gatePanic => up # <<>> /\ up[1].input = <<>>)
      BY <2>2 DEF TypeOK, RpcTypeOK, PhaseInv, ClientSends
    <3> QED
      BY <3>1, <3>2
  <2>3. CASE ClientHangsUp
    BY <2>3 DEF ClientHangsUp, PhaseInv
  <2> QED
    BY <2>1, <2>2, <2>3
<1> QED
  BY <1>1, <1>2, <1>3 DEF PhaseInv

(* Every step keeps the phases of the handler, the loop and the copies apart. *)
LEMMA NextPhase == TypeOK /\ PhaseInv /\ StatusInv /\ [Next]_vars => PhaseInv'
<1> SUFFICES ASSUME TypeOK, PhaseInv, StatusInv, [Next]_vars PROVE PhaseInv'
  OBVIOUS
<1>1. CASE AcceptRequest \/ RequestFails
  <2>1. /\ handler = "recv" /\ handler' \in {"opening", "detached"}
        /\ UNCHANGED <<rpc, loop, process, copier, produced>>
        /\ rpc # "none"
    BY <1>1 DEF AcceptRequest, RequestFails, PhaseInv, rpcVars, readerVars, copyVars, outVars, clientVars
  <2> QED
    BY <2>1 DEF PhaseInv
<1>2. CASE OpenFails \/ OpenSucceeds \/ AttachFails \/ ReportProgress
  BY <1>2 DEF OpenFails, OpenSucceeds, AttachFails, ReportProgress, PhaseInv, rpcVars, handlerVars,
              readerVars, copyVars, outVars, clientVars
<1>3. CASE AttachSucceeds \/ AttachReturns
  BY <1>3 DEF AttachSucceeds, AttachReturns, PhaseInv, rpcVars, readerVars, copyVars, outVars,
              clientVars
<1>4. CASE HandlerReturns
  <2>1. rpc' # "none" /\ handler' = "returned" /\ UNCHANGED <<process, produced>>
    BY <1>4 DEF HandlerReturns, PhaseInv, StatusInv, outVars
  <2> QED
    BY <2>1 DEF PhaseInv
<1>5. CASE LoopMakesStdin \/ LoopRecvFails \/ LoopSends
  <2>1. loop # "none" /\ UNCHANGED <<handlerVars, rpcVars, process, produced, typed, gatePanic>>
    BY <1>5 DEF LoopMakesStdin, LoopRecvFails, LoopSends, outVars, clientVars
  <2>2. copier = "none" => copier' = copier
    BY <1>5 DEF LoopMakesStdin, LoopRecvFails, LoopSends, copyVars
  <2> QED
    BY <2>1, <2>2 DEF PhaseInv, handlerVars, rpcVars
<1>6. CASE LoopReceives
  <2>1. loop # "none" /\ UNCHANGED <<handlerVars, rpc, process, produced, copier>>
    BY <1>6 DEF LoopReceives, outVars, copyVars
  <2> QED
    BY <2>1 DEF PhaseInv, handlerVars
<1>7. CASE Read \/ CopyStdin \/ Write
  BY <1>7 DEF Read, CopyStdin, Write, PhaseInv, rpcVars, handlerVars, readerVars, outVars, clientVars,
              copyVars
<1>8. CASE TakeSize \/ SendSize \/ SizePanics \/ ClientReads
  <2>1. /\ UNCHANGED <<handler, up, hungup, typed, loop, process, copier, produced>>
        /\ rpc' = rpc \/ (rpc = "open" /\ rpc' = "unavailable")
        /\ gatePanic' = gatePanic \/ gatePanic'
    BY <1>8 DEF TakeSize, SendSize, SizePanics, ClientReads, Panic,
                gateVars, rpcVars, handlerVars, readerVars, copyVars, outVars,
                clientVars
  <2> QED
    BY <2>1 DEF PhaseInv
<1>9. CASE ProcessWrites \/ ProcessExits
  BY <1>9 DEF ProcessWrites, ProcessExits, PhaseInv, rpcVars, handlerVars, readerVars, copyVars, outVars,
              clientVars, Exited, Statuses
<1>10. CASE ClientOpens \/ ClientSends \/ ClientHangsUp
  BY <1>10, ClientPhase
<1>11. CASE AcceptPanics
  <2>1. /\ UNCHANGED <<handler, typed, hungup, loop, process, copier, produced>> /\ gatePanic'
        /\ up # <<>> /\ rpc' \in {rpc, "unavailable"}
    BY <1>11 DEF AcceptPanics, Panic, handlerVars, readerVars, copyVars, outVars, clientVars
  <2> QED
    BY <2>1 DEF PhaseInv
<1>12. CASE UNCHANGED vars
  BY <1>12 DEF vars, gateVars, PhaseInv, rpcVars, handlerVars, readerVars, copyVars, outVars, clientVars
<1> QED
  BY <1>1, <1>2, <1>3, <1>4, <1>5, <1>6, <1>7, <1>8, <1>9, <1>10, <1>11, <1>12 DEF Next

-----------------------------------------------------------------------------
(* The output and the status. *)

(* A report of progress precedes all output. *)
LEMMA ReportIsFirst ==
  ASSUME TypeOK, PhaseInv, StatusInv, ReportProgress
  PROVE  AllSent(written)'
<1>1. down \in Seq(StdOut) /\ written = 0 /\ UNCHANGED written
  BY DEF ReportProgress, TypeOK, RpcTypeOK, ProcessTypeOK, PhaseInv, outVars
<1>2. \A i \in 1..Len(down) : ~down[i].raw
  BY <1>1 DEF StatusInv, AllSent
<1>3. PICK m : ~m.raw /\ (down' = down \/ down' = Append(down, m))
  <2>1. ~[raw |-> FALSE, output |-> 0].raw
    OBVIOUS
  <2> QED
    BY <2>1 DEF ReportProgress, Send
<1>4. down' \in Seq(StdOut) \/ Len(down') \in Nat
  BY <1>1, <1>3
<1>5. \A i \in 1..Len(down') : ~down'[i].raw
  BY <1>1, <1>2, <1>3
<1> QED
  BY <1>1, <1>4, <1>5 DEF AllSent

(* And the next output follows what was sent. *)
LEMMA WriteIsNext ==
  ASSUME TypeOK, StatusInv, Write
  PROVE  AllSent(written)'
<1>1. PICK n : n = written
  OBVIOUS
<1>2. PICK m : m = [raw |-> TRUE, output |-> n + 1]
  OBVIOUS
<1>3. down \in Seq(StdOut) /\ n \in Nat
  BY <1>1, ReaderAssumption DEF TypeOK, RpcTypeOK, ProcessTypeOK
<1>4. written' = n + 1 /\ down' = Append(down, m)
  BY <1>1, <1>2 DEF Write, Send
<1>5. /\ n <= Len(down) /\ Len(down) \in Nat
      /\ \A i \in 1..Len(down) - n : ~down[i].raw
      /\ \A i \in 1..n : down[Len(down) - n + i] = [raw |-> TRUE, output |-> i]
  BY <1>1, <1>3 DEF StatusInv, AllSent
<1>6. Len(down') = Len(down) + 1 /\ down'[Len(down) + 1] = m
      /\ \A i \in 1..Len(down) : down'[i] = down[i]
  BY <1>3, <1>4
<1>7. Len(down') - written' = Len(down) - n
  BY <1>3, <1>4, <1>5, <1>6
<1>8. \A i \in 1..Len(down) - n : ~down'[i].raw
  BY <1>3, <1>5, <1>6
<1>9. \A i \in 1..n + 1 : down'[Len(down) - n + i] = [raw |-> TRUE, output |-> i]
  <2>1. SUFFICES ASSUME NEW i \in 1..n + 1
                 PROVE  down'[Len(down) - n + i] = [raw |-> TRUE, output |-> i]
    OBVIOUS
  <2>2. CASE i = n + 1
    <3>1. Len(down) - n + i = Len(down) + 1
      BY <1>3, <1>5, <2>2
    <3> QED
      BY <1>2, <1>6, <2>2, <3>1
  <2>3. CASE i # n + 1
    <3>1. i \in 1..n /\ Len(down) - n + i \in 1..Len(down)
      BY <1>3, <1>5, <2>3
    <3> QED
      BY <1>5, <1>6, <3>1
  <2> QED
    BY <2>2, <2>3
<1>10. written' <= Len(down')
  BY <1>3, <1>4, <1>5, <1>6
<1> QED
  BY <1>4, <1>7, <1>8, <1>9, <1>10 DEF AllSent

(* Every step keeps what is written and what is sent together. *)
LEMMA NextAllSent == TypeOK /\ PhaseInv /\ StatusInv /\ [Next]_vars => AllSent(written)'
<1> SUFFICES ASSUME TypeOK, PhaseInv, StatusInv, [Next]_vars PROVE AllSent(written)'
  OBVIOUS
<1>1. CASE ReportProgress
  BY <1>1, ReportIsFirst
<1>2. CASE Write
  BY <1>2, WriteIsNext
<1>3. CASE UNCHANGED <<down, written>>
  BY <1>3 DEF StatusInv, AllSent
<1> QED
  BY <1>1, <1>2, <1>3
     DEF Next, AcceptRequest, AcceptPanics, RequestFails, OpenFails, OpenSucceeds, AttachSucceeds,
         AttachFails, AttachReturns, HandlerReturns, LoopMakesStdin, LoopReceives, LoopRecvFails,
         LoopSends, Read, CopyStdin, TakeSize, SendSize, SizePanics, ProcessWrites, ProcessExits,
         ClientOpens, ClientSends, ClientReads, ClientHangsUp, vars, gateVars, rpcVars, outVars

(* The status of a process that has exited is not taken back, and its output is complete. *)
Told ==
  /\ handler \in {"detached", "returned"} => status # "none"
  /\ handler \in {"detached", "returned"} /\ status \in {"ok", "aborted"} =>
       process = status /\ closed /\ (written = produced \/ hungup)
  /\ rpc \in {"ok", "aborted"} => process = rpc /\ closed /\ written = produced

(* A status is told only after the process has ended and its output been copied. *)
LEMMA NextTold == TypeOK /\ Told /\ PhaseInv /\ [Next]_vars => Told'
<1> SUFFICES ASSUME TypeOK, Told, PhaseInv, [Next]_vars PROVE Told'
  OBVIOUS
<1> USE DEF Told, handlerVars, rpcVars, outVars
<1>1. CASE AcceptRequest \/ RequestFails
  <2>1. /\ handler = "recv" /\ handler' \in {"opening", "detached"}
        /\ handler' = "detached" => status' \in {"invalid", "unavailable"}
        /\ UNCHANGED <<rpc, closed, process, written, produced>>
    BY <1>1 DEF AcceptRequest, RequestFails, readerVars
  <2> QED
    BY <2>1
<1>2. CASE ReportProgress \/ OpenFails \/ OpenSucceeds \/ AttachFails
  BY <1>2 DEF ReportProgress, OpenFails, OpenSucceeds, AttachFails, readerVars
<1>3. CASE AttachSucceeds
  <2>1. rpc \notin {"ok", "aborted"} /\ rpc' = rpc /\ handler' = "streaming"
    BY <1>3 DEF AttachSucceeds, PhaseInv
  <2> QED
    BY <2>1
<1>4. CASE AttachReturns
  BY <1>4 DEF AttachReturns, Exited, Statuses
<1>5. CASE HandlerReturns
  BY <1>5 DEF HandlerReturns, readerVars
<1>6. CASE LoopMakesStdin \/ LoopRecvFails \/ LoopSends
  <2>1. UNCHANGED <<handler, status, rpc, hungup, process, written, produced>> /\ (closed => closed')
    BY <1>6 DEF LoopMakesStdin, LoopRecvFails, LoopSends, LoopChecksClosed, LoopReturns
  <2> QED
    BY <2>1
<1>7. CASE LoopReceives
  <2>1. UNCHANGED <<handler, status, rpc, hungup, process, written, produced>> /\ (closed => closed')
    BY <1>7 DEF LoopReceives, LoopChecksClosed, LoopReturns
  <2> QED
    BY <2>1
<1>8. CASE Read \/ CopyStdin \/ TakeSize \/ SendSize
  BY <1>8 DEF Read, CopyStdin, TakeSize, SendSize, readerVars
<1>9. CASE Write
  <2>1. written # produced
    BY <1>9, ReaderAssumption DEF Write, TypeOK, ProcessTypeOK
  <2> QED
    BY <1>9, <2>1 DEF Write, Send, readerVars
<1>10. CASE SizePanics \/ AcceptPanics
  <2>1. /\ UNCHANGED <<handler, status, process, closed, written, produced, hungup>>
        /\ rpc' \in {rpc, "unavailable"}
    BY <1>10 DEF SizePanics, AcceptPanics, Panic, readerVars
  <2> QED
    BY <2>1
<1>11. CASE ProcessWrites \/ ProcessExits
  <2>1. process = "running" /\ UNCHANGED <<rpc, handler, status>>
    BY <1>11 DEF ProcessWrites, ProcessExits
  <2> QED
    BY <2>1
<1>12. CASE ClientOpens \/ ClientSends \/ ClientReads \/ ClientHangsUp
  <2>1. /\ UNCHANGED <<handler, status, process, closed, written, produced>>
        /\ rpc' = rpc \/ rpc' = "open"
        /\ hungup => hungup'
    BY <1>12 DEF ClientOpens, ClientSends, ClientReads, ClientHangsUp, gateVars, readerVars
  <2> QED
    BY <2>1
<1>13. CASE UNCHANGED vars
  BY <1>13 DEF vars, gateVars, readerVars
<1> QED
  BY <1>1, <1>2, <1>3, <1>4, <1>5, <1>6, <1>7, <1>8, <1>9, <1>10, <1>11, <1>12, <1>13 DEF Next

(* Every step keeps what a status says of the output. *)
LEMMA NextStatus == TypeOK /\ PhaseInv /\ StatusInv /\ [Next]_vars => StatusInv'
  BY NextAllSent, NextTold DEF StatusInv, Told

-----------------------------------------------------------------------------
(* The input. *)

(* The head of a queue leaves it: its first input, if it has one, is the next. *)
LEMMA QueueTail ==
  ASSUME NEW q \in Seq(StdIn), NEW k \in Nat, NEW n \in Nat, Queue(q, k, n), q # <<>>
  PROVE  /\ Len(q[1].input) \in Nat
         /\ k + Len(q[1].input) <= n
         /\ Len(q[1].input) > 0 => q[1].input[1] = k + 1
         /\ Queue(Tail(q), k + Len(q[1].input), n)
<1>1. PICK f : Counts(q, f, k, n)
  BY DEF Queue
<1>2. Len(q) \in Nat /\ Len(q) >= 1 /\ Len(Tail(q)) = Len(q) - 1
  OBVIOUS
<1>3. \A i \in 1..Len(Tail(q)) : i + 1 \in 1..Len(q) /\ Tail(q)[i] = q[i + 1]
  OBVIOUS
<1>4. Len(q[1].input) \in Nat
  <2>1. q[1] \in StdIn
    OBVIOUS
  <2>2. q[1].input \in Seq(Nat \ {0})
    BY <2>1 DEF StdIn
  <2> QED
    BY <2>2
<1>5. PICK c \in Nat : c = Len(q[1].input)
  BY <1>4
<1>6. f[1] = k + c /\ (c > 0 => q[1].input[1] = k + 1)
  <2>1. 1 \in 1..Len(q)
    BY <1>2
  <2>2. Adds(q[1], f[1 - 1], f[1])
    BY <1>1, <2>1 DEF Counts
  <2>3. f[1 - 1] = k
    BY <1>1 DEF Counts
  <2>4. Adds(q[1], k, f[1])
    BY <2>2, <2>3
  <2>5. PICK x : x = q[1].input
    OBVIOUS
  <2> QED
    BY <1>5, <2>4, <2>5 DEF Adds
<1>7. f[1] <= n
  <2>1. 1 \in 0..Len(q) /\ Len(q) \in 0..Len(q)
    BY <1>2
  <2> QED
    BY <1>1, <1>2, <2>1 DEF Counts
<1> DEFINE g == [i \in 0..Len(q) - 1 |-> f[i + 1]]
<1>8. Counts(Tail(q), g, k + c, n)
  <2>1. \A i \in 0..Len(q) - 1 : i + 1 \in 0..Len(q) /\ g[i] = f[i + 1]
    BY <1>2
  <2>2. g \in [0..Len(Tail(q)) -> Nat]
    <3>1. \A i \in 0..Len(q) - 1 : f[i + 1] \in Nat
      BY <1>1, <2>1 DEF Counts
    <3> QED
      BY <1>2, <3>1
  <2>3. g[0] = k + c /\ g[Len(Tail(q))] = n
    <3>1. 0 \in 0..Len(q) - 1 /\ Len(q) - 1 \in 0..Len(q) - 1 /\ Len(q) - 1 + 1 = Len(q)
      BY <1>2
    <3>2. g[0] = f[1] /\ g[Len(q) - 1] = f[Len(q)]
      BY <2>1, <3>1
    <3> QED
      BY <1>1, <1>2, <1>6, <3>2 DEF Counts
  <2>4. ASSUME NEW i \in 1..Len(Tail(q)) PROVE Adds(Tail(q)[i], g[i - 1], g[i])
    <3>1. i + 1 \in 1..Len(q) /\ Tail(q)[i] = q[i + 1]
      BY <1>3
    <3>2. g[i] = f[i + 1] /\ g[i - 1] = f[i + 1 - 1]
      <4>1. i \in 0..Len(q) - 1 /\ i - 1 \in 0..Len(q) - 1 /\ i - 1 + 1 = i + 1 - 1
        BY <1>2
      <4> QED
        BY <2>1, <4>1
    <3>3. Adds(q[i + 1], f[i + 1 - 1], f[i + 1])
      BY <1>1, <3>1 DEF Counts
    <3> QED
      BY <3>1, <3>2, <3>3
  <2>5. ASSUME NEW i \in 0..Len(Tail(q)), NEW j \in 0..Len(Tail(q)), i <= j PROVE g[i] <= g[j]
    <3>1. i + 1 \in 0..Len(q) /\ j + 1 \in 0..Len(q) /\ i + 1 <= j + 1
      BY <1>2, <2>5
    <3>2. f[i + 1] <= f[j + 1]
      BY <1>1, <3>1 DEF Counts
    <3> QED
      BY <1>2, <2>1, <3>2
  <2> QED
    BY <2>2, <2>3, <2>4, <2>5 DEF Counts
<1>9. Queue(Tail(q), k + c, n)
  BY <1>8 DEF Queue
<1> QED
  BY <1>4, <1>5, <1>6, <1>7, <1>9

(* A message joins it with the next inputs. *)
LEMMA QueueAppend ==
  ASSUME NEW q \in Seq(StdIn), NEW k \in Nat, NEW n \in Nat, Queue(q, k, n),
         NEW m, NEW c \in Nat, m.input = [i \in 1..c |-> n + i]
  PROVE  Queue(Append(q, m), k, n + c)
<1>1. PICK f : Counts(q, f, k, n)
  BY DEF Queue
<1> DEFINE r == Append(q, m)
           g == [i \in 0..Len(q) + 1 |-> IF i <= Len(q) THEN f[i] ELSE n + c]
<1>2. /\ Len(r) = Len(q) + 1 /\ Len(q) \in Nat
      /\ \A i \in 1..Len(q) : r[i] = q[i]
      /\ r[Len(q) + 1] = m
  OBVIOUS
<1>3. Len(m.input) = c /\ (c > 0 => m.input[1] = n + 1)
  OBVIOUS
<1>4. /\ \A i \in 0..Len(q) : g[i] = f[i]
      /\ g[Len(q) + 1] = n + c
  BY <1>2
<1>5. /\ f \in [0..Len(q) -> Nat] /\ f[0] = k /\ f[Len(q)] = n
      /\ \A i, j \in 0..Len(q) : i <= j => f[i] <= f[j]
  BY <1>1 DEF Counts
<1>6. g \in [0..Len(r) -> Nat]
  BY <1>2, <1>5
<1> HIDE DEF r, g
<1>7. g[0] = k /\ g[Len(r)] = n + c
  <2>1. 0 \in 0..Len(q)
    BY <1>2
  <2> QED
    BY <1>2, <1>4, <1>5, <2>1
<1>8. ASSUME NEW i \in 1..Len(r)
      PROVE  Adds(r[i], g[i - 1], g[i])
  <2>1. CASE i \in 1..Len(q)
    <3>1. i \in 0..Len(q) /\ i - 1 \in 0..Len(q)
      BY <1>2, <2>1
    <3>2. Adds(q[i], f[i - 1], f[i])
      BY <1>1, <2>1 DEF Counts
    <3> QED
      BY <1>2, <1>4, <2>1, <3>1, <3>2
  <2>2. CASE i = Len(q) + 1
    <3>1. i - 1 = Len(q) /\ i - 1 \in 0..Len(q)
      BY <1>2, <2>2
    <3>2. g[i - 1] = n /\ g[i] = n + c /\ r[i] = m
      BY <1>2, <1>4, <1>5, <2>2, <3>1
    <3>3. Adds(m, n, n + c)
      BY <1>3 DEF Adds
    <3> QED
      BY <3>2, <3>3
  <2> QED
    BY <1>2, <2>1, <2>2
<1>9. ASSUME NEW i \in 0..Len(r), NEW j \in 0..Len(r), i <= j PROVE g[i] <= g[j]
  <2>1. CASE j \in 0..Len(q)
    <3>1. i \in 0..Len(q)
      BY <1>2, <1>9, <2>1
    <3> QED
      BY <1>4, <1>5, <1>9, <2>1, <3>1
  <2>2. CASE j = Len(q) + 1
    <3>1. CASE i = Len(q) + 1
      BY <1>4, <2>2, <3>1
    <3>2. CASE i \in 0..Len(q)
      <4>1. Len(q) \in 0..Len(q) /\ i <= Len(q)
        BY <1>2, <3>2
      <4>2. f[i] <= n /\ f[i] \in Nat
        BY <1>5, <3>2, <4>1
      <4> QED
        BY <1>4, <2>2, <3>2, <4>2
    <3> QED
      BY <1>2, <3>1, <3>2
  <2> QED
    BY <1>2, <2>1, <2>2
<1>10. Counts(r, g, k, n + c)
  BY <1>6, <1>7, <1>8, <1>9 DEF Counts
<1>11. Queue(r, k, n + c)
  BY <1>10 DEF Queue
<1> QED
  BY <1>11 DEF r

(* The types of what follows. *)
LEMMA InputTypes ==
  ASSUME TypeOK
  PROVE  /\ up \in Seq(StdIn)
         /\ consumed \in Seq(Nat) /\ Len(consumed) \in Nat
         /\ typed \in Nat
         /\ ByCopier \in 0..1 /\ ByLoop \in 0..1 /\ Taken \in Nat
<1>1. up \in Seq(StdIn) /\ consumed \in Seq(Nat) /\ typed \in Nat
  BY ReaderAssumption DEF TypeOK, RpcTypeOK, CopyTypeOK, ClientTypeOK
<1>2. Len(consumed) \in Nat
  BY <1>1
<1>3. ByCopier \in 0..1 /\ ByLoop \in 0..1
  BY DEF ByCopier, ByLoop
<1> QED
  BY <1>1, <1>2, <1>3 DEF Taken

(* A step that moves no input. *)
LEMMA SameInput ==
  ASSUME InputInv, UNCHANGED <<up, typed, consumed, copied, loopIn>>,
         copier' = "write" <=> copier = "write",
         loop' = "send" <=> loop = "send",
         copier' # "ended" => copier # "ended",
         loop' # "ended" => loop # "ended"
  PROVE  InputInv'
<1>1. Taken' = Taken
  BY DEF Taken, ByCopier, ByLoop
<1>2. Queue(up, Taken, typed) => Queue(up, Taken, typed)'
  BY <1>1 DEF Queue, Counts
<1> QED
  BY <1>1, <1>2 DEF InputInv

(* The copy of stdin has ended: what it held may be lost, what the process has is not. *)
LEMMA LostInput ==
  ASSUME InputInv, UNCHANGED <<typed, consumed>>, copier' = "ended"
  PROVE  InputInv'
  BY DEF InputInv

(* loop returns: what is left in up is lost. *)
LEMMA LoopEndsInput ==
  ASSUME InputInv, UNCHANGED <<typed, consumed, copied, copier>>, loop # "send", loop' = "ended"
  PROVE  InputInv'
<1>1. Taken' = Taken
  BY DEF Taken, ByCopier, ByLoop
<1> QED
  BY <1>1 DEF InputInv

(* A message without input is taken, by the handler or by loop. *)
LEMMA SkipInput ==
  ASSUME TypeOK, InputInv, up # <<>>, Len(up[1].input) = 0, up' = Tail(up),
         UNCHANGED <<typed, consumed, copied, copier, loopIn>>,
         loop \notin {"send", "ended"}, loop' # "send"
  PROVE  InputInv'
<1>1. Taken' = Taken
  BY DEF Taken, ByCopier, ByLoop
<1>2. Queue(up, Taken, typed) => Queue(up', Taken, typed)
  <2>1. Queue(up, Taken, typed) => Queue(Tail(up), Taken + Len(up[1].input), typed)
    BY InputTypes, QueueTail
  <2>2. Taken + Len(up[1].input) = Taken
    BY InputTypes
  <2> QED
    BY <2>1, <2>2
<1>3. Queue(up, Taken, typed) => Queue(up, Taken, typed)'
  BY <1>1, <1>2 DEF Queue, Counts
<1> QED
  BY <1>1, <1>3 DEF InputInv

(* loop takes the next input. *)
LEMMA TakeInput ==
  ASSUME TypeOK, InputInv, up # <<>>, Len(up[1].input) = 1, up' = Tail(up),
         UNCHANGED <<typed, consumed, copied, copier>>,
         loop = "recv", loop' = "send", loopIn' = up[1].input[1]
  PROVE  InputInv'
<1>1. CASE copier = "ended"
  BY <1>1, LostInput
<1>2. CASE copier # "ended"
  <2>1. Queue(up, Taken, typed) /\ Taken <= typed
    BY <1>2 DEF InputInv
  <2>2. loopIn' = Taken + 1 /\ Taken + 1 <= typed /\ Queue(up', Taken + 1, typed)
    <3>1. up \in Seq(StdIn) /\ Taken \in Nat /\ typed \in Nat
      BY InputTypes
    <3>2. /\ Taken + Len(up[1].input) <= typed
          /\ Len(up[1].input) > 0 => up[1].input[1] = Taken + 1
          /\ Queue(Tail(up), Taken + Len(up[1].input), typed)
      BY <2>1, <3>1, QueueTail
    <3> QED
      BY <3>2
  <2>3. Taken' = Taken + 1
    <3>1. ByLoop = 0 /\ ByLoop' = 1 /\ ByCopier' = ByCopier
      BY DEF ByLoop, ByCopier
    <3> QED
      BY <3>1, InputTypes DEF Taken
  <2>4. Queue(up, Taken, typed)'
    BY <2>2, <2>3 DEF Queue, Counts
  <2> QED
    BY <1>2, <2>2, <2>3, <2>4 DEF InputInv
<1> QED
  BY <1>1, <1>2

(* It hands it to the copy of stdin. *)
LEMMA SendsInput ==
  ASSUME TypeOK, InputInv, LoopSends
  PROVE  InputInv'
<1>1. /\ loop = "send" /\ copier = "read" /\ loop' # "send" /\ copier' = "write" /\ copied' = loopIn
      /\ UNCHANGED <<up, typed, consumed>>
  BY DEF LoopSends, LoopChecksClosed, LoopReturns, rpcVars, clientVars
<1>2. ByLoop = 1 /\ ByCopier = 0 /\ ByLoop' = 0 /\ ByCopier' = 1
  BY <1>1 DEF ByLoop, ByCopier
<1>3. Taken' = Taken /\ Taken = Len(consumed) + 1
  BY <1>1, <1>2, InputTypes DEF Taken
<1>4. Taken <= typed /\ loopIn = Taken /\ Queue(up, Taken, typed)
  BY <1>1 DEF InputInv
<1>5. Queue(up, Taken, typed)'
  BY <1>1, <1>3, <1>4 DEF Queue, Counts
<1> QED
  BY <1>1, <1>3, <1>4, <1>5 DEF InputInv

(* Which writes it to the process. *)
LEMMA CopiesInput ==
  ASSUME TypeOK, InputInv, CopyStdin
  PROVE  InputInv'
<1>1. copier = "write" /\ UNCHANGED <<up, typed, loop, loopIn>>
  BY DEF CopyStdin, rpcVars, readerVars, clientVars
<1>2. CASE process # "running"
  BY <1>1, <1>2, LostInput DEF CopyStdin
<1>3. CASE process = "running"
  <2>1. consumed' = Append(consumed, copied) /\ copier' = "read"
    BY <1>3 DEF CopyStdin
  <2>2. copied = Len(consumed) + 1 /\ Taken <= typed /\ (loop # "ended" => Queue(up, Taken, typed))
        /\ consumed = [i \in 1..Len(consumed) |-> i] /\ (loop = "send" => loopIn = Taken)
    BY <1>1 DEF InputInv
  <2>3. Len(consumed') = Len(consumed) + 1
    BY <2>1, InputTypes
  <2>4. ByCopier = 1 /\ ByCopier' = 0 /\ ByLoop' = ByLoop
    BY <1>1, <2>1 DEF ByCopier, ByLoop
  <2>5. Taken' = Taken /\ Len(consumed') <= typed
    BY <1>1, <2>2, <2>3, <2>4, InputTypes DEF Taken
  <2>6. consumed' = [i \in 1..Len(consumed') |-> i]
    <3>1. PICK n \in Nat : n = Len(consumed)
      BY InputTypes
    <3>2. consumed = [i \in 1..n |-> i]
      BY <2>2, <3>1
    <3>3. consumed' = Append([i \in 1..n |-> i], n + 1)
      BY <2>1, <2>2, <3>1, <3>2
    <3>4. Append([i \in 1..n |-> i], n + 1) = [i \in 1..n + 1 |-> i]
      OBVIOUS
    <3> QED
      BY <2>3, <3>1, <3>3, <3>4
  <2>7. loop' # "ended" => Queue(up, Taken, typed)'
    BY <1>1, <2>2, <2>5 DEF Queue, Counts
  <2> QED
    BY <1>1, <2>1, <2>2, <2>5, <2>6, <2>7 DEF InputInv
<1> QED
  BY <1>2, <1>3

(* The client adds to the queue. *)
LEMMA ClientInput ==
  ASSUME TypeOK, PhaseInv, InputInv, ClientOpens \/ ClientSends
  PROVE  InputInv'
<1>1. UNCHANGED <<consumed, copier, copied, loop, loopIn>>
  BY DEF ClientOpens, ClientSends, gateVars, readerVars, copyVars
<1>2. Taken' = Taken
  BY <1>1 DEF Taken, ByCopier, ByLoop
<1>3. PICK c \in 0..2 : /\ typed' = typed + c
                        /\ \E m : up' = Append(up, m) /\ m.input = [i \in 1..c |-> typed + i]
  <2>1. CASE ClientOpens
    <3>1. PICK a \in {"nil", "unnamed", "named"}, z \in BOOLEAN :
            up' = <<[app |-> a, size |-> z, input |-> <<>>]>>
      BY <2>1 DEF ClientOpens
    <3>2. PICK m : m = [app |-> a, size |-> z, input |-> <<>>]
      OBVIOUS
    <3>3. up' = Append(up, m) /\ m.input = <<>> /\ typed' = typed
      BY <2>1, <3>1, <3>2 DEF ClientOpens, PhaseInv
    <3>4. <<>> = [i \in 1..0 |-> typed + i] /\ typed = typed + 0
      BY InputTypes
    <3> QED
      BY <3>3, <3>4
  <2>2. CASE ClientSends
    <3>1. PICK n \in 0..2, z \in BOOLEAN :
            /\ up' = Append(up, [app |-> "nil", size |-> z, input |-> [i \in 1..n |-> typed + i]])
            /\ typed' = typed + n
      BY <2>2 DEF ClientSends
    <3>2. PICK m : m = [app |-> "nil", size |-> z, input |-> [i \in 1..n |-> typed + i]]
      OBVIOUS
    <3>3. up' = Append(up, m) /\ m.input = [i \in 1..n |-> typed + i]
      BY <3>1, <3>2
    <3> QED
      BY <3>1, <3>3
  <2> QED
    BY <2>1, <2>2
<1>4. ASSUME copier # "ended", loop # "ended" PROVE Queue(up, Taken, typed)'
  <2>1. Queue(up, Taken, typed)
    BY <1>4 DEF InputInv
  <2>2. PICK m : up' = Append(up, m) /\ m.input = [i \in 1..c |-> typed + i]
    BY <1>3
  <2>3. Queue(up', Taken, typed + c)
    <3>1. up \in Seq(StdIn) /\ Taken \in Nat /\ typed \in Nat /\ c \in Nat
      BY InputTypes
    <3>2. Queue(Append(up, m), Taken, typed + c)
      BY <2>1, <2>2, <3>1, QueueAppend
    <3> QED
      BY <2>2, <3>2
  <2> QED
    BY <1>2, <1>3, <2>3 DEF Queue, Counts
<1>5. /\ Len(consumed) <= typed'
      /\ copier # "ended" => Taken <= typed'
  <2>1. Len(consumed) <= typed /\ (copier # "ended" => Taken <= typed)
    BY DEF InputInv
  <2> QED
    BY <1>3, <2>1, InputTypes
<1> QED
  BY <1>1, <1>2, <1>4, <1>5 DEF InputInv

(* Every step keeps the inputs under way in order. *)
LEMMA NextInput == TypeOK /\ PhaseInv /\ InputInv /\ [Next]_vars => InputInv'
<1> SUFFICES ASSUME TypeOK, PhaseInv, InputInv, [Next]_vars PROVE InputInv'
  OBVIOUS
<1>1. CASE AcceptRequest \/ AcceptPanics
  <2>1. /\ up # <<>> /\ up' = Tail(up) /\ handler = "recv" /\ ~gatePanic
        /\ UNCHANGED <<typed, consumed, copied, copier, loop, loopIn>>
    BY <1>1 DEF AcceptRequest, AcceptPanics, GateAlive, readerVars, copyVars, clientVars
  <2>2. loop = "none" /\ Len(up[1].input) = 0
    BY <2>1 DEF PhaseInv
  <2> QED
    BY <2>1, <2>2, SkipInput
<1>2. CASE LoopReceives
  <2>1. /\ up # <<>> /\ up' = Tail(up) /\ loop = "recv"
        /\ UNCHANGED <<typed, consumed, copied, copier>>
    BY <1>2 DEF LoopReceives, copyVars, clientVars
  <2>2. up \in Seq(StdIn) /\ Head(up) = up[1]
    BY <2>1, InputTypes
  <2>3. PICK n : n = Len(Head(up).input)
    OBVIOUS
  <2>4. CASE n = 0
    <3>1. UNCHANGED loopIn /\ loop' # "send"
      BY <1>2, <2>3, <2>4 DEF LoopReceives, LoopChecksClosed, LoopReturns
    <3> QED
      BY <2>1, <2>2, <2>3, <2>4, <3>1, SkipInput
  <2>5. CASE n = 1
    <3>1. loop' = "send" /\ loopIn' = Head(up).input[1]
      BY <1>2, <2>3, <2>5 DEF LoopReceives
    <3> QED
      BY <2>1, <2>2, <2>3, <2>5, <3>1, TakeInput
  <2>6. CASE n \notin {0, 1}
    <3>1. loop' = "ended"
      BY <1>2, <2>3, <2>6 DEF LoopReceives, LoopReturns
    <3> QED
      BY <2>1, <3>1, LoopEndsInput
  <2> QED
    BY <2>4, <2>5, <2>6
<1>3. CASE LoopSends
  BY <1>3, SendsInput
<1>4. CASE CopyStdin
  BY <1>4, CopiesInput
<1>5. CASE ClientOpens \/ ClientSends
  BY <1>5, ClientInput
<1>6. CASE OpenSucceeds \/ LoopMakesStdin \/ LoopRecvFails
  <2>1. /\ UNCHANGED <<up, typed, consumed, copied, loopIn, copier>>
        /\ loop' # "send" /\ loop \notin {"send", "ended"}
    BY <1>6 DEF OpenSucceeds, LoopMakesStdin, LoopRecvFails, LoopReturns, PhaseInv, rpcVars, copyVars,
                clientVars
  <2> QED
    BY <2>1, SameInput
<1>7. CASE AttachSucceeds \/ Read
  <2>1. /\ UNCHANGED <<up, typed, consumed, copied, loop, loopIn>>
        /\ copier # "write" /\ copier # "ended" /\ copier' # "write"
    BY <1>7 DEF AttachSucceeds, Read, PhaseInv, rpcVars, readerVars, clientVars
  <2> QED
    BY <2>1, SameInput
<1>8. CASE UNCHANGED <<up, typed, consumed, copied, copier, loop, loopIn>>
  BY <1>8, SameInput
<1> QED
  BY <1>1, <1>2, <1>3, <1>4, <1>5, <1>6, <1>7, <1>8
     DEF Next, RequestFails, ReportProgress, OpenFails, AttachFails, AttachReturns,
         HandlerReturns, Write, TakeSize, SendSize, SizePanics, ProcessWrites, ProcessExits,
         ClientReads, ClientHangsUp, vars, gateVars, rpcVars, readerVars, copyVars, clientVars

-----------------------------------------------------------------------------
(* The theorems. *)

(* The invariant holds before the first request. *)
LEMMA InitInv == Init => Inv
<1> SUFFICES ASSUME Init PROVE Inv
  OBVIOUS
<1>1. TypeOK
  <2>1. RpcTypeOK
    <3>1. up \in Seq(StdIn) /\ down \in Seq(StdOut)
      BY DEF Init, RpcInit
    <3> QED
      BY <3>1 DEF Init, RpcInit, RpcTypeOK
  <2>2. HandlerTypeOK /\ ReaderTypeOK /\ SizeTypeOK
    <3>1. HandlerTypeOK
      BY ReaderAssumption DEF Init, HandlerTypeOK
    <3>2. ReaderTypeOK
      BY DEF Init, ReaderTypeOK
    <3>3. SizeTypeOK
      <4>1. sizes \in 0..1 /\ sizers \in Nat
        BY DEF Init
      <4>2. sizesOpen \in BOOLEAN /\ gatePanic \in BOOLEAN /\ resizer \in {"none", "waiting", "ended"}
        BY DEF Init
      <4> QED
        BY <4>1, <4>2 DEF SizeTypeOK
    <3> QED
      BY <3>1, <3>2, <3>3
  <2>3. CopyTypeOK /\ ProcessTypeOK /\ ClientTypeOK
    BY ReaderAssumption DEF Init, CopyTypeOK, ProcessTypeOK, ClientTypeOK
  <2> QED
    BY <2>1, <2>2, <2>3 DEF TypeOK
<1>2. OverInv
  BY DEF Init, RpcInit, OverInv
<1>3. PhaseInv
  BY DEF Init, RpcInit, PhaseInv
<1>4. StatusInv
  <2>1. down = <<>> /\ written = 0 /\ Len(down) = 0
    BY DEF Init, RpcInit
  <2>2. AllSent(written)
    BY <2>1 DEF AllSent
  <2> QED
    BY <2>2 DEF Init, RpcInit, StatusInv
<1>5. InputInv
  <2>1. Len(consumed) = 0 /\ Len(up) = 0 /\ typed = 0 /\ copier = "none" /\ loop = "none"
    BY DEF Init, RpcInit
  <2>2. ByCopier = 0 /\ ByLoop = 0
    BY <2>1 DEF ByCopier, ByLoop
  <2>3. Taken = 0
    BY <2>1, <2>2 DEF Taken
  <2>4. Queue(up, Taken, typed)
    <3>1. Counts(up, [i \in 0..0 |-> 0], 0, 0)
      BY <2>1 DEF Counts
    <3> QED
      BY <2>1, <2>3, <3>1 DEF Queue
  <2>5. consumed = [i \in 1..Len(consumed) |-> i]
    BY <2>1 DEF Init
  <2> QED
    BY <2>1, <2>3, <2>4, <2>5 DEF InputInv
<1> QED
  BY <1>1, <1>2, <1>3, <1>4, <1>5 DEF Inv

(* Every step keeps it. *)
LEMMA NextInv == Inv /\ [Next]_vars => Inv'
  BY NextType, NextOver, NextPhase, NextStatus, NextInput DEF Inv

(* Every variable of the gate's end keeps its type, loop and the copy of stdin hold an
   input exactly while they pass it on, and sizeCh never holds more than its capacity. *)
THEOREM ReaderTypeCorrect == Spec => []TypeOK
  BY InitInv, NextInv, PTL DEF Spec, Inv

(* With a client that keeps to the protocol a size is sent on the closed sizeCh, and the
   gate lost, only once the client has hung up or the handler has left the session. *)
THEOREM NoPanicWhileRunning == Spec => []GatePanicsOnlyAtEnd
<1>1. Inv => GatePanicsOnlyAtEnd
  BY DEF Inv, OverInv, Over, GatePanicsOnlyAtEnd
<1> QED
  BY <1>1, InitInv, NextInv, PTL DEF Spec

(* OpenShell returns the status of the process after all of its output, whatever the
   other goroutines do. *)
THEOREM OutputBeforeStatus == Spec => []OkMeansAllSent
<1>1. Inv => OkMeansAllSent
  BY DEF Inv, StatusInv, OkMeansAllSent
<1> QED
  BY <1>1, InitInv, NextInv, PTL DEF Spec

-----------------------------------------------------------------------------
(* The process's stdin. *)

(* Only CopyStdin feeds the process, and only the client types. *)
LEMMA OthersFeedNothing == ASSUME [Next]_vars, ~CopyStdin PROVE UNCHANGED consumed
  BY DEF Next, AcceptRequest, AcceptPanics, RequestFails, ReportProgress, OpenFails, OpenSucceeds, AttachSucceeds,
         AttachFails, AttachReturns, HandlerReturns, LoopMakesStdin, LoopReceives, LoopRecvFails,
         LoopSends, Read, Write, TakeSize, SendSize, SizePanics, ProcessWrites, ProcessExits,
         ClientOpens, ClientSends, ClientReads, ClientHangsUp, vars, gateVars

(* Only the client types. *)
LEMMA OthersTypeNothing == ASSUME [Next]_vars, ~ClientSends PROVE UNCHANGED typed
  BY DEF Next, AcceptRequest, AcceptPanics, RequestFails, ReportProgress, OpenFails, OpenSucceeds, AttachSucceeds,
         AttachFails, AttachReturns, HandlerReturns, LoopMakesStdin, LoopReceives, LoopRecvFails,
         LoopSends, Read, CopyStdin, Write, TakeSize, SendSize, SizePanics, ProcessWrites,
         ProcessExits, ClientOpens, ClientReads, ClientHangsUp, vars, clientVars

(* A step puts the next input into the pipe, or takes the next one out, or neither. *)
LEMMA StepPipes ==
  Inv /\ [Next]_vars => [StdinPipe!Next]_(<<[i \in 1..typed |-> i], consumed>>)
<1> SUFFICES ASSUME Inv, [Next]_vars
             PROVE  StdinPipe!Next \/ UNCHANGED <<[i \in 1..typed |-> i], consumed>>
  OBVIOUS
<1> DEFINE sent == [i \in 1..typed |-> i]
<1>1. /\ TypeOK /\ InputInv /\ typed \in Nat /\ consumed \in Seq(Nat) /\ Len(consumed) \in Nat
      /\ ByCopier \in 0..1 /\ ByLoop \in 0..1
  BY InputTypes DEF Inv
<1>2. CASE CopyStdin
  <2>1. UNCHANGED typed
    BY <1>2 DEF CopyStdin, clientVars
  <2>2. CASE consumed' = consumed
    BY <2>1, <2>2
  <2>3. CASE consumed' = Append(consumed, copied)
    <3>1. copied = Len(consumed) + 1 /\ Taken <= typed /\ ByCopier = 1
      BY <1>1, <1>2 DEF CopyStdin, InputInv, ByCopier
    <3>2. Len(consumed) < typed
      BY <1>1, <3>1 DEF Taken
    <3>3. Len(sent) = typed /\ sent[Len(consumed) + 1] = Len(consumed) + 1
      BY <1>1, <3>2
    <3>4. StdinPipe!Take
      BY <2>1, <2>3, <3>1, <3>2, <3>3 DEF StdinPipe!Take
    <3> QED
      BY <3>4 DEF StdinPipe!Next
  <2> QED
    BY <1>2, <2>2, <2>3 DEF CopyStdin
<1>3. CASE ClientSends
  <2>1. UNCHANGED consumed
    BY <1>3 DEF ClientSends, gateVars
  <2>2. PICK n \in 0..2 : typed' = typed + n
    BY <1>3 DEF ClientSends
  <2>3. CASE n = 0
    BY <1>1, <2>1, <2>2, <2>3
  <2>4. CASE n # 0
    <3>1. sent' = [i \in 1..typed + n |-> i]
      BY <2>2
    <3>2. Len(sent') > Len(sent) /\ \A i \in 1..Len(sent) : sent'[i] = sent[i]
      <4>1. PICK t \in Nat : t = typed
        BY <1>1
      <4>2. PICK u \in Nat : u = t + n
        BY <4>1
      <4>3. sent = [i \in 1..t |-> i] /\ sent' = [i \in 1..u |-> i] /\ u > t
        BY <2>4, <3>1, <4>1, <4>2
      <4> HIDE DEF sent
      <4>4. Len(sent) = t /\ Len(sent') = u
        BY <4>3
      <4>5. \A i \in 1..t : sent[i] = i /\ sent'[i] = i
        BY <4>3
      <4> QED
        BY <4>3, <4>4, <4>5
    <3>3. StdinPipe!Put
      BY <2>1, <3>2 DEF StdinPipe!Put
    <3> QED
      BY <3>3 DEF StdinPipe!Next
  <2> QED
    BY <2>3, <2>4
<1>4. CASE ~CopyStdin /\ ~ClientSends
  BY <1>4, OthersFeedNothing, OthersTypeNothing
<1> QED
  BY <1>2, <1>3, <1>4

(* What the client sends reaches the process in order, nothing twice and nothing skipped,
   for any number of inputs and whichever end goes first. *)
THEOREM StdinImplementsPipe == Spec => StdinIsPipe
<1>1. Init => StdinPipe!Init
  BY DEF Init, StdinPipe!Init
<1> QED
  BY <1>1, InitInv, NextInv, StepPipes, PTL DEF Spec, StdinIsPipe, StdinPipe!Spec, StdinPipe!vars
===============================================================================
