--------------------------- MODULE ExecCliAppProofs ---------------------------
(***************************************************************************)
(* Proofs about ExecCliApp, for any amount of input, output and signals:   *)
(* how it returns and panics, and that its input and its output are pipes. *)
(***************************************************************************)
EXTENDS ExecCliApp, TLAPS

-----------------------------------------------------------------------------
(* What makes the invariants inductive. *)

(* Until it returns, ExecCliApp is connecting or in the select loop. *)
Started == {"fetch", "dial", "open", "select"}

(* Where main is when a channel is closed, the terminal raw or the process gone. *)
FlowInv ==
  /\ main \in {"fetch", "dial", "open"} => rpc = "none" /\ rcpc = "none"
  /\ main \in Started => result = "none"
  /\ errCh = "closed" => main = "returned"
  /\ winch = "closed" => main \in {"stopnotify", "closeerr", "returned"}
  /\ notified => main \in {"select", "restore", "stopnotify"}
  /\ raw => main \in {"select", "restore"}
  /\ ended # "no" => main \in {"stopnotify", "returned"}

(* A status the receiving goroutine passes on is the one of the RPC, and came last. *)
StatusInv ==
  /\ rcpc = "eof" => rpc = "ok" /\ down = <<>>
  /\ rcpc = "code" => rpc = "aborted" /\ down = <<>>
  /\ ReturnsRemoteStatus

(* What the gate has sent as raw output and the client has not printed: at most one chunk
   is with the receiving goroutine, and the others are the last messages of down. *)
Held    == IF rcpc = "send" THEN 1 ELSE 0
Pending == produced - Len(printed) - Held

Intact ==
  /\ Pending \in 0..Len(down)
  /\ \A i \in 1..Len(down) :
       /\ down[i].raw <=> i > Len(down) - Pending
       /\ down[i].raw => down[i].output = produced - Len(down) + i

(* Output is printed from 1 on, and nothing is lost while the client can still print it;
   down is lost as a whole, with the connection. *)
OutputInv ==
  /\ printed = [i \in 1..Len(printed) |-> i]
  /\ Len(printed) <= produced
  /\ main = "select" /\ rcpc = "send" => got = Len(printed) + 1 /\ Len(printed) < produced
  /\ main \in Started /\ (down # <<>> \/ rpc # "unavailable") => Intact

Inv == TypeOK /\ FlowInv /\ StatusInv /\ OutputInv

-----------------------------------------------------------------------------
(* TypeOK, a part at a time. *)

(* The messages under way. *)
LEMMA RpcType == TypeOK /\ [Next]_vars => RpcTypeOK'
<1> SUFFICES ASSUME RpcTypeOK, GoroutineTypeOK, BoundsOK, [Next]_vars PROVE RpcTypeOK'
  BY DEF TypeOK
<1>1. CASE OpenShell
  <2>1. PICK z \in {FALSE, StdOutIsTerminal} : up' = <<First(z)>>
    BY <1>1 DEF OpenShell
  <2>2. First(z) \in StdIn
    <3>1. z \in BOOLEAN
      BY ExecAssumption, Zenon
    <3> QED
      BY <3>1 DEF First, StdIn
  <2>3. up' \in Seq(StdIn)
    BY <2>1, <2>2
  <2> QED
    BY <1>1, <2>3 DEF OpenShell, RpcTypeOK
<1>2. CASE Recv
  BY <1>2 DEF Recv, RpcTypeOK
<1>3. CASE SelectWinch \/ SelectIn
  <2>1. PICK m \in StdIn : up' = up \/ up' = Append(up, m)
    <3>1. \A z \in BOOLEAN : Resized(z) \in StdIn
      BY DEF Resized, StdIn
    <3>2. CASE SelectWinch
      <4>1. up' = up \/ \E z \in BOOLEAN : up' = Append(up, Resized(z))
        BY <3>2 DEF SelectWinch, Send
      <4> QED
        BY <3>1, <4>1
    <3>3. CASE SelectIn
      <4>1. typed \in Nat \ {0}
        BY <3>3 DEF SelectIn, GoroutineTypeOK
      <4>2. <<typed>> \in Seq(Nat \ {0})
        BY <4>1
      <4>3. Typed(<<typed>>) \in StdIn
        BY <4>2 DEF Typed, StdIn
      <4> QED
        BY <3>3, <4>3 DEF SelectIn, Send
    <3> QED
      BY <1>3, <3>2, <3>3
  <2>2. up \in Seq(StdIn)
    BY DEF RpcTypeOK
  <2>3. up' \in Seq(StdIn)
    BY <2>1, <2>2
  <2>4. UNCHANGED <<rpc, down, hungup>>
    BY <1>3 DEF SelectWinch, SelectIn
  <2> QED
    BY <2>3, <2>4 DEF RpcTypeOK
<1>4. CASE GateReports
  <2>1. [raw |-> FALSE, output |-> 0] \in StdOut /\ [raw |-> TRUE, output |-> produced + 1] \in StdOut
    BY ExecAssumption DEF BoundsOK, StdOut
  <2>2. PICK m \in StdOut : down' = Append(down, m)
    BY <1>4, <2>1 DEF GateReports
  <2>3. down' \in Seq(StdOut)
    BY <2>2 DEF RpcTypeOK
  <2> QED
    BY <1>4, <2>3 DEF GateReports, RpcTypeOK
<1>5. CASE Exit \/ SendOnClosed \/ Signal
  <2>1. UNCHANGED <<rpc, up>> /\ (down' = <<>> \/ down' = down)
    BY <1>5 DEF Exit, SendOnClosed, Signal, EndsNow, Ends
  <2>2. hungup' \in BOOLEAN
    BY <1>5 DEF Exit, SendOnClosed, Signal, EndsNow, Ends, RpcTypeOK
  <2>3. down' \in Seq(StdOut)
    <3>1. down \in Seq(StdOut) /\ <<>> \in Seq(StdOut)
      BY DEF RpcTypeOK
    <3> QED
      BY <2>1, <3>1, Zenon
  <2> QED
    BY <2>1, <2>2, <2>3 DEF RpcTypeOK
<1>6. CASE Cancel \/ GateReturns \/ Disconnect
  <2>1. UNCHANGED up /\ (down' = <<>> \/ down' = down)
    BY <1>6 DEF Cancel, GateReturns, Disconnect, ConnectionLost
  <2>2. hungup' \in BOOLEAN
    BY <1>6 DEF Cancel, GateReturns, Disconnect, ConnectionLost, RpcTypeOK
  <2>3. down' \in Seq(StdOut)
    <3>1. down \in Seq(StdOut) /\ <<>> \in Seq(StdOut)
      BY DEF RpcTypeOK
    <3> QED
      BY <2>1, <3>1, Zenon
  <2>4. rpc' = rpc \/ rpc' \in Statuses
    BY <1>6 DEF Cancel, GateReturns, Disconnect, ConnectionLost, Statuses
  <2> QED
    BY <2>1, <2>2, <2>3, <2>4 DEF RpcTypeOK
<1>7. CASE UNCHANGED rpcVars
  BY <1>7 DEF rpcVars, RpcTypeOK
<1> QED
  BY <1>1, <1>2, <1>3, <1>4, <1>5, <1>6, <1>7
     DEF Next, FetchGateEndpoints, FetchFails, DialOk, DialFails, NoEndpoint, OpenShellFails,
         ReadStdin, RecvEnds, SelectErr,
         SelectDone, SelectOut, RestoreTerminal, StopNotify, CloseErrCh, Deferred, vars

(* What the function itself keeps. *)
LEMMA MainType == TypeOK /\ [Next]_vars => MainTypeOK'
<1> SUFFICES ASSUME MainTypeOK, GoroutineTypeOK, [Next]_vars PROVE MainTypeOK'
  BY DEF TypeOK
<1>1. CASE FetchGateEndpoints \/ FetchFails \/ DialOk \/ DialFails \/ NoEndpoint \/ OpenShell \/ OpenShellFails
  BY <1>1 DEF FetchGateEndpoints, FetchFails, DialOk, DialFails, NoEndpoint, OpenShell,
         OpenShellFails, MainTypeOK, MainLabels, Errors
<1>2. CASE SelectErr \/ SelectDone
  BY <1>2 DEF SelectErr, SelectDone, Return, MainTypeOK, MainLabels, Errors
<1>3. CASE SelectWinch \/ SelectIn
  BY <1>3 DEF SelectWinch, SelectIn, Send, Return, MainTypeOK, MainLabels, Errors, mainVars
<1>4. CASE SelectOut
  <2>1. printed' = Append(printed, got) \/ printed' = printed
    BY <1>4 DEF SelectOut, Return
  <2>2. printed' \in Seq(Nat)
    <3>1. printed \in Seq(Nat) /\ got \in Nat
      BY DEF MainTypeOK, GoroutineTypeOK
    <3> QED
      BY <2>1, <3>1
  <2>3. main' \in MainLabels /\ result' \in Errors \cup {"none", "nil"} /\ raw' \in BOOLEAN
    BY <1>4, ExecAssumption DEF SelectOut, Return, MainTypeOK, MainLabels, Errors
  <2> QED
    BY <2>2, <2>3 DEF MainTypeOK
<1>5. CASE RestoreTerminal \/ StopNotify \/ CloseErrCh
  BY <1>5 DEF RestoreTerminal, StopNotify, CloseErrCh, Deferred, MainTypeOK, MainLabels
<1>6. CASE UNCHANGED mainVars
  BY <1>6 DEF mainVars, MainTypeOK
<1> QED
  BY <1>1, <1>2, <1>3, <1>4, <1>5, <1>6
     DEF Next, ReadStdin, Recv, RecvEnds, Exit, SendOnClosed, EndsNow, Signal, Cancel, GateReports,
         GateReturns, Disconnect, vars, clientVars

(* Its channels. *)
LEMMA ChanType == TypeOK /\ [Next]_vars => ChanTypeOK'
<1> SUFFICES ASSUME ChanTypeOK, [Next]_vars PROVE ChanTypeOK'
  BY DEF TypeOK
<1>1. CASE OpenShell \/ SelectWinch
  BY <1>1 DEF OpenShell, SelectWinch, ChanTypeOK
<1>2. CASE RestoreTerminal \/ StopNotify \/ CloseErrCh
  BY <1>2 DEF RestoreTerminal, StopNotify, CloseErrCh, ChanTypeOK
<1>3. CASE Exit \/ SendOnClosed \/ Signal
  BY <1>3 DEF Exit, SendOnClosed, Signal, EndsNow, Ends, ChanTypeOK
<1>4. CASE UNCHANGED chanVars
  BY <1>4 DEF chanVars, ChanTypeOK
<1> QED
  BY <1>1, <1>2, <1>3, <1>4
     DEF Next, FetchGateEndpoints, FetchFails, DialOk, DialFails, NoEndpoint, OpenShellFails,
         ReadStdin, Recv, RecvEnds, SelectErr,
         SelectDone, SelectIn, SelectOut, Cancel, GateReports, GateReturns, Disconnect, vars, clientVars

(* Its goroutines. *)
LEMMA GoroutineType == TypeOK /\ [Next]_vars => GoroutineTypeOK'
<1> SUFFICES ASSUME GoroutineTypeOK, RpcTypeOK, [Next]_vars PROVE GoroutineTypeOK'
  BY DEF TypeOK
<1>1. CASE \/ FetchGateEndpoints \/ FetchFails \/ DialOk \/ DialFails \/ NoEndpoint \/ OpenShell \/ OpenShellFails
           \/ SelectDone \/ SelectWinch \/ RestoreTerminal \/ StopNotify \/ CloseErrCh
  BY <1>1 DEF FetchGateEndpoints, FetchFails, DialOk, DialFails, NoEndpoint, OpenShell,
         OpenShellFails, SelectDone, SelectWinch,
              RestoreTerminal, StopNotify, CloseErrCh, Deferred, GoroutineTypeOK
<1>2. CASE ReadStdin
  <2>1. /\ inpc' \in {"send", "ended", "err"}
        /\ typed' = typed + 1 \/ (typed' = typed /\ inpc' # "send")
        /\ UNCHANGED <<ctxDone, rcpc, got, ended>>
    BY <1>2 DEF ReadStdin
  <2>2. typed' \in Nat /\ (inpc' = "send" => typed' > 0)
    BY <2>1 DEF GoroutineTypeOK
  <2> QED
    BY <2>1, <2>2 DEF GoroutineTypeOK
<1>3. CASE Recv
  <2>1. Head(down) \in StdOut
    <3>1. down \in Seq(StdOut) /\ down # <<>>
      BY <1>3 DEF Recv, RpcTypeOK
    <3> QED
      BY <3>1
  <2>2. Head(down).output \in Nat
    BY <2>1 DEF StdOut
  <2> QED
    BY <1>3, <2>2 DEF Recv, GoroutineTypeOK
<1>4. CASE RecvEnds
  BY <1>4 DEF RecvEnds, RecvError, Errors, GoroutineTypeOK
<1>5. CASE SelectErr \/ SelectIn \/ SelectOut
  <2>1. /\ UNCHANGED <<ctxDone, typed, ended>>
        /\ inpc' = inpc \/ inpc' \in {"ended", "read"}
        /\ rcpc' = rcpc \/ rcpc' \in {"ended", "recv"}
        /\ got' = got \/ got' = 0
    BY <1>5 DEF SelectErr, SelectIn, SelectOut
  <2> QED
    BY <2>1 DEF GoroutineTypeOK
<1>6. CASE Exit \/ SendOnClosed \/ Signal
  <2>1. /\ UNCHANGED <<ctxDone, typed>>
        /\ \/ UNCHANGED <<inpc, rcpc, got, ended>>
           \/ inpc' = "ended" /\ rcpc' = "ended" /\ got' = 0 /\ ended' \in {"exit", "panic"}
    BY <1>6 DEF Exit, SendOnClosed, Signal, EndsNow, Ends
  <2> QED
    BY <2>1 DEF GoroutineTypeOK
<1>7. CASE Cancel
  BY <1>7 DEF Cancel, GoroutineTypeOK
<1>8. CASE UNCHANGED clientVars
  BY <1>8 DEF clientVars, GoroutineTypeOK
<1> QED
  BY <1>1, <1>2, <1>3, <1>4, <1>5, <1>6, <1>7, <1>8
     DEF Next, GateReports, GateReturns, Disconnect, vars

(* What is left of the bounds. *)
LEMMA BoundsType == TypeOK /\ [Next]_vars => BoundsOK'
<1> SUFFICES ASSUME BoundsOK, [Next]_vars PROVE BoundsOK'
  BY DEF TypeOK
<1>1. CASE Signal
  BY <1>1, ExecAssumption DEF Signal, BoundsOK, gateVars
<1>2. CASE GateReports
  BY <1>2, ExecAssumption DEF GateReports, BoundsOK, clientVars
<1>3. CASE UNCHANGED <<signals, gateVars>>
  BY <1>3 DEF BoundsOK, gateVars
<1> QED
  BY <1>1, <1>2, <1>3
     DEF Next, FetchGateEndpoints, FetchFails, DialOk, DialFails, NoEndpoint, OpenShell,
         OpenShellFails, ReadStdin, Recv, RecvEnds,
         SelectErr, SelectDone, SelectWinch, SelectIn, SelectOut, RestoreTerminal, StopNotify,
         CloseErrCh, Deferred, Exit, SendOnClosed, EndsNow, Cancel, GateReturns, Disconnect, vars,
         clientVars

(* Every step keeps the types. *)
LEMMA NextType == TypeOK /\ [Next]_vars => TypeOK'
  BY RpcType, MainType, ChanType, GoroutineType, BoundsType DEF TypeOK

-----------------------------------------------------------------------------
(* How the function returns. *)

(* Where the process is once it has ended: a channel was closed, or main had returned. *)
LEMMA EndsFlow ==
  ASSUME FlowInv, Exit \/ SendOnClosed \/ Signal
  PROVE  FlowInv'
<1>1. /\ UNCHANGED <<rpc, main, result, raw, errCh, winch, notified>>
      /\ \/ UNCHANGED <<rcpc, ended>>
         \/ rcpc' = "ended" /\ main \in {"stopnotify", "returned"}
  <2>1. CASE Exit \/ SendOnClosed
    BY <2>1 DEF FlowInv, Exit, SendOnClosed, EndsNow, Ends, mainVars
  <2>2. CASE Signal
    BY <2>2 DEF FlowInv, Signal, Ends, mainVars
  <2> QED
    BY <2>1, <2>2
<1> QED
  BY <1>1 DEF FlowInv, Started

(* Every step keeps channels, terminal and process in line with main. *)
LEMMA NextFlow == TypeOK /\ FlowInv /\ [Next]_vars => FlowInv'
<1> SUFFICES ASSUME TypeOK, FlowInv, [Next]_vars PROVE FlowInv'
  OBVIOUS
<1> USE DEF FlowInv, Started, rpcVars, mainVars, chanVars, clientVars
<1>1. CASE FetchGateEndpoints \/ FetchFails \/ DialOk \/ DialFails \/ NoEndpoint \/ OpenShellFails
  BY <1>1 DEF FetchGateEndpoints, FetchFails, DialOk, DialFails, NoEndpoint, OpenShellFails
<1>2. CASE OpenShell
  BY <1>2 DEF OpenShell
<1>3. CASE ReadStdin \/ Recv \/ RecvEnds
  BY <1>3 DEF ReadStdin, Recv, RecvEnds
<1>4. CASE SelectErr \/ SelectDone
  BY <1>4 DEF SelectErr, SelectDone, Selecting, Alive, Return
<1>5. CASE SelectWinch \/ SelectIn
  BY <1>5 DEF SelectWinch, SelectIn, Selecting, Alive, Send, Return
<1>6. CASE SelectOut
  BY <1>6 DEF SelectOut, Selecting, Alive, Return
<1>7. CASE RestoreTerminal \/ StopNotify \/ CloseErrCh
  BY <1>7 DEF RestoreTerminal, StopNotify, CloseErrCh, Deferred, Alive
<1>8. CASE Exit \/ SendOnClosed \/ Signal
  BY <1>8, EndsFlow
<1>9. CASE Cancel
  BY <1>9 DEF Cancel
<1>10. CASE GateReports \/ GateReturns \/ Disconnect
  BY <1>10 DEF GateReports, GateReturns, Disconnect, ConnectionLost
<1>11. CASE UNCHANGED vars
  BY <1>11 DEF vars
<1> QED
  BY <1>1, <1>2, <1>3, <1>4, <1>5, <1>6, <1>7, <1>8, <1>9, <1>10, <1>11 DEF Next

-----------------------------------------------------------------------------
(* The output. *)

(* A step that leaves what is printed, pending and under way as it is. *)
LEMMA SameOutput ==
  ASSUME OutputInv, UNCHANGED <<printed, produced, down, got>>,
         rcpc' = "send" <=> rcpc = "send",
         main' \in Started => main \in Started,
         main' = "select" => main = "select" \/ rcpc # "send",
         rpc' # "unavailable" => rpc # "unavailable"
  PROVE  OutputInv'
<1>1. Held' = Held /\ Pending' = Pending
  BY DEF Held, Pending
<1>2. Intact => Intact'
  BY <1>1 DEF Intact
<1> QED
  BY <1>2 DEF OutputInv

(* Nothing is printed any more. *)
LEMMA NoMoreOutput ==
  ASSUME OutputInv, UNCHANGED <<printed, produced>>, main' \notin Started
  PROVE  OutputInv'
  BY DEF OutputInv, Started

(* The next message is taken from down: a report, or the next output, which is the first
   one pending. *)
LEMMA RecvOutput ==
  ASSUME TypeOK, OutputInv, FlowInv, Recv
  PROVE  OutputInv'
<1>1. /\ down \in Seq(StdOut) /\ down # <<>> /\ down' = Tail(down)
      /\ printed \in Seq(Nat) /\ produced \in Nat
      /\ rcpc = "recv"
      /\ UNCHANGED <<main, printed, produced, rpc>>
  BY ExecAssumption DEF Recv, TypeOK, RpcTypeOK, MainTypeOK, BoundsOK, mainVars, gateVars
<1>2. CASE main \notin Started
  BY <1>1, <1>2, NoMoreOutput
<1>3. CASE main \in Started
  <2>1. main = "select"
    BY <1>1, <1>3 DEF FlowInv, Started
  <2>2. Intact /\ Held = 0 /\ Pending = produced - Len(printed) /\ Len(printed) \in Nat
    BY <1>1, <1>3 DEF OutputInv, Held, Pending
  <2>3. /\ Len(down) \in Nat /\ Len(down) > 0
        /\ Len(down') = Len(down) - 1
        /\ \A i \in 1..Len(down') : down'[i] = down[i + 1]
        /\ Head(down) = down[1]
    BY <1>1
  <2>4. CASE down[1].raw
    <3>1. /\ rcpc' = "send" /\ got' = down[1].output
          /\ Held' = 1 /\ Pending' = Pending - 1
      BY <1>1, <2>2, <2>3, <2>4 DEF Recv, Held, Pending
    <3>2. Pending = Len(down)
      BY <2>2, <2>3, <2>4 DEF Intact
    <3>3. got' = Len(printed) + 1 /\ Len(printed) < produced
      BY <1>1, <2>2, <2>3, <2>4, <3>1, <3>2 DEF Intact
    <3>4. Intact'
      <4>1. Pending' \in 0..Len(down')
        BY <2>3, <3>1, <3>2
      <4>2. ASSUME NEW i \in 1..Len(down')
            PROVE  /\ down'[i].raw <=> i > Len(down') - Pending'
                   /\ down'[i].raw => down'[i].output = produced - Len(down') + i
        <5>1. i + 1 \in 1..Len(down) /\ down'[i] = down[i + 1]
          BY <2>3
        <5>2. /\ down[i + 1].raw <=> i + 1 > Len(down) - Pending
              /\ down[i + 1].raw => down[i + 1].output = produced - Len(down) + (i + 1)
          BY <2>2, <5>1 DEF Intact
        <5>3. /\ i + 1 > Len(down) - Pending /\ i > Len(down') - Pending'
              /\ produced - Len(down) + (i + 1) = produced - Len(down') + i
          BY <1>1, <2>3, <3>1, <3>2
        <5> QED
          BY <1>1, <5>1, <5>2, <5>3
      <4> QED
        BY <1>1, <4>1, <4>2 DEF Intact
    <3> QED
      BY <1>1, <3>3, <3>4 DEF OutputInv
  <2>5. CASE ~down[1].raw
    <3>1. rcpc' = rcpc /\ Held' = 0 /\ Pending' = Pending
      BY <1>1, <2>2, <2>3, <2>5 DEF Recv, Held, Pending
    <3>2. Pending \in 0..(Len(down) - 1)
      BY <1>1, <2>2, <2>3, <2>5 DEF Intact
    <3>3. Intact'
      <4>1. ASSUME NEW i \in 1..Len(down')
            PROVE  /\ down'[i].raw <=> i > Len(down') - Pending'
                   /\ down'[i].raw => down'[i].output = produced - Len(down') + i
        <5>1. i + 1 \in 1..Len(down) /\ down'[i] = down[i + 1]
          BY <2>3
        <5>2. /\ down[i + 1].raw <=> i + 1 > Len(down) - Pending
              /\ down[i + 1].raw => down[i + 1].output = produced - Len(down) + (i + 1)
          BY <2>2, <5>1 DEF Intact
        <5>3. /\ i + 1 > Len(down) - Pending <=> i > Len(down') - Pending'
              /\ produced - Len(down) + (i + 1) = produced - Len(down') + i
          BY <1>1, <2>3, <3>1, <3>2
        <5> QED
          BY <1>1, <5>1, <5>2, <5>3
      <4> QED
        BY <1>1, <2>3, <3>1, <3>2, <4>1 DEF Intact
    <3> QED
      BY <1>1, <3>1, <3>3 DEF OutputInv
  <2> QED
    BY <2>4, <2>5
<1> QED
  BY <1>2, <1>3

(* The chunk that is held is printed, after the ones before it. *)
LEMMA SelectOutOutput ==
  ASSUME TypeOK, OutputInv, SelectOut
  PROVE  /\ OutputInv'
         /\ printed' = printed \/ (Len(printed) < produced /\ printed' = Append(printed, Len(printed) + 1))
<1>1. /\ printed \in Seq(Nat) /\ produced \in Nat /\ Len(printed) \in Nat
      /\ rcpc = "send" /\ rcpc' = "recv" /\ main = "select"
      /\ UNCHANGED <<produced, down, rpc>>
  BY ExecAssumption DEF SelectOut, Selecting, TypeOK, MainTypeOK, BoundsOK, rpcVars, gateVars
<1>2. got = Len(printed) + 1 /\ Len(printed) < produced
  BY <1>1 DEF OutputInv
<1>3. CASE printed' = Append(printed, got) /\ main' = main
  <2>1. printed' = Append(printed, Len(printed) + 1) /\ Len(printed') = Len(printed) + 1
    BY <1>1, <1>2, <1>3
  <2>2. printed' = [i \in 1..Len(printed') |-> i]
    <3>1. printed = [i \in 1..Len(printed) |-> i]
      BY DEF OutputInv
    <3>2. \A i \in 1..Len(printed') : printed'[i] = i
      BY <1>1, <2>1, <3>1
    <3>3. printed' \in Seq(Nat)
      BY <1>1, <2>1
    <3> QED
      BY <3>2, <3>3
  <2>3. Pending' = Pending
    BY <1>1, <2>1 DEF Pending, Held
  <2>4. Intact => Intact'
    BY <1>1, <2>3 DEF Intact
  <2>5. OutputInv'
    BY <1>1, <1>2, <1>3, <2>1, <2>2, <2>4 DEF OutputInv
  <2> QED
    BY <1>2, <2>1, <2>5
<1>4. CASE Return("error")
  <2>1. printed' = printed /\ main' \notin Started
    BY <1>4 DEF Return, Started
  <2> QED
    BY <1>1, <2>1, NoMoreOutput
<1> QED
  BY <1>3, <1>4 DEF SelectOut

(* The gate appends to down: reports, until the first output. *)
LEMMA GateReportsOutput ==
  ASSUME TypeOK, OutputInv, GateReports
  PROVE  OutputInv'
<1>1. /\ down \in Seq(StdOut) /\ printed \in Seq(Nat) /\ produced \in Nat /\ Len(printed) \in Nat
      /\ Len(down) \in Nat
      /\ rpc = "open" /\ rpc' = rpc
      /\ UNCHANGED <<main, printed, rcpc, got>>
  BY ExecAssumption DEF GateReports, TypeOK, RpcTypeOK, MainTypeOK, BoundsOK, clientVars, mainVars
<1>2. Held' = Held /\ Held \in {0, 1}
  BY <1>1 DEF Held
<1>3. PICK m \in StdOut :
        /\ down' = Append(down, m)
        /\ \/ produced = 0 /\ produced' = produced /\ ~m.raw
           \/ produced' = produced + 1 /\ m.raw /\ m.output = produced + 1
  <2>1. [raw |-> FALSE, output |-> 0] \in StdOut /\ [raw |-> TRUE, output |-> produced + 1] \in StdOut
    BY <1>1 DEF StdOut
  <2> QED
    BY <2>1 DEF GateReports
<1>4. /\ Len(down') = Len(down) + 1
      /\ down'[Len(down) + 1] = m
      /\ \A i \in 1..Len(down) : down'[i] = down[i]
  BY <1>1, <1>3
<1>5. ASSUME Intact, Len(printed) <= produced PROVE Intact'
  <2>1. Pending' = produced' - Len(printed) - Held /\ Pending = produced - Len(printed) - Held
    BY <1>1, <1>2 DEF Pending
  <2>2. Pending \in 0..Len(down)
    BY <1>5 DEF Intact
  <2>3. Pending' \in 0..Len(down')
    BY <1>1, <1>2, <1>3, <1>4, <2>1, <2>2
  <2>4. ASSUME NEW i \in 1..Len(down')
        PROVE  /\ down'[i].raw <=> i > Len(down') - Pending'
               /\ down'[i].raw => down'[i].output = produced' - Len(down') + i
    <3>1. CASE i = Len(down) + 1
      <4>1. down'[i] = m
        BY <1>4, <3>1
      <4>2. CASE produced = 0 /\ produced' = produced /\ ~m.raw
        BY <1>1, <1>2, <1>4, <2>1, <2>2, <3>1, <4>1, <4>2
      <4>3. CASE produced' = produced + 1 /\ m.raw /\ m.output = produced + 1
        BY <1>1, <1>2, <1>4, <2>1, <2>2, <3>1, <4>1, <4>3
      <4> QED
        BY <1>3, <4>2, <4>3
    <3>2. CASE i \in 1..Len(down)
      <4>1. /\ down'[i] = down[i]
            /\ down[i].raw <=> i > Len(down) - Pending
            /\ down[i].raw => down[i].output = produced - Len(down) + i
        BY <1>4, <1>5, <3>2 DEF Intact
      <4>2. CASE produced = 0 /\ produced' = produced /\ ~m.raw
        <5>1. Pending = 0 /\ Pending' = 0
          BY <1>1, <1>2, <2>1, <2>2, <4>2
        <5> QED
          BY <1>1, <1>4, <3>2, <4>1, <5>1
      <4>3. CASE produced' = produced + 1 /\ m.raw /\ m.output = produced + 1
        BY <1>1, <1>2, <1>4, <2>1, <2>2, <3>2, <4>1, <4>3
      <4> QED
        BY <1>3, <4>2, <4>3
    <3> QED
      BY <1>1, <1>4, <3>1, <3>2
  <2> QED
    BY <2>3, <2>4 DEF Intact
<1>6. Len(printed) <= produced => Len(printed) <= produced'
  BY <1>1, <1>3
<1>7. Len(printed) < produced => Len(printed) < produced'
  BY <1>1, <1>3
<1> QED
  BY <1>1, <1>5, <1>6, <1>7 DEF OutputInv

(* Every step keeps the output in order. *)
LEMMA NextOutput == Inv /\ [Next]_vars => OutputInv'
<1> SUFFICES ASSUME TypeOK, FlowInv, OutputInv, [Next]_vars PROVE OutputInv'
  BY DEF Inv
<1> USE DEF rpcVars, mainVars, gateVars, clientVars
<1>1. CASE FetchGateEndpoints \/ DialOk \/ DialFails
  BY <1>1, SameOutput DEF FetchGateEndpoints, DialOk, DialFails, Started
<1>2. CASE FetchFails \/ NoEndpoint \/ OpenShellFails
  BY <1>2, NoMoreOutput DEF FetchFails, NoEndpoint, OpenShellFails, Started
<1>3. CASE OpenShell
  BY <1>3, SameOutput DEF OpenShell, Started, FlowInv
<1>4. CASE ReadStdin
  BY <1>4, SameOutput DEF ReadStdin
<1>5. CASE RecvEnds
  <2>1. rcpc = "recv" /\ rcpc' # "send"
    BY <1>5 DEF RecvEnds, RecvError
  <2> QED
    BY <1>5, <2>1, SameOutput DEF RecvEnds
<1>6. CASE Recv
  BY <1>6, RecvOutput
<1>7. CASE SelectErr \/ SelectDone
  BY <1>7, NoMoreOutput DEF SelectErr, SelectDone, Return, Started
<1>8. CASE SelectWinch \/ SelectIn
  <2>1. UNCHANGED <<printed, produced, down, got, rcpc, rpc>>
    BY <1>8 DEF SelectWinch, SelectIn, Send, Return
  <2>2. main' = main \/ main' \notin Started
    BY <1>8 DEF SelectWinch, SelectIn, Send, Return, Started
  <2>3. CASE main' = main
    BY <2>1, <2>3, SameOutput
  <2>4. CASE main' \notin Started
    BY <2>1, <2>4, NoMoreOutput
  <2> QED
    BY <2>2, <2>3, <2>4
<1>9. CASE SelectOut
  BY <1>9, SelectOutOutput
<1>10. CASE RestoreTerminal \/ StopNotify \/ CloseErrCh
  BY <1>10, NoMoreOutput DEF RestoreTerminal, StopNotify, CloseErrCh, Deferred, Started
<1>11. CASE Exit \/ SendOnClosed
  <2>1. main' \notin Started
    BY <1>11 DEF Exit, SendOnClosed, EndsNow, FlowInv, Started
  <2> QED
    BY <1>11, <2>1, NoMoreOutput DEF Exit, SendOnClosed, EndsNow
<1>12. CASE Signal
  <2>1. CASE winch = "closed"
    <3>1. main' \notin Started
      BY <1>12, <2>1 DEF Signal, FlowInv, Started
    <3> QED
      BY <1>12, <3>1, NoMoreOutput DEF Signal
  <2>2. CASE winch # "closed"
    BY <1>12, <2>2, SameOutput DEF Signal
  <2> QED
    BY <2>1, <2>2
<1>13. CASE Cancel
  BY <1>13, SameOutput DEF Cancel
<1>14. CASE GateReports
  BY <1>14, GateReportsOutput
<1>15. CASE GateReturns
  BY <1>15, SameOutput DEF GateReturns
<1>16. CASE Disconnect
  BY <1>16 DEF Disconnect, ConnectionLost, OutputInv
<1>17. CASE UNCHANGED vars
  BY <1>17, SameOutput DEF vars
<1> QED
  BY <1>1, <1>2, <1>3, <1>4, <1>5, <1>6, <1>7, <1>8, <1>9, <1>10, <1>11, <1>12, <1>13, <1>14,
     <1>15, <1>16, <1>17 DEF Next

-----------------------------------------------------------------------------
(* The status. *)

(* The RPC has ended: its status stays, and no output is added. *)
LEMMA StatusStays ==
  ASSUME [Next]_vars, FlowInv, rpc \in {"ok", "aborted"}
  PROVE  UNCHANGED <<rpc, produced>> /\ (down = <<>> => down' = <<>>)
<1>1. ~GateReports /\ ~GateReturns /\ ~Disconnect /\ ~OpenShell
  BY DEF GateReports, GateReturns, Disconnect, ConnectionLost, OpenShell, FlowInv
<1> QED
  BY <1>1
     DEF Next, FetchGateEndpoints, FetchFails, DialOk, DialFails, NoEndpoint, OpenShellFails,
         ReadStdin, Recv, RecvEnds, SelectErr,
         SelectDone, SelectWinch, SelectIn, SelectOut, RestoreTerminal, StopNotify, CloseErrCh,
         Deferred, Exit, SendOnClosed, EndsNow, Ends, Signal, Cancel, vars, clientVars, gateVars, rpcVars

(* Once there is a result it stays, and nothing is printed. *)
LEMMA ResultStays ==
  ASSUME [Next]_vars, FlowInv, result # "none"
  PROVE  UNCHANGED <<result, printed>> /\ (ctxDone => ctxDone')
<1>1. main \notin Started
  BY DEF FlowInv
<1> USE DEF mainVars, clientVars
<1>2. CASE \/ FetchGateEndpoints \/ FetchFails \/ DialOk \/ DialFails \/ NoEndpoint
           \/ OpenShell \/ OpenShellFails
  BY <1>1, <1>2 DEF Started, FetchGateEndpoints, FetchFails, DialOk, DialFails, NoEndpoint, OpenShell,
                    OpenShellFails
<1>3. CASE SelectErr \/ SelectDone \/ SelectWinch \/ SelectIn \/ SelectOut
  BY <1>1, <1>3 DEF Started, SelectErr, SelectDone, SelectWinch, SelectIn, SelectOut, Selecting
<1>4. CASE ReadStdin \/ Recv \/ RecvEnds \/ RestoreTerminal \/ StopNotify \/ CloseErrCh
  BY <1>4 DEF ReadStdin, Recv, RecvEnds, RestoreTerminal, StopNotify, CloseErrCh, Deferred
<1>5. CASE \/ Exit \/ SendOnClosed \/ Signal \/ Cancel \/ GateReports \/ GateReturns \/ Disconnect
           \/ UNCHANGED vars
  BY <1>5 DEF Exit, SendOnClosed, EndsNow, Signal, Cancel, GateReports, GateReturns, Disconnect, vars
<1> QED
  BY <1>2, <1>3, <1>4, <1>5 DEF Next

(* The status that goes through errCh is passed on when nothing is pending. *)
LEMMA NextStatus == Inv /\ [Next]_vars => StatusInv'
<1> SUFFICES ASSUME Inv, [Next]_vars PROVE StatusInv'
  OBVIOUS
<1>1. TypeOK /\ FlowInv /\ StatusInv /\ OutputInv
  BY DEF Inv
<1>2. /\ rcpc' = "eof" => rpc' = "ok" /\ down' = <<>>
      /\ rcpc' = "code" => rpc' = "aborted" /\ down' = <<>>
  <2>1. CASE RecvEnds
    BY <2>1 DEF RecvEnds, RecvError, Statuses, rpcVars
  <2>2. CASE ~RecvEnds
    <3>1. rcpc' \in {"eof", "code"} => rcpc' = rcpc
      BY <2>2
         DEF Next, FetchGateEndpoints, FetchFails, DialOk, DialFails, NoEndpoint, OpenShell,
         OpenShellFails, ReadStdin, Recv, SelectErr,
             SelectDone, SelectWinch, SelectIn, SelectOut, RestoreTerminal, StopNotify, CloseErrCh,
             Deferred, Exit, SendOnClosed, EndsNow, Ends, Signal, Cancel, GateReports, GateReturns,
             Disconnect, vars, clientVars
    <3> QED
      BY <1>1, <3>1, StatusStays DEF StatusInv
  <2> QED
    BY <2>1, <2>2
<1>3. CASE result # "none"
  <2>1. UNCHANGED <<result, printed>> /\ (ctxDone => ctxDone')
    BY <1>1, <1>3, ResultStays
  <2>2. rpc \in {"ok", "aborted"} => UNCHANGED <<rpc, produced>>
    BY <1>1, StatusStays
  <2>3. ReturnsRemoteStatus'
    BY <1>1, <2>1, <2>2 DEF StatusInv, ReturnsRemoteStatus
  <2> QED
    BY <1>2, <2>3 DEF StatusInv
<1>4. CASE result = "none"
  <2>1. CASE SelectErr /\ result' \in {"nil", "code"}
    <3>1. /\ main = "select" /\ UNCHANGED <<rpc, printed, produced, ctxDone>>
          /\ \/ rcpc = "eof" /\ result' = "nil"
             \/ rcpc = "code" /\ result' = "code"
      BY <2>1 DEF SelectErr, Selecting, Return, Errors, rpcVars, gateVars
    <3>2. /\ down = <<>>
          /\ rcpc = "eof" => rpc = "ok"
          /\ rcpc = "code" => rpc = "aborted"
      BY <1>1, <3>1 DEF StatusInv
    <3>3. Intact /\ Held = 0
      BY <1>1, <3>1, <3>2 DEF OutputInv, Started, Held
    <3>4. Len(printed) = produced
      <4>1. Pending \in 0..0 /\ Len(printed) \in Nat /\ produced \in Nat
        BY <1>1, <3>2, <3>3, ExecAssumption DEF Intact, TypeOK, MainTypeOK, BoundsOK
      <4> QED
        BY <3>3, <4>1 DEF Pending
    <3>5. ReturnsRemoteStatus'
      BY <3>1, <3>2, <3>4 DEF ReturnsRemoteStatus
    <3> QED
      BY <1>2, <3>5 DEF StatusInv
  <2>2. CASE ~(SelectErr /\ result' \in {"nil", "code"})
    <3>1. result' = "nil" \/ result' = "code" => SelectDone
      BY <1>4, <2>2
         DEF Next, FetchGateEndpoints, FetchFails, DialOk, DialFails, NoEndpoint, OpenShell,
         OpenShellFails, ReadStdin, Recv, RecvEnds,
             SelectErr, SelectWinch, SelectIn, SelectOut, Send, Return, RestoreTerminal, StopNotify,
             CloseErrCh, Deferred, Exit, SendOnClosed, EndsNow, Signal, Cancel, GateReports,
             GateReturns, Disconnect, vars, clientVars, mainVars
    <3>2. SelectDone => result' = "nil" /\ ctxDone'
      BY DEF SelectDone, Return
    <3>3. ReturnsRemoteStatus'
      BY <3>1, <3>2 DEF ReturnsRemoteStatus
    <3> QED
      BY <1>2, <3>3 DEF StatusInv
  <2> QED
    BY <2>1, <2>2
<1> QED
  BY <1>3, <1>4

-----------------------------------------------------------------------------
(* Inv is an invariant. *)

(* The invariant holds before the dial. *)
LEMMA InitInv == Init => Inv
<1> SUFFICES ASSUME Init PROVE Inv
  OBVIOUS
<1>1. TypeOK
  <2>1. printed \in Seq(Nat) /\ up \in Seq(StdIn) /\ down \in Seq(StdOut)
    BY DEF Init, RpcInit
  <2>2. RpcTypeOK
    BY <2>1 DEF Init, RpcInit, RpcTypeOK
  <2>3. MainTypeOK /\ ChanTypeOK
    BY <2>1 DEF Init, MainTypeOK, ChanTypeOK, MainLabels
  <2>4. GoroutineTypeOK
    BY DEF Init, GoroutineTypeOK
  <2>5. BoundsOK
    BY ExecAssumption DEF Init, BoundsOK
  <2> QED
    BY <2>2, <2>3, <2>4, <2>5 DEF TypeOK
<1>2. FlowInv
  BY DEF Init, RpcInit, FlowInv, Started
<1>3. StatusInv
  BY DEF Init, StatusInv, ReturnsRemoteStatus
<1>4. OutputInv
  <2>1. printed = <<>> /\ produced = 0 /\ down = <<>> /\ rcpc = "none"
    BY DEF Init, RpcInit
  <2>2. Len(printed) = 0 /\ Len(down) = 0 /\ Pending = 0
    <3>1. Len(printed) = 0 /\ Len(down) = 0
      BY <2>1
    <3>2. Held = 0
      BY <2>1 DEF Held
    <3>3. produced = 0
      BY <2>1
    <3>4. Pending = 0
      BY <3>1, <3>2, <3>3 DEF Pending
    <3> QED
      BY <3>1, <3>4
  <2>3. printed = [i \in 1..Len(printed) |-> i]
    BY <2>1, <2>2
  <2>4. Intact
    BY <2>2 DEF Intact
  <2> QED
    BY <2>1, <2>2, <2>3, <2>4 DEF OutputInv
<1> QED
  BY <1>1, <1>2, <1>3, <1>4 DEF Inv

(* Every step keeps it. *)
LEMMA NextInv == Inv /\ [Next]_vars => Inv'
<1> SUFFICES ASSUME Inv, [Next]_vars PROVE Inv'
  OBVIOUS
<1> QED
  BY NextType, NextFlow, NextStatus, NextOutput DEF Inv

(* The variables have their types. *)
THEOREM ExecTypeCorrect == Spec => []TypeOK
<1>1. Inv => TypeOK
  BY DEF Inv
<1> QED
  BY <1>1, InitInv, NextInv, PTL DEF Spec

(* ExecCliApp returns the status of the gate, and only once all output is printed, though
   output and status reach the select loop through channels of their own. *)
THEOREM RemoteStatusReturned == Spec => []ReturnsRemoteStatus
<1>1. Inv => ReturnsRemoteStatus
  BY DEF Inv, StatusInv
<1> QED
  BY <1>1, InitInv, NextInv, PTL DEF Spec

(* No return and no panic leaves the terminal raw. *)
THEOREM TerminalIsRestored == Spec => []TerminalRestored
<1>1. Inv => TerminalRestored
  BY DEF Inv, FlowInv, TerminalRestored
<1> QED
  BY <1>1, InitInv, NextInv, PTL DEF Spec

(* A closed channel is sent on only while ExecCliApp returns, never in the select loop. *)
THEOREM PanicsOnReturn == Spec => []PanicsOnlyOnReturn
<1>1. Inv => PanicsOnlyOnReturn
  BY DEF Inv, FlowInv, PanicsOnlyOnReturn
<1> QED
  BY <1>1, InitInv, NextInv, PTL DEF Spec

-----------------------------------------------------------------------------
(* Standard output is a pipe. *)

(* Only SelectOut prints. *)
LEMMA OthersPrintNothing == ASSUME [Next]_vars, ~SelectOut PROVE UNCHANGED printed
  BY DEF Next, FetchGateEndpoints, FetchFails, DialOk, DialFails, NoEndpoint, OpenShell,
         OpenShellFails, ReadStdin, Recv, RecvEnds,
         SelectErr, SelectDone, SelectWinch, SelectIn, Send, Return, RestoreTerminal, StopNotify,
         CloseErrCh, Deferred, Exit, SendOnClosed, EndsNow, Signal, Cancel, GateReports,
         GateReturns, Disconnect, vars, clientVars, mainVars

(* And only the gate produces. *)
LEMMA OthersProduceNothing == ASSUME [Next]_vars, ~GateReports PROVE UNCHANGED produced
  BY DEF Next, FetchGateEndpoints, FetchFails, DialOk, DialFails, NoEndpoint, OpenShell,
         OpenShellFails, ReadStdin, Recv, RecvEnds,
         SelectErr, SelectDone, SelectWinch, SelectIn, SelectOut, RestoreTerminal, StopNotify,
         CloseErrCh, Deferred, Exit, SendOnClosed, EndsNow, Signal, Cancel,
         GateReturns, Disconnect, vars, gateVars

(* A step puts the next chunk into the pipe, or takes the next one out, or neither. *)
LEMMA StepPipes ==
  Inv /\ [Next]_vars => [StdoutPipe!Next]_(<<[i \in 1..produced |-> i], printed>>)
<1> SUFFICES ASSUME Inv, [Next]_vars
             PROVE  StdoutPipe!Next \/ UNCHANGED <<[i \in 1..produced |-> i], printed>>
  OBVIOUS
<1> DEFINE sent == [i \in 1..produced |-> i]
<1>1. TypeOK /\ OutputInv /\ produced \in Nat /\ printed \in Seq(Nat) /\ Len(printed) \in Nat
  BY ExecAssumption DEF Inv, TypeOK, MainTypeOK, BoundsOK
<1>2. CASE SelectOut
  <2>1. UNCHANGED produced
    BY <1>2 DEF SelectOut, gateVars
  <2>2. CASE printed' = printed
    BY <2>1, <2>2
  <2>3. CASE Len(printed) < produced /\ printed' = Append(printed, Len(printed) + 1)
    <3>1. Len(sent) = produced /\ sent[Len(printed) + 1] = Len(printed) + 1
      BY <1>1, <2>3
    <3>2. StdoutPipe!Take
      BY <2>1, <2>3, <3>1 DEF StdoutPipe!Take
    <3> QED
      BY <3>2 DEF StdoutPipe!Next
  <2> QED
    BY <1>1, <1>2, <2>2, <2>3, SelectOutOutput
<1>3. CASE GateReports
  <2>1. UNCHANGED printed
    BY <1>3 DEF GateReports, clientVars, mainVars
  <2>2. CASE produced' = produced
    BY <2>1, <2>2
  <2>3. CASE produced' = produced + 1 /\ produced < MaxOutputs
    <3>0. PICK x : x = produced + 1
      OBVIOUS
    <3>1. sent' = Append(sent, x)
      BY <1>1, <2>3, <3>0
    <3>2. Len(sent') > Len(sent) /\ \A i \in 1..Len(sent) : sent'[i] = sent[i]
      <4>1. sent \in Seq(Nat)
        BY <1>1
      <4> HIDE DEF sent
      <4> QED
        BY <3>1, <4>1
    <3>3. StdoutPipe!Put
      BY <2>1, <3>2 DEF StdoutPipe!Put
    <3> QED
      BY <3>3 DEF StdoutPipe!Next
  <2> QED
    BY <1>3, <2>2, <2>3 DEF GateReports
<1>4. CASE ~SelectOut /\ ~GateReports
  BY <1>4, OthersPrintNothing, OthersProduceNothing
<1> QED
  BY <1>2, <1>3, <1>4

(* What the gate sends as raw output is printed in order, nothing twice and nothing
   skipped, for any number of chunks and whoever ends the session. *)
THEOREM StdoutImplementsPipe == Spec => StdoutIsPipe
<1>1. Init => StdoutPipe!Init
  BY DEF Init, StdoutPipe!Init
<1> QED
  BY <1>1, InitInv, NextInv, StepPipes, PTL DEF Spec, StdoutIsPipe, StdoutPipe!Spec, StdoutPipe!vars

-----------------------------------------------------------------------------
(* Standard input is a pipe.  What the messages hold is the value of a recursive
   function; that there is one function, and one only, that meets its equation is an
   invariant: it holds of no messages, and a message that is added extends it. *)

Concatenates(f, q) ==
  f = [n \in 0..Len(q) |-> IF n = 0 THEN <<>> ELSE f[n - 1] \o q[n].input]

Defined(q) ==
  \E f : /\ Concatenates(f, q)
         /\ \A g : Concatenates(g, q) => g = f
         /\ \A n \in 0..Len(q) : f[n] \in Seq(Nat \ {0})

(* Where it is defined, Inputs is the last value of that function. *)
LEMMA InputsAre ==
  ASSUME NEW q, NEW f, Concatenates(f, q), \A g : Concatenates(g, q) => g = f
  PROVE  Inputs(q) = f[Len(q)]
<1> DEFINE h == CHOOSE g : g = [n \in 0..Len(q) |-> IF n = 0 THEN <<>> ELSE g[n - 1] \o q[n].input]
<1>1. Concatenates(h, q)
  BY Zenon DEF Concatenates
<1>2. h = f
  BY <1>1
<1>3. Inputs(q) = h[Len(q)]
  BY Zenon DEF Inputs
<1> QED
  BY <1>2, <1>3

(* No messages, no input. *)
LEMMA InputsOfNone == Defined(<<>>) /\ Inputs(<<>>) = <<>>
<1> PICK f : f = [n \in 0..0 |-> <<>>]
  OBVIOUS
<1>1. \A g : Concatenates(g, <<>>) => g = f
  BY DEF Concatenates
<1>2. Concatenates(f, <<>>)
  BY DEF Concatenates
<1>3. \A n \in 0..Len(<<>>) : f[n] \in Seq(Nat \ {0})
  OBVIOUS
<1>4. Inputs(<<>>) = f[0]
  BY <1>1, <1>2, InputsAre
<1> QED
  BY <1>1, <1>2, <1>3, <1>4 DEF Defined

(* The input of a message that is added comes last. *)
LEMMA InputsOfMore ==
  ASSUME NEW q \in Seq(StdIn), Defined(q), NEW m \in StdIn
  PROVE  Defined(Append(q, m)) /\ Inputs(Append(q, m)) = Inputs(q) \o m.input
<1>1. PICK f : /\ Concatenates(f, q)
               /\ \A g : Concatenates(g, q) => g = f
               /\ \A n \in 0..Len(q) : f[n] \in Seq(Nat \ {0})
  BY DEF Defined
<1>2. PICK k \in Nat : k = Len(q)
  OBVIOUS
<1>3. PICK r : r = Append(q, m)
  OBVIOUS
<1>4. /\ Len(r) = k + 1 /\ r[k + 1] = m /\ \A n \in 1..k : r[n] = q[n]
  BY <1>2, <1>3
<1>5. PICK last \in Seq(Nat \ {0}) : last = f[k] \o m.input
  <2>1. f[k] \in Seq(Nat \ {0}) /\ m.input \in Seq(Nat \ {0})
    BY <1>1, <1>2 DEF StdIn
  <2>2. ASSUME NEW a \in Seq(Nat \ {0}), NEW b \in Seq(Nat \ {0}) PROVE a \o b \in Seq(Nat \ {0})
    OBVIOUS
  <2> QED
    BY <2>1, <2>2
<1>6. PICK h : h = [n \in 0..(k + 1) |-> IF n = k + 1 THEN last ELSE f[n]]
  OBVIOUS
<1>7. f = [n \in 0..k |-> IF n = 0 THEN <<>> ELSE f[n - 1] \o q[n].input]
  BY <1>1, <1>2 DEF Concatenates
<1>8. h[k + 1] = last /\ \A n \in 0..k : h[n] = f[n]
  BY <1>6
<1>9. Concatenates(h, r)
  <2>1. ASSUME NEW n \in 0..(k + 1)
        PROVE  h[n] = IF n = 0 THEN <<>> ELSE h[n - 1] \o r[n].input
    <3>1. CASE n = k + 1
      <4>1. n - 1 = k /\ n # 0 /\ k \in 0..k
        BY <3>1
      <4>2. h[n] = f[k] \o m.input /\ h[k] = f[k] /\ r[n] = m
        BY <1>4, <1>5, <1>8, <3>1, <4>1
      <4> QED
        BY <4>1, <4>2
    <3>2. CASE n = 0
      BY <1>7, <1>8, <3>2
    <3>3. CASE n \in 1..k
      <4>1. n \in 0..k /\ n - 1 \in 0..k /\ n # 0
        BY <3>3
      <4>2. h[n] = f[n] /\ h[n - 1] = f[n - 1] /\ r[n] = q[n]
        BY <1>4, <1>8, <3>3, <4>1
      <4>3. f[n] = f[n - 1] \o q[n].input
        BY <1>7, <4>1
      <4> QED
        BY <4>1, <4>2, <4>3
    <3> QED
      BY <3>1, <3>2, <3>3
  <2>2. h = [n \in 0..(k + 1) |-> h[n]]
    BY <1>6
  <2>3. h = [n \in 0..(k + 1) |-> IF n = 0 THEN <<>> ELSE h[n - 1] \o r[n].input]
    BY <2>1, <2>2, Zenon
  <2> QED
    BY <1>4, <2>3 DEF Concatenates
<1>10. ASSUME NEW g, Concatenates(g, r)
       PROVE  g = h
  <2>1. g = [n \in 0..(k + 1) |-> IF n = 0 THEN <<>> ELSE g[n - 1] \o r[n].input]
    BY <1>4, <1>10 DEF Concatenates
  <2>2. PICK e : e = [n \in 0..k |-> g[n]]
    OBVIOUS
  <2>3. ASSUME NEW n \in 0..k
        PROVE  e[n] = IF n = 0 THEN <<>> ELSE e[n - 1] \o q[n].input
    <3>1. n \in 0..(k + 1) /\ e[n] = g[n]
      BY <2>2
    <3>2. g[n] = IF n = 0 THEN <<>> ELSE g[n - 1] \o r[n].input
      BY <2>1, <3>1
    <3>3. CASE n = 0
      BY <3>1, <3>2, <3>3
    <3>4. CASE n # 0
      <4>1. e[n - 1] = g[n - 1] /\ r[n] = q[n]
        BY <1>4, <2>2, <3>4
      <4> QED
        BY <3>1, <3>2, <3>4, <4>1
    <3> QED
      BY <3>3, <3>4
  <2>4. e = [n \in 0..k |-> e[n]]
    BY <2>2
  <2>5. e = [n \in 0..k |-> IF n = 0 THEN <<>> ELSE e[n - 1] \o q[n].input]
    BY <2>3, <2>4, Zenon
  <2>6. e = f
    BY <1>1, <1>2, <2>5 DEF Concatenates
  <2>7. g[k + 1] = last
    <3>1. k + 1 \in 0..(k + 1) /\ k + 1 # 0 /\ k + 1 - 1 = k /\ k \in 0..k
      OBVIOUS
    <3>2. PICK n : n = k + 1
      OBVIOUS
    <3>3. g[n] = IF n = 0 THEN <<>> ELSE g[n - 1] \o r[n].input
      BY <2>1, <3>1, <3>2
    <3>4. n # 0 /\ n - 1 = k /\ r[n] = m
      BY <1>4, <3>1, <3>2
    <3>5. g[n] = g[k] \o m.input
      BY <3>3, <3>4
    <3> QED
      BY <1>5, <2>2, <2>6, <3>1, <3>2, <3>5
  <2>8. \A n \in 0..(k + 1) : g[n] = h[n]
    BY <1>8, <2>2, <2>6, <2>7
  <2>9. g = [n \in 0..(k + 1) |-> g[n]] /\ h = [n \in 0..(k + 1) |-> h[n]]
    BY <1>6, <2>1
  <2> QED
    BY <2>8, <2>9, Zenon
<1>11. \A n \in 0..Len(r) : h[n] \in Seq(Nat \ {0})
  <2>1. \A n \in 0..(k + 1) : n = k + 1 \/ n \in 0..k
    OBVIOUS
  <2>2. \A n \in 0..k : h[n] \in Seq(Nat \ {0})
    BY <1>1, <1>2, <1>8
  <2> QED
    BY <1>4, <1>5, <1>8, <2>1, <2>2
<1>12. Inputs(r) = last
  BY <1>4, <1>8, <1>9, <1>10, InputsAre
<1>13. Inputs(q) = f[k]
  BY <1>1, <1>2, InputsAre
<1>14. Defined(r)
  BY <1>9, <1>10, <1>11 DEF Defined
<1> QED
  BY <1>3, <1>5, <1>12, <1>13, <1>14

(* Input is sent from 1 on, and none is lost while it can still be sent. *)
InputInv ==
  /\ Defined(up)
  /\ main \in {"fetch", "dial", "open"} => up = <<>> /\ typed = 0 /\ inpc = "none"
  /\ \E k \in 0..typed :
       /\ Inputs(up) = [i \in 1..k |-> i]
       /\ rpc = "open" /\ main = "select" => k = typed - (IF inpc = "send" THEN 1 ELSE 0)

(* Nothing is typed or sent. *)
LEMMA SameInput ==
  ASSUME InputInv, UNCHANGED <<up, typed>>,
         main' \in {"fetch", "dial", "open"} => main \in {"fetch", "dial", "open"} /\ inpc' = inpc,
         rpc' = "open" /\ main' = "select" =>
           rpc = "open" /\ main = "select" /\ (inpc' = "send" <=> inpc = "send")
  PROVE  InputInv'
<1>1. Defined(up')
  BY DEF InputInv
<1>2. main' \in {"fetch", "dial", "open"} => up' = <<>> /\ typed' = 0 /\ inpc' = "none"
  BY DEF InputInv
<1>3. PICK k \in 0..typed :
        /\ Inputs(up) = [i \in 1..k |-> i]
        /\ rpc = "open" /\ main = "select" => k = typed - (IF inpc = "send" THEN 1 ELSE 0)
  BY DEF InputInv
<1>4. /\ k \in 0..typed' /\ Inputs(up') = [i \in 1..k |-> i]
      /\ rpc' = "open" /\ main' = "select" => k = typed' - (IF inpc' = "send" THEN 1 ELSE 0)
  BY <1>3
<1> QED
  BY <1>1, <1>2, <1>4 DEF InputInv

(* The first message holds no input. *)
LEMMA OpenShellInput == InputInv /\ OpenShell => InputInv' /\ Inputs(up') = Inputs(up) /\ typed' = typed
<1> SUFFICES ASSUME InputInv, OpenShell
             PROVE  InputInv' /\ Inputs(up') = Inputs(up) /\ typed' = typed
  OBVIOUS
<1>0. PICK z \in {FALSE, StdOutIsTerminal} : up' = <<First(z)>>
  BY DEF OpenShell
<1>1. PICK m : m = First(z)
  OBVIOUS
<1>2. m \in StdIn /\ m.input = <<>>
  <2>1. z \in BOOLEAN
    BY ExecAssumption, Zenon
  <2> QED
    BY <1>1, <2>1 DEF First, StdIn
<1>3. /\ up = <<>> /\ typed = 0 /\ typed' = typed
      /\ up' = <<m>> /\ main' = "select" /\ inpc' = "read"
  BY <1>0, <1>1 DEF InputInv, OpenShell
<1>4. Append(<<>>, m) = <<m>> /\ <<>> \in Seq(StdIn) /\ <<>> \o <<>> = <<>>
  OBVIOUS
<1>5. Defined(up') /\ Inputs(up') = <<>>
  BY <1>2, <1>3, <1>4, InputsOfNone, InputsOfMore
<1>6. 0 \in 0..typed' /\ Inputs(up') = [i \in 1..0 |-> i] /\ 0 = typed' - 0
  BY <1>3, <1>5
<1> QED
  BY <1>3, <1>5, <1>6, InputsOfNone DEF InputInv

(* A chunk is read and waits to be sent. *)
LEMMA ReadStdinInput == TypeOK /\ InputInv /\ ReadStdin => InputInv'
<1> SUFFICES ASSUME TypeOK, InputInv, ReadStdin PROVE InputInv'
  OBVIOUS
<1>1. /\ inpc = "read" /\ UNCHANGED <<up, main, rpc>> /\ typed \in Nat
      /\ \/ typed' = typed + 1 /\ inpc' = "send"
         \/ typed' = typed /\ inpc' \in {"ended", "err"}
  BY DEF ReadStdin, TypeOK, GoroutineTypeOK, rpcVars, mainVars
<1>2. main \notin {"fetch", "dial", "open"}
  BY <1>1 DEF InputInv
<1>3. PICK k \in 0..typed :
        /\ Inputs(up) = [i \in 1..k |-> i]
        /\ rpc = "open" /\ main = "select" => k = typed - (IF inpc = "send" THEN 1 ELSE 0)
  BY DEF InputInv
<1>4. /\ k \in 0..typed' /\ Inputs(up') = [i \in 1..k |-> i]
      /\ rpc' = "open" /\ main' = "select" => k = typed' - (IF inpc' = "send" THEN 1 ELSE 0)
  BY <1>1, <1>3
<1> QED
  BY <1>1, <1>2, <1>4 DEF InputInv

(* A size holds no input. *)
LEMMA SelectWinchInput ==
  TypeOK /\ InputInv /\ SelectWinch => InputInv' /\ Inputs(up') = Inputs(up) /\ typed' = typed
<1> SUFFICES ASSUME TypeOK, InputInv, SelectWinch
             PROVE  InputInv' /\ Inputs(up') = Inputs(up) /\ typed' = typed
  OBVIOUS
<1>1. /\ main = "select" /\ UNCHANGED <<rpc, inpc, typed>> /\ up \in Seq(StdIn)
      /\ up' = up \/ \E z \in BOOLEAN : up' = Append(up, Resized(z))
      /\ main' \in {"select", "restore"}
  BY DEF SelectWinch, Selecting, Send, Return, TypeOK, RpcTypeOK, mainVars
<1>2. CASE up' = up
  BY <1>1, <1>2, SameInput
<1>3. CASE \E z \in BOOLEAN : up' = Append(up, Resized(z))
  <2>0. PICK m : up' = Append(up, m) /\ m \in StdIn /\ m.input = <<>>
    <3>1. \A z \in BOOLEAN : Resized(z) \in StdIn /\ Resized(z).input = <<>>
      BY DEF Resized, StdIn
    <3> QED
      BY <1>3, <3>1
  <2>2. PICK k \in 0..typed :
          /\ Inputs(up) = [i \in 1..k |-> i]
          /\ rpc = "open" /\ main = "select" => k = typed - (IF inpc = "send" THEN 1 ELSE 0)
    BY DEF InputInv
  <2>3. [i \in 1..k |-> i] \o <<>> = [i \in 1..k |-> i]
    OBVIOUS
  <2>4. Defined(up') /\ Inputs(up') = Inputs(up) \o <<>>
    BY <1>1, <2>0, InputsOfMore DEF InputInv
  <2>5. Inputs(up') = Inputs(up)
    BY <2>2, <2>3, <2>4
  <2>6. /\ k \in 0..typed' /\ Inputs(up') = [i \in 1..k |-> i]
        /\ rpc' = "open" /\ main' = "select" => k = typed' - (IF inpc' = "send" THEN 1 ELSE 0)
    BY <1>1, <2>2, <2>5
  <2>7. main' \notin {"fetch", "dial", "open"}
    BY <1>1
  <2>8. InputInv'
    BY <2>4, <2>6, <2>7 DEF InputInv
  <2> QED
    BY <1>1, <2>5, <2>8
<1> QED
  BY <1>1, <1>2, <1>3

(* The chunk that waits is sent after all the earlier ones, or none is sent any more. *)
LEMMA SelectInInput ==
  ASSUME TypeOK, InputInv, SelectIn
  PROVE  /\ InputInv' /\ typed' = typed
         /\ \/ Inputs(up') = Inputs(up)
            \/ \E k \in Nat : /\ k + 1 = typed
                              /\ Inputs(up) = [i \in 1..k |-> i]
                              /\ Inputs(up') = Append(Inputs(up), k + 1)
<1>1. /\ main = "select" /\ inpc = "send" /\ inpc' = "read" /\ UNCHANGED <<rpc, typed>>
      /\ up \in Seq(StdIn) /\ typed \in Nat
      /\ \/ rpc = "open" /\ up' = Append(up, Typed(<<typed>>)) /\ main' = "select"
         \/ up' = up /\ (rpc # "open" \/ main' = "restore")
      /\ main' \in {"select", "restore"}
  BY DEF SelectIn, Selecting, Send, Return, TypeOK, RpcTypeOK, GoroutineTypeOK, mainVars
<1>2. CASE up' = up /\ (rpc # "open" \/ main' = "restore")
  <2>1. InputInv'
    BY <1>1, <1>2, SameInput
  <2> QED
    BY <1>1, <1>2, <2>1
<1>3. CASE rpc = "open" /\ up' = Append(up, Typed(<<typed>>)) /\ main' = "select"
  <2>1. Typed(<<typed>>) \in StdIn /\ Typed(<<typed>>).input = <<typed>>
    <3>1. <<typed>> \in Seq(Nat \ {0})
      BY <1>1 DEF TypeOK, GoroutineTypeOK
    <3> QED
      BY <3>1 DEF Typed, StdIn
  <2>2. PICK k \in 0..typed :
          /\ Inputs(up) = [i \in 1..k |-> i]
          /\ rpc = "open" /\ main = "select" => k = typed - (IF inpc = "send" THEN 1 ELSE 0)
    BY DEF InputInv
  <2>3. k \in Nat /\ k + 1 = typed
    BY <1>1, <1>3, <2>2
  <2>4. /\ [i \in 1..k |-> i] \o <<k + 1>> = [i \in 1..(k + 1) |-> i]
        /\ [i \in 1..k |-> i] \o <<k + 1>> = Append([i \in 1..k |-> i], k + 1)
    BY <2>3
  <2>5. Defined(up') /\ Inputs(up') = Inputs(up) \o <<typed>>
    BY <1>1, <1>3, <2>1, InputsOfMore DEF InputInv
  <2>6. Inputs(up') = [i \in 1..typed |-> i] /\ Inputs(up') = Append(Inputs(up), k + 1)
    BY <2>2, <2>3, <2>4, <2>5
  <2>7. typed \in 0..typed' /\ typed = typed' - 0
    BY <1>1
  <2>8. InputInv'
    BY <1>1, <1>3, <2>5, <2>6, <2>7 DEF InputInv
  <2> QED
    BY <1>1, <2>2, <2>3, <2>6, <2>8
<1> QED
  BY <1>1, <1>2, <1>3

(* Nobody else reads or sends input. *)
LEMMA OthersInput ==
  ASSUME Inv, InputInv, [Next]_vars, ~OpenShell, ~ReadStdin, ~SelectWinch, ~SelectIn
  PROVE  InputInv' /\ UNCHANGED <<up, typed>>
<1> SUFFICES /\ UNCHANGED <<up, typed>>
             /\ main' \in {"fetch", "dial", "open"} => main \in {"fetch", "dial", "open"} /\ inpc' = inpc
             /\ rpc' = "open" /\ main' = "select" =>
                  rpc = "open" /\ main = "select" /\ (inpc' = "send" <=> inpc = "send")
  BY SameInput
<1>1. CASE FetchGateEndpoints \/ FetchFails \/ DialOk \/ DialFails \/ NoEndpoint \/ OpenShellFails
  BY <1>1 DEF FetchGateEndpoints, FetchFails, DialOk, DialFails, NoEndpoint, OpenShellFails, rpcVars
<1>2. CASE Recv \/ RecvEnds \/ SelectErr \/ SelectDone \/ SelectOut
  BY <1>2 DEF Recv, RecvEnds, SelectErr, SelectDone, SelectOut, Selecting, Return, rpcVars, mainVars
<1>3. CASE RestoreTerminal \/ StopNotify \/ CloseErrCh
  BY <1>3 DEF RestoreTerminal, StopNotify, CloseErrCh, Deferred, rpcVars
<1>4. CASE Exit \/ SendOnClosed \/ Signal
  BY <1>4 DEF Exit, SendOnClosed, EndsNow, Signal, Ends, mainVars, Inv, FlowInv
<1>5. CASE Cancel \/ GateReports \/ GateReturns \/ Disconnect \/ UNCHANGED vars
  BY <1>5 DEF Cancel, GateReports, GateReturns, Disconnect, ConnectionLost, Statuses, vars, rpcVars,
              clientVars, mainVars
<1> QED
  BY <1>1, <1>2, <1>3, <1>4, <1>5 DEF Next

(* The invariant holds before the dial. *)
LEMMA InitInputInv == Init => InputInv
<1> SUFFICES ASSUME Init PROVE InputInv
  OBVIOUS
<1>1. up = <<>> /\ typed = 0 /\ inpc = "none" /\ main = "fetch"
  BY DEF Init, RpcInit
<1>2. 0 \in 0..typed /\ <<>> = [i \in 1..0 |-> i]
  BY <1>1
<1> QED
  BY <1>1, <1>2, InputsOfNone DEF InputInv

(* Every step keeps it. *)
LEMMA NextInputInv == Inv /\ InputInv /\ [Next]_vars => InputInv'
<1> SUFFICES ASSUME Inv, InputInv, [Next]_vars PROVE InputInv'
  OBVIOUS
<1>1. TypeOK
  BY DEF Inv
<1> QED
  BY <1>1, OpenShellInput, ReadStdinInput, SelectWinchInput, SelectInInput, OthersInput

(* A step types the next chunk, or sends the next one, or neither. *)
LEMMA StepPipesInput ==
  Inv /\ InputInv /\ [Next]_vars => [StdinPipe!Next]_(<<[i \in 1..typed |-> i], Inputs(up)>>)
<1> SUFFICES ASSUME Inv, InputInv, [Next]_vars
             PROVE  StdinPipe!Next \/ UNCHANGED <<[i \in 1..typed |-> i], Inputs(up)>>
  OBVIOUS
<1> DEFINE sent == [i \in 1..typed |-> i]
<1>1. TypeOK /\ typed \in Nat
  BY DEF Inv, TypeOK, GoroutineTypeOK
<1>2. ASSUME typed' = typed, Inputs(up') = Inputs(up)
      PROVE  UNCHANGED <<[i \in 1..typed |-> i], Inputs(up)>>
  BY <1>2
<1>3. CASE OpenShell \/ SelectWinch
  BY <1>1, <1>2, <1>3, OpenShellInput, SelectWinchInput
<1>4. CASE ReadStdin
  <2>1. up' = up
    BY <1>4 DEF ReadStdin, rpcVars
  <2>2. CASE typed' = typed
    BY <1>2, <2>1, <2>2
  <2>3. CASE typed' = typed + 1 /\ typed < MaxInputs
    <3>0. PICK x : x = typed + 1
      OBVIOUS
    <3>1. sent' = Append(sent, x)
      BY <1>1, <2>3, <3>0
    <3>2. Len(sent') > Len(sent) /\ \A i \in 1..Len(sent) : sent'[i] = sent[i]
      <4>1. sent \in Seq(Nat)
        BY <1>1
      <4> HIDE DEF sent
      <4> QED
        BY <3>1, <4>1
    <3>3. StdinPipe!Put
      BY <2>1, <3>2 DEF StdinPipe!Put
    <3> QED
      BY <3>3 DEF StdinPipe!Next
  <2> QED
    BY <1>4, <2>2, <2>3 DEF ReadStdin
<1>5. CASE SelectIn
  <2>1. typed' = typed
    BY <1>1, <1>5, SelectInInput
  <2>2. CASE Inputs(up') = Inputs(up)
    BY <1>2, <2>1, <2>2
  <2>3. ASSUME NEW k \in Nat, k + 1 = typed, Inputs(up) = [i \in 1..k |-> i],
               Inputs(up') = Append(Inputs(up), k + 1)
        PROVE  StdinPipe!Next
    <3>1. Len(sent) = typed /\ Len(Inputs(up)) = k
      BY <1>1, <2>3
    <3>2. Len(Inputs(up)) < Len(sent) /\ sent[Len(Inputs(up)) + 1] = k + 1
      BY <1>1, <2>3, <3>1
    <3>3. StdinPipe!Take
      BY <2>1, <2>3, <3>2 DEF StdinPipe!Take
    <3> QED
      BY <3>3 DEF StdinPipe!Next
  <2> QED
    BY <1>1, <1>5, <2>2, <2>3, SelectInInput
<1>6. CASE ~OpenShell /\ ~ReadStdin /\ ~SelectWinch /\ ~SelectIn
  BY <1>2, <1>6, OthersInput
<1> QED
  BY <1>3, <1>4, <1>5, <1>6

(* What the user types is sent to the gate in order, nothing twice and nothing skipped,
   for any number of chunks and whoever ends the session. *)
THEOREM StdinImplementsPipe == Spec => StdinIsPipe
<1>1. Init => StdinPipe!Init
  <2> SUFFICES ASSUME Init PROVE StdinPipe!Init
    OBVIOUS
  <2>1. up = <<>> /\ typed = 0
    BY DEF Init, RpcInit
  <2>2. [i \in 1..0 |-> i] = <<>>
    OBVIOUS
  <2> QED
    BY <2>1, <2>2, InputsOfNone DEF StdinPipe!Init
<1> QED
  BY <1>1, InitInv, NextInv, InitInputInv, NextInputInv, StepPipesInput, PTL
     DEF Spec, StdinIsPipe, StdinPipe!Spec, StdinPipe!vars
===============================================================================
