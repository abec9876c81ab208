-------------------------- MODULE FlowRuntimeProofs --------------------------
(***************************************************************************)
(* Proofs about FlowRuntime, for any finite set of requests, any non-empty *)
(* set of workers and any buffer size.  Three layers, each an inductive    *)
(* invariant on top of the one before: the stages of shutdown, where each  *)
(* message is, and what its handler is told.  On these rests the proof     *)
(* that the flow implements MessagePipeline.                               *)
(***************************************************************************)
EXTENDS FlowRuntime, FiniteSetTheorems, TLAPS

\* The send tokens form a finite set, so the wait group can count them.
LEMMA TokensFinite ==
    ASSUME TypeOK
    PROVE  IsFiniteSet(TokenHolders) /\ Cardinality(TokenHolders) \in Nat
  BY RequestsAssumption, FS_Subset, FS_CardinalityType, Zenon DEF TokenHolders

\* A handler that takes a token counts one more.
LEMMA TokenTaken ==
    ASSUME TypeOK, NEW r \in Requests, r \notin TokenHolders,
           TokenHolders' = TokenHolders \cup {r}
    PROVE  Cardinality(TokenHolders') = Cardinality(TokenHolders) + 1
  BY TokensFinite, FS_AddElement, Zenon

\* A handler that returns its token counts one less, and there was one.
LEMMA TokenReturned ==
    ASSUME TypeOK, NEW r \in Requests, r \in TokenHolders,
           TokenHolders' = TokenHolders \ {r}
    PROVE  /\ Cardinality(TokenHolders') = Cardinality(TokenHolders) - 1
           /\ Cardinality(TokenHolders) \in Nat \ {0}
  BY TokensFinite, FS_RemoveElement, FS_EmptySet, Zenon

\* writeResult answers with one of the responses.
LEMMA ResponseToType == \A k \in Kinds : ResponseTo[k] \subseteq Responses
  BY DEF ResponseTo, Kinds, Responses

-----------------------------------------------------------------------------
(* Layer 1: types and the stages of shutdown.                              *)

StagesInv == TypeOK /\ StopStages

\* The initial state satisfies the first layer.
LEMMA StagesInit == Init => StagesInv
  <1> SUFFICES ASSUME Init PROVE StagesInv
    OBVIOUS
  <1>0. <<>> \in Seq(Requests) /\ <<>> \in Seq(Kinds)
    OBVIOUS
  <1>1. TypeOK
    BY <1>0, Zenon DEF Init, TypeOK, SvcPoints, ReqPoints, WorkerPoints
  <1>2. TokenHolders = {}
    BY Zenon DEF Init, TokenHolders
  <1>3. sendWG = Cardinality(TokenHolders)
    BY <1>2, FS_EmptySet, Zenon DEF Init
  <1>4. StopStages
    BY <1>2, <1>3, Zenon DEF Init, StopStages, Closed, NoSenders, Telling
  <1> QED
    BY <1>1, <1>4, Zenon DEF StagesInv

\* Steps of the request handlers keep the first layer.
LEMMA StagesHandler ==
    ASSUME StagesInv, NEW r \in Requests, Arrive(r) \/ Handler(r) \/ Disconnect(r)
    PROVE  StagesInv'
  <1> USE DEF StagesInv
  <1>1. CASE Arrive(r)
    <2>1. TypeOK'
      BY <1>1, Zenon
      DEF Arrive, Goto, TypeOK, ReqPoints, svcVars, sourceVars, connVars, tableVars, chanVars,
          workerVars
    <2>2. TokenHolders' = TokenHolders
      BY <1>1, Zenon DEF Arrive, Goto, TypeOK, TokenHolders
    <2> QED
      BY <1>1, <2>1, <2>2, Zenon DEF Arrive, StopStages, svcVars, sourceVars, chanVars, workerVars
  <1>2. CASE ReadBody(r)
    <2>1. TypeOK'
      BY <1>2, Zenon
      DEF ReadBody, Finish, Goto, TypeOK, ReqPoints, Responses, svcVars, sourceVars, connVars,
          chanVars, workerVars
    <2>2. TokenHolders' = TokenHolders
      BY <1>2, Zenon DEF ReadBody, Finish, Goto, TypeOK, TokenHolders
    <2> QED
      BY <1>2, <2>1, <2>2, Zenon DEF ReadBody, StopStages, svcVars, sourceVars, chanVars, workerVars
  <1>3. CASE AcquireSend(r)
    <2>1. CASE stopping
      <3>1. TypeOK'
        BY <1>3, <2>1, Zenon
        DEF AcquireSend, Finish, Goto, TypeOK, ReqPoints, Responses, svcVars, connVars, chanVars,
            workerVars
      <3>2. TokenHolders' = TokenHolders
        BY <1>3, <2>1, Zenon DEF AcquireSend, Finish, Goto, TypeOK, TokenHolders
      <3> QED
        BY <1>3, <2>1, <3>1, <3>2, Zenon DEF AcquireSend, StopStages, svcVars, chanVars, workerVars
    <2>2. CASE ~stopping
      <3>0. /\ sendWG' = sendWG + 1 /\ req' = [req EXCEPT ![r] = "build"]
            /\ UNCHANGED <<resp, pending>>
            /\ UNCHANGED <<svcVars, stopping, srcDone, connVars, reply, chanVars, workerVars, gone>>
        BY <1>3, <2>2, Zenon DEF AcquireSend, Goto
      <3>1. TypeOK'
        BY <3>0 DEF TypeOK, ReqPoints, svcVars, connVars, chanVars, workerVars
      <3>2. TokenHolders' = TokenHolders \cup {r} /\ r \notin TokenHolders
        BY <1>3, <2>2 DEF AcquireSend, Goto, TypeOK, TokenHolders
      <3>3. sendWG' = Cardinality(TokenHolders')
        BY <1>3, <2>2, <3>2, TokenTaken, Zenon DEF AcquireSend, StopStages
      <3> QED
        BY <1>3, <2>2, <3>1, <3>3, Zenon
        DEF AcquireSend, StopStages, svcVars, chanVars, workerVars, NoSenders
    <2> QED
      BY <2>1, <2>2, Zenon DEF TypeOK
  <1>4. CASE BuildMessage(r)
    <2>1. CASE req' = [req EXCEPT ![r] = "sending"] /\ UNCHANGED <<resp, sendWG>>
      <3>1. TypeOK'
        BY <1>4, <2>1
        DEF BuildMessage, Goto, Finish, TypeOK, ReqPoints, svcVars, connVars, chanVars, workerVars
      <3>2. TokenHolders' = TokenHolders
        BY <1>4, <2>1, Zenon DEF BuildMessage, TypeOK, TokenHolders
      <3> QED
        BY <1>4, <2>1, <3>1, <3>2, Zenon DEF BuildMessage, StopStages, svcVars, chanVars, workerVars
    <2>2. CASE sendWG' = sendWG - 1 /\ Finish(r, "buildFailed")
      <3>1. TokenHolders' = TokenHolders \ {r} /\ r \in TokenHolders
        BY <1>4, <2>2, Zenon DEF BuildMessage, Finish, Goto, TypeOK, TokenHolders
      <3>a. Cardinality(TokenHolders') = Cardinality(TokenHolders) - 1 /\ Cardinality(TokenHolders) \in Nat \ {0}
        BY <3>1, TokenReturned, Zenon
      <3>2. sendWG' = Cardinality(TokenHolders') /\ sendWG' \in Nat
        BY <2>2, <3>a DEF StopStages
      <3>3. TypeOK'
        BY <1>4, <2>2, <3>2
        DEF BuildMessage, Finish, Goto, TypeOK, ReqPoints, Responses, svcVars, connVars, chanVars,
            workerVars
      <3> QED
        BY <1>4, <3>1, <3>2, <3>3, Zenon DEF BuildMessage, StopStages, svcVars, chanVars, workerVars
    <2> QED
      BY <1>4, <2>1, <2>2, Zenon DEF BuildMessage, Goto
  <1>5. CASE Send(r)
    <2>1. TypeOK'
      BY <1>5
      DEF Send, Goto, TypeOK, ReqPoints, svcVars, sourceVars, connVars, tableVars, workerVars
    <2>2. TokenHolders' = TokenHolders
      BY <1>5, Zenon DEF Send, Goto, TypeOK, TokenHolders
    <2> QED
      BY <1>5, <2>1, <2>2, Zenon DEF Send, StopStages, svcVars, sourceVars, workerVars
  <1>6. CASE SendAborted(r)
    <2>1. TypeOK'
      BY <1>6
      DEF SendAborted, Goto, TypeOK, ReqPoints, svcVars, sourceVars, connVars, tableVars, chanVars,
          workerVars
    <2>2. TokenHolders' = TokenHolders
      BY <1>6, Zenon DEF SendAborted, Goto, TypeOK, TokenHolders
    <2> QED
      BY <1>6, <2>1, <2>2, Zenon
      DEF SendAborted, StopStages, svcVars, sourceVars, chanVars, workerVars
  <1>7. CASE ReleaseSend(r)
    <2>1. TokenHolders' = TokenHolders \ {r} /\ r \in TokenHolders
      BY <1>7 DEF ReleaseSend, Finish, Goto, TypeOK, TokenHolders
    <2>0. sendWG' = sendWG - 1
      BY <1>7, Zenon DEF ReleaseSend
    <2>a. Cardinality(TokenHolders') = Cardinality(TokenHolders) - 1 /\ Cardinality(TokenHolders) \in Nat \ {0}
      BY <2>1, TokenReturned, Zenon
    <2>2. sendWG' = Cardinality(TokenHolders') /\ sendWG' \in Nat
      BY <2>0, <2>a DEF StopStages
    <2>3. TypeOK'
      BY <1>7, <2>2, ZenonT(30)
      DEF ReleaseSend, Finish, Goto, TypeOK, ReqPoints, Responses, svcVars, connVars, chanVars,
          workerVars
    <2> QED
      BY <1>7, <2>1, <2>2, <2>3, Zenon DEF ReleaseSend, StopStages, svcVars, chanVars, workerVars
  <1>8. CASE AwaitReply(r) \/ AwaitTimeout(r) \/ AwaitClientGone(r) \/ AwaitConnDone(r)
    <2> USE <1>8 DEF AwaitReply, AwaitTimeout, AwaitClientGone, AwaitConnDone
    <2>1. /\ req[r] = "await" /\ req' = [req EXCEPT ![r] = "done"]
          /\ UNCHANGED <<svcVars, sourceVars, connVars, chanVars, workerVars, gone>>
          /\ pending' = pending \ {r}
      BY Zenon DEF Finish, Goto
    <2>a. \E a \in Responses : resp' = [resp EXCEPT ![r] = a]
      <3>1. CASE AwaitReply(r)
        <4>1. reply[r] \in Kinds
          BY <3>1, Zenon DEF TypeOK
        <4> QED
          BY <3>1, <4>1, ResponseToType, Zenon DEF Finish
      <3>2. CASE ~AwaitReply(r)
        BY <3>2, Zenon DEF Finish, Responses
      <3> QED
        BY <3>1, <3>2, Zenon
    <2>b. reply' = reply \/ reply' = [reply EXCEPT ![r] = None]
      OBVIOUS
    <2>2. resp' \in [Requests -> Responses \cup {None}] /\ reply' \in [Requests -> Kinds \cup {None}]
      BY <2>a, <2>b, ZenonT(30) DEF TypeOK
    <2>3. TypeOK'
      BY <2>1, <2>2, Zenon
      DEF TypeOK, ReqPoints, svcVars, sourceVars, connVars, chanVars, workerVars
    <2>4. TokenHolders' = TokenHolders
      BY <2>1, Zenon DEF TypeOK, TokenHolders
    <2> QED
      BY <2>1, <2>3, <2>4, Zenon DEF StopStages, svcVars, sourceVars, chanVars, workerVars
  <1>9. CASE Disconnect(r)
    <2>1. TypeOK'
      BY <1>9 DEF Disconnect, TypeOK, svcVars, sourceVars, connVars, tableVars, chanVars, workerVars
    <2>2. TokenHolders' = TokenHolders
      BY <1>9, Zenon DEF Disconnect, TokenHolders
    <2> QED
      BY <1>9, <2>1, <2>2, Zenon
      DEF Disconnect, StopStages, svcVars, sourceVars, chanVars, workerVars
  <1> QED
    BY <1>1, <1>2, <1>3, <1>4, <1>5, <1>6, <1>7, <1>8, <1>9, Zenon DEF Handler

\* Steps of the workers keep the first layer: only Receive touches the channel,
\* and a worker leaves only when the channel is closed and empty.
LEMMA StagesWorker ==
    ASSUME StagesInv, NEW w \in Workers, Worker(w)
    PROVE  StagesInv'
  <1> USE DEF StagesInv
  <1>0. UNCHANGED <<svcVars, sourceVars, connVars, reqVars, pending, inClosed, accepted>>
    BY Zenon
    DEF Worker, Receive, WorkerExit, ProcessRoot, ProcessErrorPath, PublishTerminal, LookupReply,
        DeliverReply, tableVars, chanVars
  <1>1. TokenHolders' = TokenHolders
    BY <1>0, Zenon DEF TokenHolders, reqVars
  <1> DEFINE Typed == /\ in' \in Seq(Requests) /\ wk' \in [Workers -> WorkerPoints]
                      /\ msg' \in [Workers -> Requests \cup {None}]
                      /\ kind' \in [Workers -> Kinds \cup {None}]
                      /\ reply' \in [Requests -> Kinds \cup {None}]
                      /\ terminal' \in [Requests -> Seq(Kinds)]
             Left == /\ \A v \in Workers : wk'[v] = "exited" => inClosed' /\ in' = <<>>
                     /\ (\A v \in Workers : wk[v] = "exited") => (\A v \in Workers : wk'[v] = "exited")
                     /\ \A v \in Workers : wk'[v] \in Telling \cup {"publish"} => kind'[v] # None
  <1> USE DEF TypeOK, StopStages
  <1>2. ASSUME Receive(w) PROVE Typed /\ Left
    <2>1. in \in Seq(Requests) /\ in # <<>>
      BY <1>2, Zenon DEF Receive
    <2>2. Head(in) \in Requests /\ Tail(in) \in Seq(Requests)
      BY <2>1
    <2>3. Typed
      BY <1>2, <2>2, Zenon DEF Receive, WorkerPoints, tableVars
    <2> QED
      BY <1>2, <2>1, <2>3, Zenon DEF Receive, WorkerPoints, Telling
  <1>3. ASSUME WorkerExit(w) PROVE Typed /\ Left
    BY <1>3, Zenon DEF WorkerExit, WorkerPoints, tableVars, chanVars, Telling
  <1>a. None \notin Kinds
    BY NoneAssumption, Zenon
  <1>4. ASSUME ProcessRoot(w) PROVE Typed /\ Left
    <2>0. UNCHANGED <<in, inClosed, msg, reply, terminal>> /\ wk[w] = "root"
      BY <1>4, Zenon DEF ProcessRoot, chanVars, tableVars
    <2>1. CASE wk' = [wk EXCEPT ![w] = "errorPath"] /\ UNCHANGED kind
      BY <2>0, <2>1, SMTT(30) DEF WorkerPoints, Telling
    <2>2. CASE wk' = [wk EXCEPT ![w] = "publish"] /\ \E k \in Kinds : kind' = [kind EXCEPT ![w] = k]
      <3>1. PICK k \in Kinds : kind' = [kind EXCEPT ![w] = k]
        BY <2>2, Zenon
      <3>2. Typed
        BY <2>0, <2>2, <3>1, Zenon DEF WorkerPoints
      <3> QED
        BY <1>a, <2>0, <2>2, <3>1, <3>2, SMTT(30) DEF Telling
    <2> QED
      BY <1>4, <2>1, <2>2, Zenon DEF ProcessRoot
  <1>5. ASSUME ProcessErrorPath(w) PROVE Typed /\ Left
    <2>1. PICK k \in Kinds : kind' = [kind EXCEPT ![w] = k]
      BY <1>5, Zenon DEF ProcessErrorPath
    <2>2. Typed
      BY <1>5, <2>1, Zenon DEF ProcessErrorPath, WorkerPoints, tableVars, chanVars
    <2> QED
      BY <1>5, <1>a, <2>1, <2>2, ZenonT(30) DEF ProcessErrorPath, chanVars, Telling
  <1>6. ASSUME PublishTerminal(w) PROVE Typed /\ Left
    <2>1. kind[w] \in Kinds
      BY <1>6, Zenon DEF PublishTerminal
    <2>2. \A r \in Requests : Append(terminal[r], kind[w]) \in Seq(Kinds)
      BY <2>1, SMTT(30)
    <2>a. terminal' = [terminal EXCEPT ![msg[w]] = Append(terminal[msg[w]], kind[w])]
      BY <1>6, Zenon DEF PublishTerminal
    <2>b. terminal' \in [Requests -> Seq(Kinds)]
      BY <2>2, <2>a, Zenon
    <2>3. Typed
      BY <1>6, <2>b, ZenonT(30) DEF PublishTerminal, Rest, WorkerPoints, tableVars, chanVars
    <2>4. Left
      BY ZenonT(40), SMTT(30), <1>6 DEF PublishTerminal, Rest, chanVars, Telling
    <2> QED
      BY <2>3, <2>4, Zenon
  <1>7. ASSUME LookupReply(w) PROVE Typed /\ Left
    <2>1. Typed
      BY <1>7, ZenonT(30) DEF LookupReply, Rest, WorkerPoints, tableVars, chanVars
    <2>2. Left
      BY <1>7 DEF LookupReply, Rest, chanVars, Telling
    <2> QED
      BY <2>1, <2>2, ZenonT(30)
  <1>8. ASSUME DeliverReply(w) PROVE Typed /\ Left
    <2>1. Typed
      BY <1>8, ZenonT(30) DEF DeliverReply, Rest, WorkerPoints, tableVars, chanVars
    <2>2. Left
      BY <1>8, ZenonT(30) DEF DeliverReply, Rest, chanVars, Telling
    <2> QED
      BY <2>1, <2>2, Zenon
  <1>9. Typed /\ Left
    BY <1>2, <1>3, <1>4, <1>5, <1>6, <1>7, <1>8, ZenonT(30) DEF Worker
  <1> QED
    BY <1>0, <1>1, <1>9, SMTT(30) DEF svcVars, sourceVars, connVars, reqVars

\* Steps of Service.Run keep the first layer: the source's Stop waits for every
\* send token before the channel is closed.
LEMMA StagesService ==
    ASSUME StagesInv, Service \/ Cancel
    PROVE  StagesInv'
  <1> USE DEF StagesInv
  <1>1. UNCHANGED <<sendWG, tableVars, in, accepted, msg, kind, terminal, reqVars>>
    BY Zenon
    DEF Service, Cancel, StartConnector, StartFlow, StopRefuse, StopSignal, StopWaitSends, CloseIn,
        WaitWorkers, CloseConn, Unsubscribe, CloseListener, Shutdown, sourceVars, chanVars,
        workerVars
  <1>2. TokenHolders' = TokenHolders
    BY <1>1, Zenon DEF TokenHolders, reqVars
  <1>3. svc = "waitSends" /\ svc' = "closeIn" => TokenHolders = {}
    <2> SUFFICES ASSUME svc = "waitSends", svc' = "closeIn" PROVE TokenHolders = {}
      OBVIOUS
    <2>1. sendWG = 0
      BY Zenon
      DEF Service, Cancel, Step, StartConnector, StartFlow, StopRefuse, StopSignal, StopWaitSends,
          CloseIn, WaitWorkers, CloseConn, Unsubscribe, CloseListener, Shutdown
    <2> QED
      BY <2>1, TokensFinite, FS_EmptySet, Zenon DEF StopStages
  <1>4. CASE StartConnector
    <2>1. TypeOK'
      BY <1>1, <1>4, Zenon
      DEF TypeOK, SvcPoints, WorkerPoints, StartConnector, Step, svcVars, sourceVars, connVars,
          tableVars, chanVars, workerVars, reqVars
    <2>2. StopStages'
      BY <1>1, <1>2, <1>3, <1>4, Zenon
      DEF TypeOK, StopStages, NoSenders, Closed, Telling, StartConnector, Step, svcVars, sourceVars,
          connVars, chanVars, workerVars
    <2> QED
      BY <2>1, <2>2
  <1>5. CASE StartFlow
    <2>1. TypeOK'
      BY <1>1, <1>5
      DEF TypeOK, SvcPoints, WorkerPoints, StartFlow, Step, svcVars, sourceVars, connVars,
          tableVars, chanVars, workerVars, reqVars
    <2>2. StopStages'
      BY <1>1, <1>2, <1>3, <1>5, Zenon
      DEF TypeOK, StopStages, NoSenders, Closed, Telling, StartFlow, Step, svcVars, sourceVars,
          connVars, chanVars, workerVars
    <2> QED
      BY <2>1, <2>2, Zenon
  <1>6. CASE StopRefuse
    <2>1. TypeOK'
      BY <1>1, <1>6, Zenon
      DEF TypeOK, SvcPoints, WorkerPoints, StopRefuse, Step, svcVars, sourceVars, connVars,
          tableVars, chanVars, workerVars, reqVars
    <2>2. StopStages'
      BY <1>1, <1>2, <1>3, <1>6, Zenon
      DEF TypeOK, StopStages, NoSenders, Closed, Telling, StopRefuse, Step, svcVars, sourceVars,
          connVars, chanVars, workerVars
    <2> QED
      BY <2>1, <2>2, Zenon
  <1>7. CASE StopSignal
    <2>1. TypeOK'
      BY <1>1, <1>7
      DEF TypeOK, SvcPoints, WorkerPoints, StopSignal, Step, svcVars, sourceVars, connVars,
          tableVars, chanVars, workerVars, reqVars
    <2>2. StopStages'
      BY <1>1, <1>2, <1>3, <1>7, Zenon
      DEF TypeOK, StopStages, NoSenders, Closed, Telling, StopSignal, Step, svcVars, sourceVars,
          connVars, chanVars, workerVars
    <2> QED
      BY <2>1, <2>2
  <1>8. CASE StopWaitSends
    <2>1. TypeOK'
      BY <1>1, <1>8, Zenon
      DEF TypeOK, SvcPoints, WorkerPoints, StopWaitSends, Step, svcVars, sourceVars, connVars,
          tableVars, chanVars, workerVars, reqVars
    <2>2. StopStages'
      BY <1>1, <1>2, <1>3, <1>8, Zenon
      DEF TypeOK, StopStages, NoSenders, Closed, Telling, StopWaitSends, Step, svcVars, sourceVars,
          connVars, chanVars, workerVars
    <2> QED
      BY <2>1, <2>2, Zenon
  <1>9. CASE CloseIn
    <2>1. TypeOK'
      BY <1>1, <1>9
      DEF TypeOK, SvcPoints, WorkerPoints, CloseIn, Step, svcVars, sourceVars, connVars, tableVars,
          chanVars, workerVars, reqVars
    <2>2. StopStages'
      BY <1>1, <1>2, <1>3, <1>9, Zenon
      DEF TypeOK, StopStages, NoSenders, Closed, Telling, CloseIn, Step, svcVars, sourceVars,
          connVars, chanVars, workerVars
    <2> QED
      BY <2>1, <2>2, Zenon
  <1>10. CASE WaitWorkers
    <2>1. TypeOK'
      BY <1>1, <1>10
      DEF TypeOK, SvcPoints, WorkerPoints, WaitWorkers, Step, svcVars, sourceVars, connVars,
          tableVars, chanVars, workerVars, reqVars
    <2>2. StopStages'
      BY <1>1, <1>2, <1>3, <1>10, Zenon
      DEF TypeOK, StopStages, NoSenders, Closed, Telling, WaitWorkers, Step, svcVars, sourceVars,
          connVars, chanVars, workerVars
    <2> QED
      BY <2>1, <2>2, Zenon
  <1>11. CASE CloseConn
    <2>1. TypeOK'
      BY <1>1, <1>11, Zenon
      DEF TypeOK, SvcPoints, WorkerPoints, CloseConn, Step, svcVars, sourceVars, connVars,
          tableVars, chanVars, workerVars, reqVars
    <2>2. StopStages'
      BY <1>1, <1>2, <1>3, <1>11, Zenon
      DEF TypeOK, StopStages, NoSenders, Closed, Telling, CloseConn, Step, svcVars, sourceVars,
          connVars, chanVars, workerVars
    <2> QED
      BY <2>1, <2>2, Zenon
  <1>12. CASE Unsubscribe
    <2>1. TypeOK'
      BY <1>1, <1>12, Zenon
      DEF TypeOK, SvcPoints, WorkerPoints, Unsubscribe, Step, svcVars, sourceVars, connVars,
          tableVars, chanVars, workerVars, reqVars
    <2>2. StopStages'
      BY <1>1, <1>2, <1>3, <1>12, Zenon
      DEF TypeOK, StopStages, NoSenders, Closed, Telling, Unsubscribe, Step, svcVars, sourceVars,
          connVars, chanVars, workerVars
    <2> QED
      BY <2>1, <2>2, Zenon
  <1>13. CASE CloseListener
    <2>1. TypeOK'
      BY <1>1, <1>13, Zenon
      DEF TypeOK, SvcPoints, WorkerPoints, CloseListener, Step, svcVars, sourceVars, connVars,
          tableVars, chanVars, workerVars, reqVars
    <2>2. StopStages'
      BY <1>1, <1>2, <1>3, <1>13, Zenon
      DEF TypeOK, StopStages, NoSenders, Closed, Telling, CloseListener, Step, svcVars, sourceVars,
          connVars, chanVars, workerVars
    <2> QED
      BY <2>1, <2>2, Zenon
  <1>14. CASE Shutdown
    <2>1. TypeOK'
      BY <1>1, <1>14
      DEF TypeOK, SvcPoints, WorkerPoints, Shutdown, Step, svcVars, sourceVars, connVars, tableVars,
          chanVars, workerVars, reqVars
    <2>2. StopStages'
      BY <1>1, <1>2, <1>3, <1>14, Zenon
      DEF TypeOK, StopStages, NoSenders, Closed, Telling, Shutdown, Step, svcVars, sourceVars,
          connVars, chanVars, workerVars
    <2> QED
      BY <2>1, <2>2, Zenon
  <1>15. CASE Cancel
    <2>1. TypeOK'
      BY <1>1, <1>15
      DEF TypeOK, SvcPoints, WorkerPoints, Cancel, Step, svcVars, sourceVars, connVars, tableVars,
          chanVars, workerVars, reqVars
    <2>2. StopStages'
      BY <1>1, <1>2, <1>3, <1>15, Zenon
      DEF TypeOK, StopStages, NoSenders, Closed, Telling, Cancel, Step, svcVars, sourceVars,
          connVars, chanVars, workerVars
    <2> QED
      BY <2>1, <2>2, Zenon
  <1> QED
    BY <1>4, <1>5, <1>6, <1>7, <1>8, <1>9, <1>10, <1>11, <1>12, <1>13, <1>14, <1>15, Zenon
    DEF Service

\* The first layer is an invariant of the specification: the types, and the order
\* in which shutdown refuses, waits, closes and drains.
THEOREM StagesInvariant == Spec => []StagesInv
  <1>1. StagesInv /\ [Next]_vars => StagesInv'
    <2> SUFFICES ASSUME StagesInv, [Next]_vars PROVE StagesInv'
      OBVIOUS
    <2>1. CASE UNCHANGED vars
      BY <2>1
      DEF StagesInv, TypeOK, StopStages, TokenHolders, vars, svcVars, sourceVars, connVars,
          tableVars, chanVars, workerVars, reqVars
    <2> QED
      BY <2>1, StagesHandler, StagesWorker, StagesService, Zenon DEF Next, Stopped
  <1> QED
    BY <1>1, StagesInit, PTL DEF Spec

\* Every reachable state is well typed.
THEOREM TypeCorrect == Spec => []TypeOK
  BY StagesInvariant, PTL DEF StagesInv

\* No handler is ever in its send on a closed channel, the panic that source.Stop
\* and boundFlow.stop must prevent: once the channel is closed nobody holds a
\* send token.
THEOREM SendSafety == Spec => []NoSendOnClosedChannel
  <1>1. StagesInv => NoSendOnClosedChannel
    BY Zenon DEF StagesInv, StopStages, NoSendOnClosedChannel, TokenHolders, NoSenders
  <1> QED
    BY <1>1, StagesInvariant, PTL

-----------------------------------------------------------------------------
(* Layer 2: every accepted message is in one place.                        *)

PlaceInv == EveryMessageInOnePlace /\ InHand

\* At the start there are no messages.
LEMMA PlaceInit == Init => PlaceInv
  BY NoneAssumption, SMTT(30)
  DEF Init, PlaceInv, EveryMessageInOnePlace, InHand, Queued, Held, Ended, Holding, Telling

\* A step that leaves the channel, the workers and the history alone, and moves
\* no handler back from its send, keeps the second layer.
LEMMA PlaceFrame ==
    ASSUME PlaceInv, UNCHANGED <<in, accepted, workerVars>>,
           svc' \in {"init", "connected"} => svc \in {"init", "connected"},
           \A q \in accepted : req[q] \in {"release", "await", "done"} => req'[q] \in {"release", "await", "done"}
    PROVE  PlaceInv'
  BY ZenonT(40), SMTT(30)
  DEF PlaceInv, EveryMessageInOnePlace, InHand, Queued, Held, Ended, workerVars

\* Steps of the request handlers keep the second layer: a message enters the
\* channel once, by its own handler.
LEMMA PlaceHandler ==
    ASSUME StagesInv, PlaceInv, NEW r \in Requests, Arrive(r) \/ Handler(r) \/ Disconnect(r)
    PROVE  PlaceInv'
  <1>1. CASE Send(r)
    <2>1. r \notin accepted /\ ~Queued(r) /\ ~Held(r) /\ ~Ended(r)
      BY <1>1, Zenon DEF Send, PlaceInv, InHand, EveryMessageInOnePlace
    <2>2. /\ in \in Seq(Requests) /\ in' = Append(in, r) /\ accepted' = accepted \cup {r}
          /\ UNCHANGED <<workerVars, svc>> /\ req' = [req EXCEPT ![r] = "release"]
          /\ req \in [Requests -> ReqPoints] /\ accepted \subseteq Requests
      BY <1>1, Zenon DEF Send, Goto, StagesInv, TypeOK, svcVars
    <2>3. /\ DOMAIN in = 1..Len(in) /\ DOMAIN in' = 1..(Len(in) + 1) /\ Len(in) \in Nat
          /\ in'[Len(in) + 1] = r
          /\ \A i \in 1..Len(in) : in'[i] = in[i]
      BY <2>2
    <2>4. \A q \in Requests : Queued(q)' <=> Queued(q) \/ q = r
      BY <2>3, SMTT(30) DEF Queued
    <2>5. \A q \in Requests : (Held(q)' <=> Held(q)) /\ (Ended(q)' <=> Ended(q))
      BY <2>2, Zenon DEF Held, Ended, workerVars
    <2>6. \A i, j \in DOMAIN in' : in'[i] = in'[j] => i = j
      BY <2>1, <2>3 DEF PlaceInv, EveryMessageInOnePlace, Queued
    <2>7. EveryMessageInOnePlace'
      BY <2>1, <2>2, <2>4, <2>5, <2>6, SMTT(30) DEF PlaceInv, EveryMessageInOnePlace, workerVars
    <2>8. InHand'
      BY <2>2, ZenonT(30) DEF PlaceInv, InHand, workerVars
    <2> QED
      BY <2>7, <2>8, Zenon DEF PlaceInv
  <1>2. CASE ~Send(r)
    <2>1. UNCHANGED <<svc, in, accepted, workerVars>>
      BY <1>2, Zenon
      DEF Arrive, Handler, ReadBody, AcquireSend, BuildMessage, SendAborted, ReleaseSend,
          AwaitReply, AwaitTimeout, AwaitClientGone, AwaitConnDone, Disconnect, svcVars, chanVars
    <2>2. \/ req' = req
          \/ req[r] \notin {"release", "await", "done"} /\ \E p \in ReqPoints : req' = [req EXCEPT ![r] = p]
          \/ \E p \in {"await", "done"} : req' = [req EXCEPT ![r] = p]
      BY <1>2, Zenon
      DEF Arrive, Handler, ReadBody, AcquireSend, BuildMessage, SendAborted, ReleaseSend,
          AwaitReply, AwaitTimeout, AwaitClientGone, AwaitConnDone, Disconnect, Finish, Goto,
          ReqPoints
    <2>3. \A q \in accepted : req[q] \in {"release", "await", "done"} => req'[q] \in {"release", "await", "done"}
      BY <2>2, Zenon DEF StagesInv, TypeOK
    <2> QED
      BY <2>1, <2>3, PlaceFrame
  <1> QED
    BY <1>1, <1>2, Zenon

\* Steps of the workers keep the second layer: a message leaves the channel for
\* one worker, which publishes one terminal event for it.
LEMMA PlaceWorker ==
    ASSUME StagesInv, PlaceInv, NEW w \in Workers, Worker(w)
    PROVE  PlaceInv'
  <1> DEFINE r == msg[w]
  <1>0. /\ in \in Seq(Requests) /\ wk \in [Workers -> WorkerPoints]
        /\ msg \in [Workers -> Requests \cup {None}] /\ kind \in [Workers -> Kinds \cup {None}]
        /\ terminal \in [Requests -> Seq(Kinds)] /\ accepted \subseteq Requests
    BY DEF StagesInv, TypeOK
  <1>a. None \notin Requests
    BY NoneAssumption, Zenon
  <1>b. UNCHANGED <<svc, req, accepted>>
    BY Zenon
    DEF Worker, Receive, WorkerExit, ProcessRoot, ProcessErrorPath, PublishTerminal, LookupReply,
        DeliverReply, svcVars, chanVars, reqVars
  <1>c. wk[w] # "unborn"
    BY Zenon
    DEF Worker, Receive, WorkerExit, ProcessRoot, ProcessErrorPath, PublishTerminal, LookupReply,
        DeliverReply
  <1>d. svc' \notin {"init", "connected"} /\ \A q \in accepted' : req'[q] \in {"release", "await", "done"}
    BY <1>b, <1>c, Zenon DEF PlaceInv, InHand
  <1>1. CASE Receive(w)
    <2> DEFINE m == Head(in)
    <2>1. /\ wk[w] = "idle" /\ in # <<>> /\ msg' = [msg EXCEPT ![w] = m] /\ in' = Tail(in)
          /\ wk' = [wk EXCEPT ![w] = "root"] /\ UNCHANGED <<kind, terminal>>
      BY <1>1, Zenon DEF Receive
    <2>2. /\ Len(in) \in Nat \ {0} /\ DOMAIN in = 1..Len(in) /\ DOMAIN in' = 1..(Len(in) - 1)
          /\ m = in[1] /\ m \in Requests /\ \A i \in 1..(Len(in) - 1) : in'[i] = in[i + 1]
      BY <1>0, <2>1, SMTT(30)
    <2>3. Queued(m) /\ ~Held(m) /\ ~Ended(m) /\ m \in accepted
      BY <2>2, SMTT(30) DEF Queued, PlaceInv, EveryMessageInOnePlace
    <2>4. \A q \in Requests : Queued(q)' <=> Queued(q) /\ q # m
      <3>1. \A i, j \in DOMAIN in : in[i] = in[j] => i = j
        BY Zenon DEF PlaceInv, EveryMessageInOnePlace
      <3>2. ASSUME NEW q \in Requests, Queued(q)' PROVE Queued(q) /\ q # m
        <4>1. PICK i \in DOMAIN in' : in'[i] = q
          BY <3>2, Zenon DEF Queued
        <4>2. i + 1 \in DOMAIN in /\ i + 1 # 1 /\ in[i + 1] = q /\ 1 \in DOMAIN in
          BY <2>2, <4>1
        <4> QED
          BY <2>2, <3>1, <4>2, SMTT(30) DEF Queued
      <3>3. ASSUME NEW q \in Requests, Queued(q), q # m PROVE Queued(q)'
        <4>1. PICK i \in DOMAIN in : in[i] = q
          BY <3>3, Zenon DEF Queued
        <4>2. i - 1 \in DOMAIN in' /\ in'[i - 1] = q
          BY <2>2, <3>3, <4>1, SMTT(30)
        <4> QED
          BY <4>2 DEF Queued
      <3> QED
        BY <3>2, <3>3, Zenon
    <2>5. \A q \in Requests : Held(q)' <=> Held(q) \/ q = m
      <3>1. msg[w] = None
        BY <2>1 DEF PlaceInv, InHand, Holding, Telling
      <3> QED
        BY <1>0, <1>a, <2>1, <2>2, <3>1, SMTT(30) DEF Held, Holding
    <2>6. \A q \in Requests : Ended(q)' <=> Ended(q)
      BY <2>1, Zenon DEF Ended
    <2>7. \A i, j \in DOMAIN in' : in'[i] = in'[j] => i = j
      <3>1. \A i, j \in DOMAIN in : in[i] = in[j] => i = j
        BY Zenon DEF PlaceInv, EveryMessageInOnePlace
      <3>2. \A i \in DOMAIN in' : i + 1 \in DOMAIN in /\ in'[i] = in[i + 1] /\ i \in Nat
        BY <2>2
      <3> QED
        BY <3>1, <3>2
    <2>8. \A v \in Workers : msg[v] # m
      <3> SUFFICES ASSUME NEW v \in Workers, msg[v] = m PROVE FALSE
        OBVIOUS
      <3>1. wk[v] \in Holding \/ wk[v] \in Telling
        BY <1>a, <2>2, SMTT(30) DEF PlaceInv, InHand
      <3>2. CASE wk[v] \in Holding
        BY <2>3, <3>2, SMTT(30) DEF Held
      <3>3. CASE wk[v] \in Telling
        <4>1. terminal[m] = <<kind[v]>>
          BY <3>3, Zenon DEF PlaceInv, InHand
        <4> QED
          BY <2>3, <4>1, SMTT(30) DEF Ended
      <3> QED
        BY <3>1, <3>2, <3>3, Zenon
    <2>9. \A u, v \in Workers : (msg'[u] = msg'[v] /\ msg'[u] # None) => u = v
      BY <1>0, <2>1, <2>8, Zenon DEF PlaceInv, EveryMessageInOnePlace
    <2>10. EveryMessageInOnePlace'
      BY <1>b, <2>1, <2>3, <2>4, <2>5, <2>6, <2>7, <2>9, SMTT(30)
      DEF PlaceInv, EveryMessageInOnePlace
    <2>11. InHand'
      BY <1>0, <1>a, <1>d, <2>1, <2>2, SMTT(30) DEF PlaceInv, InHand, Holding, Telling
    <2> QED
      BY <2>10, <2>11 DEF PlaceInv
  <1>2. CASE WorkerExit(w) \/ ProcessRoot(w) \/ ProcessErrorPath(w)
    <2>1. /\ UNCHANGED <<in, msg, terminal>>
          /\ \/ wk[w] = "idle" /\ wk' = [wk EXCEPT ![w] = "exited"] /\ kind' = kind
             \/ /\ wk[w] \in {"root", "errorPath"}
                /\ \E p \in {"errorPath", "publish"} : wk' = [wk EXCEPT ![w] = p]
                /\ \A v \in Workers \ {w} : kind'[v] = kind[v]
      BY <1>0, <1>2, Zenon DEF WorkerExit, ProcessRoot, ProcessErrorPath, chanVars
    <2>2. \A q \in Requests : (Queued(q)' <=> Queued(q)) /\ (Ended(q)' <=> Ended(q))
      BY <2>1 DEF Queued, Ended
    <2>3. \A q \in Requests : Held(q)' <=> Held(q)
      BY <1>0, <2>1 DEF Held, Holding
    <2>4. EveryMessageInOnePlace'
      BY <1>b, <2>1, <2>2, <2>3 DEF PlaceInv, EveryMessageInOnePlace
    <2>5. InHand'
      BY ZenonT(40), SMTT(30), <1>0, <1>d, <2>1 DEF PlaceInv, InHand, Holding, Telling
    <2> QED
      BY <2>4, <2>5, Zenon DEF PlaceInv
  <1>3. CASE PublishTerminal(w)
    <2>1. /\ wk[w] = "publish" /\ UNCHANGED in
          /\ terminal' = [terminal EXCEPT ![r] = Append(terminal[r], kind[w])]
          /\ \/ wk' = [wk EXCEPT ![w] = "lookup"] /\ UNCHANGED <<msg, kind>>
             \/ /\ wk' = [wk EXCEPT ![w] = "idle"] /\ msg' = [msg EXCEPT ![w] = None]
                /\ kind' = [kind EXCEPT ![w] = None]
      BY <1>3, Zenon DEF PublishTerminal, Rest, chanVars
    <2>2. r \in Requests /\ Held(r) /\ ~Queued(r) /\ ~Ended(r) /\ r \in accepted
      BY <1>0, <2>1 DEF PlaceInv, InHand, EveryMessageInOnePlace, Held, Holding
    <2>3. terminal[r] = <<>> /\ terminal'[r] = <<kind[w]>>
      BY <1>0, <2>1, <2>2 DEF Ended
    <2>4. \A v \in Workers : msg[v] = r => v = w
      BY <1>a, <2>2, Zenon DEF PlaceInv, EveryMessageInOnePlace
    <2>5. \A q \in Requests : /\ Queued(q)' <=> Queued(q)
                              /\ Held(q)' <=> Held(q) /\ q # r
                              /\ Ended(q)' <=> Ended(q) \/ q = r
      <3>1. \A q \in Requests : Queued(q)' <=> Queued(q)
        BY <2>1, Zenon DEF Queued
      <3>2. \A q \in Requests : Held(q)' <=> Held(q) /\ q # r
        BY <1>0, <1>a, <2>1, <2>4, ZenonT(30) DEF Held, Holding
      <3>3. \A q \in Requests : Ended(q)' <=> Ended(q) \/ q = r
        BY <1>0, <2>1, <2>2, <2>3 DEF Ended
      <3> QED
        BY <3>1, <3>2, <3>3, Zenon
    <2>6. \A u, v \in Workers : (msg'[u] = msg'[v] /\ msg'[u] # None) => u = v
      BY <1>0, <2>1, ZenonT(30) DEF PlaceInv, EveryMessageInOnePlace
    <2>7. \A q \in Requests : Ended(q)' => Len(terminal'[q]) = 1
      BY <1>0, <2>1, <2>2, <2>3, <2>5 DEF PlaceInv, EveryMessageInOnePlace
    <2>8. EveryMessageInOnePlace'
      BY <1>b, <2>1, <2>2, <2>5, <2>6, <2>7, SMTT(30) DEF PlaceInv, EveryMessageInOnePlace
    <2>9. InHand'
      <3>1. \A v \in Workers : wk'[v] \in Holding \cup Telling <=> msg'[v] # None
        BY <1>0, <1>a, <2>1, <2>2 DEF PlaceInv, InHand, Holding, Telling
      <3>2. ASSUME NEW v \in Workers, wk'[v] \in Telling PROVE terminal'[msg'[v]] = <<kind'[v]>>
        <4>1. CASE v = w
          BY <1>0, <2>1, <2>3, <3>2, <4>1 DEF Telling
        <4>2. CASE v # w
          <5>1. wk[v] \in Telling /\ msg'[v] = msg[v] /\ kind'[v] = kind[v] /\ msg[v] # r
            BY <1>0, <2>1, <2>4, <3>2, <4>2, Zenon
          <5> QED
            BY <1>0, <2>1, <5>1, Zenon DEF PlaceInv, InHand
        <4> QED
          BY <4>1, <4>2, Zenon
      <3> QED
        BY <1>d, <3>1, <3>2, Zenon DEF InHand
    <2> QED
      BY <2>8, <2>9, Zenon DEF PlaceInv
  <1>4. CASE LookupReply(w) \/ DeliverReply(w)
    <2>1. /\ wk[w] \in Telling /\ UNCHANGED <<in, terminal>>
          /\ \/ wk' = [wk EXCEPT ![w] = "deliver"] /\ UNCHANGED <<msg, kind>>
             \/ /\ wk' = [wk EXCEPT ![w] = "idle"] /\ msg' = [msg EXCEPT ![w] = None]
                /\ kind' = [kind EXCEPT ![w] = None]
      BY <1>4, Zenon DEF LookupReply, DeliverReply, Rest, chanVars, Telling
    <2>2. \A q \in Requests : (Queued(q)' <=> Queued(q)) /\ (Ended(q)' <=> Ended(q))
      BY <2>1, Zenon DEF Queued, Ended
    <2>3. \A q \in Requests : Held(q)' <=> Held(q)
      BY <1>0, <1>a, <2>1, ZenonT(30) DEF Held, Holding, Telling
    <2>4. \A u, v \in Workers : (msg'[u] = msg'[v] /\ msg'[u] # None) => u = v
      BY <1>0, <2>1 DEF PlaceInv, EveryMessageInOnePlace
    <2>5. EveryMessageInOnePlace'
      BY <1>b, <2>1, <2>2, <2>3, <2>4, Zenon DEF PlaceInv, EveryMessageInOnePlace
    <2>6. InHand'
      BY ZenonT(40), SMTT(30), <1>0, <1>d, <2>1 DEF PlaceInv, InHand, Holding, Telling
    <2> QED
      BY <2>5, <2>6, Zenon DEF PlaceInv
  <1> QED
    BY <1>1, <1>2, <1>3, <1>4, Zenon DEF Worker

\* Steps of Service.Run keep the second layer: it never touches a message.
LEMMA PlaceService ==
    ASSUME StagesInv, PlaceInv, Service \/ Cancel
    PROVE  PlaceInv'
  <1>1. CASE StartFlow
    <2>1. \A w \in Workers : msg[w] = None
      BY <1>1, Zenon DEF StartFlow, Step, PlaceInv, InHand, Holding, Telling
    <2>2. /\ svc' = "ready" /\ wk' = [w \in Workers |-> "idle"]
          /\ UNCHANGED <<in, accepted, msg, kind, terminal, req>>
      BY <1>1, Zenon DEF StartFlow, Step, chanVars, reqVars
    <2>3. \A q \in Requests : ~Held(q) /\ ~Held(q)'
      BY <2>1, <2>2, NoneAssumption, Zenon DEF Held
    <2>4. EveryMessageInOnePlace'
      BY <2>2, <2>3, Zenon DEF PlaceInv, EveryMessageInOnePlace, Queued, Ended
    <2>5. InHand'
      BY <2>1, <2>2, Zenon DEF PlaceInv, InHand, Holding, Telling
    <2> QED
      BY <2>4, <2>5, Zenon DEF PlaceInv
  <1>2. CASE ~StartFlow
    <2>1. UNCHANGED <<in, accepted, workerVars, req>> /\ (svc' \in {"init", "connected"} => svc = "init")
      BY <1>2, Zenon
      DEF Service, Cancel, Step, StartConnector, StopRefuse, StopSignal, StopWaitSends, CloseIn,
          WaitWorkers, CloseConn, Unsubscribe, CloseListener, Shutdown, chanVars, reqVars
    <2> QED
      BY <2>1, PlaceFrame, Zenon
  <1> QED
    BY <1>1, <1>2, Zenon

\* The first two layers are an invariant of the specification.
THEOREM PlaceInvariant == Spec => [](StagesInv /\ PlaceInv)
  <1>1. StagesInv /\ PlaceInv /\ [Next]_vars => PlaceInv'
    <2> SUFFICES ASSUME StagesInv, PlaceInv, [Next]_vars PROVE PlaceInv'
      OBVIOUS
    <2>1. CASE UNCHANGED vars
      BY <2>1, PlaceFrame, Zenon DEF vars, svcVars, chanVars, reqVars
    <2> QED
      BY <2>1, PlaceHandler, PlaceWorker, PlaceService, Zenon DEF Next, Stopped
  <1> QED
    BY <1>1, PlaceInit, StagesInvariant, PTL DEF Spec

\* Nothing is lost and nothing handled twice: every message put on the input
\* channel is queued once, held by one worker, or ended by one terminal event.
THEOREM NothingLost == Spec => []EveryMessageInOnePlace
  BY PlaceInvariant, PTL DEF PlaceInv

\* When boundFlow.stop has returned, every accepted message has ended: shutdown
\* drains the channel and never drops what is queued.
THEOREM ShutdownDrains == Spec => []DrainedMeansEnded
  <1>1. StagesInv /\ PlaceInv => DrainedMeansEnded
    <2> SUFFICES ASSUME StagesInv, PlaceInv, svc \in Closed \ {"drain"}, NEW r \in accepted
                 PROVE  Ended(r)
      BY Zenon DEF DrainedMeansEnded, Closed
    <2>1. \A w \in Workers : wk[w] = "exited" /\ in = <<>>
      BY Zenon DEF StagesInv, StopStages
    <2>2. r \in Requests
      BY Zenon DEF StagesInv, TypeOK
    <2>3. ~Queued(r) /\ ~Held(r)
      BY <2>1, WorkersAssumption DEF Queued, Held, Holding
    <2> QED
      BY <2>2, <2>3, Zenon DEF PlaceInv, EveryMessageInOnePlace
  <1> QED
    BY <1>1, PlaceInvariant, PTL

-----------------------------------------------------------------------------
(* Layer 3: what the handlers are told.                                    *)

OutcomeInv == NoParkedLeak /\ Carried /\ AnswersOwnOutcome

\* writeResult answers different outcomes differently, and differently from every
\* answer a handler gives without an outcome.
LEMMA ResponsesDiffer ==
    /\ \A j, k \in Kinds : \A a \in ResponseTo[j] : a \in ResponseTo[k] => j = k
    /\ \A k \in Kinds : \A a \in ResponseTo[k] : a \notin {"badBody", "buildFailed", "unavailable", "timeout", "none"}
  BY DEF ResponseTo, Kinds

\* At the start nobody waits and nothing was answered.
LEMMA OutcomeInit == Init => OutcomeInv
  <1> SUFFICES ASSUME Init PROVE OutcomeInv
    OBVIOUS
  <1>1. NoParkedLeak
    BY Zenon DEF Init, NoParkedLeak
  <1>2. Carried
    BY Zenon DEF Init, Carried, Ended
  <1>3. AnswersOwnOutcome
    BY NoneAssumption, ResponseToType, Zenon DEF Init, AnswersOwnOutcome
  <1> QED
    BY <1>1, <1>2, <1>3, Zenon DEF OutcomeInv

\* Steps of the request handlers keep the third layer.
LEMMA OutcomeHandler ==
    ASSUME StagesInv, PlaceInv, OutcomeInv, NEW r \in Requests, Arrive(r) \/ Handler(r) \/ Disconnect(r)
    PROVE  OutcomeInv'
  <1>0. /\ req \in [Requests -> ReqPoints] /\ resp \in [Requests -> Responses \cup {None}]
        /\ reply \in [Requests -> Kinds \cup {None}]
    BY Zenon DEF StagesInv, TypeOK
  <1>1. UNCHANGED <<svc, subscribed, terminal, msg, wk>>
    BY Zenon
    DEF Arrive, Handler, ReadBody, AcquireSend, BuildMessage, Send, SendAborted, ReleaseSend,
        AwaitReply, AwaitTimeout, AwaitClientGone, AwaitConnDone, Disconnect, svcVars, connVars,
        workerVars
  <1> DEFINE Parked == {"sending", "release", "abort", "await"}
  <1>2. /\ \A q \in Requests \ {r} : req'[q] = req[q] /\ resp'[q] = resp[q] /\ reply'[q] = reply[q]
        /\ \/ UNCHANGED <<pending, resp, reply>> /\ (req'[r] \in Parked <=> req[r] \in Parked)
              /\ (req'[r] \in {"release", "await"} => req[r] \in {"release", "await"} \/ ~Ended(r))
           \/ /\ UNCHANGED <<resp, reply>> /\ pending' = pending \cup {r} /\ req'[r] = "sending"
           \/ /\ req'[r] = "done" /\ pending' = pending \ {r} /\ UNCHANGED reply
              /\ resp'[r] \in {"badBody", "buildFailed", "unavailable", "timeout", "none"}
           \/ /\ req'[r] = "done" /\ pending' = pending \ {r}
              /\ reply[r] # None /\ resp'[r] \in ResponseTo[reply[r]] /\ reply'[r] = None
    <2>1. CASE Arrive(r) \/ Disconnect(r)
      BY <1>0, <2>1, Zenon DEF Arrive, Disconnect, Goto, tableVars
    <2>2. CASE ReadBody(r)
      BY <1>0, <2>2, Zenon DEF ReadBody, Finish, Goto
    <2>3. CASE AcquireSend(r)
      BY <1>0, <2>3, Zenon DEF AcquireSend, Finish, Goto
    <2>4. CASE BuildMessage(r)
      BY <1>0, <2>4, Zenon DEF BuildMessage, Finish, Goto
    <2>5. CASE Send(r)
      <3>1. ~Ended(r)
        BY <2>5, Zenon DEF Send, PlaceInv, InHand, EveryMessageInOnePlace
      <3> QED
        BY <1>0, <2>5, <3>1, Zenon DEF Send, Goto, tableVars
    <2>6. CASE SendAborted(r)
      BY <1>0, <2>6, Zenon DEF SendAborted, Goto, tableVars
    <2>7. CASE ReleaseSend(r)
      BY <1>0, <2>7, Zenon DEF ReleaseSend, Finish, Goto
    <2>8. CASE AwaitReply(r)
      BY <1>0, <2>8 DEF AwaitReply, Finish, Goto
    <2>9. CASE AwaitTimeout(r) \/ AwaitClientGone(r) \/ AwaitConnDone(r)
      BY <1>0, <2>9, Zenon DEF AwaitTimeout, AwaitClientGone, AwaitConnDone, Finish, Goto
    <2> QED
      BY <2>1, <2>2, <2>3, <2>4, <2>5, <2>6, <2>7, <2>8, <2>9, ZenonT(30) DEF Handler
  <1>3. NoParkedLeak'
    BY <1>2, Zenon DEF OutcomeInv, NoParkedLeak
  <1>4. Carried'
    <2>1. \A q \in Requests : reply'[q] # None => terminal'[q] = <<reply'[q]>>
      BY <1>1, <1>2, Zenon DEF OutcomeInv, Carried
    <2>2. ASSUME NEW q \in Requests, req'[q] \in {"release", "await"}, Ended(q)',
                 \A w \in Workers : ~(msg'[w] = q /\ wk'[w] \in Telling)
          PROVE  reply'[q] # None
      <3>1. Ended(q) /\ \A w \in Workers : ~(msg[w] = q /\ wk[w] \in Telling)
        BY <1>1, <2>2, Zenon DEF Ended
      <3> QED
        BY <1>2, <2>2, <3>1, Zenon DEF OutcomeInv, Carried
    <2> QED
      BY <1>1, <2>1, <2>2, Zenon DEF OutcomeInv, Carried
  <1>5. AnswersOwnOutcome'
    <2> SUFFICES ASSUME NEW q \in Requests, NEW k \in Kinds, resp'[q] \in ResponseTo[k]
                 PROVE  terminal'[q] = <<k>>
      BY Zenon DEF AnswersOwnOutcome
    <2>1. CASE resp'[q] = resp[q]
      BY <1>1, <2>1, Zenon DEF OutcomeInv, AnswersOwnOutcome
    <2>2. CASE q = r /\ reply[r] # None /\ resp'[r] \in ResponseTo[reply[r]]
      <3>1. reply[r] \in Kinds /\ terminal[r] = <<reply[r]>>
        BY <1>0, <2>2, Zenon DEF OutcomeInv, Carried
      <3>2. k = reply[r]
        BY <2>2, <3>1, ResponsesDiffer, Zenon
      <3> QED
        BY <1>1, <2>2, <3>1, <3>2, Zenon
    <2>3. CASE q = r /\ resp'[r] \in {"badBody", "buildFailed", "unavailable", "timeout", "none"}
      BY <2>3, ResponsesDiffer, Zenon
    <2> QED
      BY <1>2, <2>1, <2>2, <2>3, Zenon
  <1> QED
    BY <1>3, <1>4, <1>5, Zenon DEF OutcomeInv

\* Steps of the workers keep the third layer: the terminal event of a message
\* reaches the reply channel that was parked before the message was sent.
LEMMA OutcomeWorker ==
    ASSUME StagesInv, PlaceInv, OutcomeInv, NEW w \in Workers, Worker(w)
    PROVE  OutcomeInv'
  <1> DEFINE r == msg[w]
             Tells(v, q) == msg[v] = q /\ wk[v] \in Telling
  <1>0. /\ wk \in [Workers -> WorkerPoints] /\ msg \in [Workers -> Requests \cup {None}]
        /\ kind \in [Workers -> Kinds \cup {None}] /\ terminal \in [Requests -> Seq(Kinds)]
        /\ reply \in [Requests -> Kinds \cup {None}] /\ None \notin Requests
    BY NoneAssumption, Zenon DEF StagesInv, TypeOK
  <1>1. UNCHANGED <<svc, subscribed, req, resp, pending>>
    BY Zenon
    DEF Worker, Receive, WorkerExit, ProcessRoot, ProcessErrorPath, PublishTerminal, LookupReply,
        DeliverReply, svcVars, connVars, tableVars, reqVars
  <1>2. NoParkedLeak'
    BY <1>1, Zenon DEF OutcomeInv, NoParkedLeak
  <1>3. CASE Receive(w) \/ WorkerExit(w) \/ ProcessRoot(w) \/ ProcessErrorPath(w)
    <2>1. UNCHANGED <<reply, terminal>>
      BY <1>3, Zenon DEF Receive, WorkerExit, ProcessRoot, ProcessErrorPath, tableVars
    <2>2. wk[w] \notin Telling /\ wk'[w] \notin Telling
          /\ \A v \in Workers \ {w} : wk'[v] = wk[v] /\ msg'[v] = msg[v]
      BY <1>0, <1>3, Zenon DEF Receive, WorkerExit, ProcessRoot, ProcessErrorPath, Telling
    <2>3. \A v \in Workers, q \in Requests : Tells(v, q)' <=> Tells(v, q)
      BY <2>2, Zenon
    <2>4. Carried'
      BY <1>1, <2>1, <2>3 DEF OutcomeInv, Carried, Ended
    <2>5. AnswersOwnOutcome'
      BY <1>1, <2>1, Zenon DEF OutcomeInv, AnswersOwnOutcome
    <2> QED
      BY <1>2, <2>4, <2>5, Zenon DEF OutcomeInv
  <1>4. CASE PublishTerminal(w)
    <2>1. subscribed
      BY <1>4, Zenon
      DEF PublishTerminal, OutcomeInv, Carried, PlaceInv, InHand, StagesInv, StopStages, Closed
    <2>2. /\ wk[w] = "publish" /\ wk' = [wk EXCEPT ![w] = "lookup"] /\ UNCHANGED <<msg, kind, reply>>
          /\ terminal' = [terminal EXCEPT ![r] = Append(terminal[r], kind[w])]
      BY <1>4, <2>1, Zenon DEF PublishTerminal, tableVars
    <2>3. r \in Requests /\ ~Ended(r)
      BY <1>0, <2>2, Zenon DEF PlaceInv, InHand, EveryMessageInOnePlace, Held, Holding
    <2>4. Tells(w, r)' /\ \A v \in Workers, q \in Requests : q # r => (Tells(v, q)' <=> Tells(v, q))
      BY <1>0, <2>2, Zenon DEF Telling
    <2>5. \A q \in Requests : q # r => terminal'[q] = terminal[q]
      BY <1>0, <2>2, Zenon
    <2>6. reply[r] = None
      BY <2>3 DEF OutcomeInv, Carried, Ended
    <2>7. Carried'
      <3>1. \A q \in Requests : reply'[q] # None => terminal'[q] = <<reply'[q]>>
        BY <2>2, <2>5, <2>6, Zenon DEF OutcomeInv, Carried
      <3>2. ASSUME NEW q \in Requests, req'[q] \in {"release", "await"}, Ended(q)',
                   \A v \in Workers : ~Tells(v, q)'
            PROVE  reply'[q] # None
        <4>0. q # r
          BY <2>2, <2>4, <3>2, Zenon
        <4>1. Ended(q) /\ \A v \in Workers : ~Tells(v, q)
          BY <2>4, <2>5, <3>2, <4>0, SMTT(30) DEF Ended
        <4> QED
          BY <1>1, <2>2, <3>2, <4>1, ZenonT(30) DEF OutcomeInv, Carried
      <3> QED
        BY <1>1, <3>1, <3>2, ZenonT(30) DEF OutcomeInv, Carried
    <2>8. AnswersOwnOutcome'
      <3> SUFFICES ASSUME NEW q \in Requests, NEW k \in Kinds, resp'[q] \in ResponseTo[k]
                   PROVE  terminal'[q] = <<k>>
        BY Zenon DEF AnswersOwnOutcome
      <3>1. terminal[q] = <<k>>
        BY <1>1 DEF OutcomeInv, AnswersOwnOutcome
      <3>2. q # r
        <4>1. <<k>> # <<>>
          OBVIOUS
        <4> QED
          BY <2>3, <3>1, <4>1, Zenon DEF Ended
      <3> QED
        BY <2>5, <3>1, <3>2, Zenon
    <2> QED
      BY <1>2, <2>7, <2>8, Zenon DEF OutcomeInv
  <1>5. CASE LookupReply(w)
    <2>1. wk[w] = "lookup" /\ r \in Requests /\ UNCHANGED <<reply, terminal>>
      BY <1>0, <1>5, Zenon DEF LookupReply, tableVars, PlaceInv, InHand, Telling
    <2>2. AnswersOwnOutcome'
      BY <1>1, <2>1, SMTT(30) DEF OutcomeInv, AnswersOwnOutcome
    <2>3. CASE wk' = [wk EXCEPT ![w] = "deliver"] /\ UNCHANGED <<msg, kind>>
      <3>1. \A v \in Workers, q \in Requests : Tells(v, q)' <=> Tells(v, q)
        BY <1>0, <2>1, <2>3, Zenon DEF Telling
      <3>2. Carried'
        <4>1. \A q \in Requests : reply'[q] # None => terminal'[q] = <<reply'[q]>>
          BY <2>1 DEF OutcomeInv, Carried
        <4>2. ASSUME NEW q \in Requests, req'[q] \in {"release", "await"}, Ended(q)',
                     \A v \in Workers : ~Tells(v, q)'
              PROVE  reply'[q] # None
          <5>1. Ended(q) /\ \A v \in Workers : ~Tells(v, q)
            BY <2>1, <3>1, <4>2, SMTT(30) DEF Ended
          <5> QED
            BY <1>1, <2>1, <4>2, <5>1, Zenon DEF OutcomeInv, Carried
        <4> QED
          BY <1>1, <4>1, <4>2, Zenon DEF OutcomeInv, Carried
      <3> QED
        BY <1>2, <2>2, <3>2, Zenon DEF OutcomeInv
    <2>4. CASE r \notin pending /\ Rest(w)
      <3>1. \A v \in Workers, q \in Requests : q # r => (Tells(v, q)' <=> Tells(v, q))
        BY <1>0, <2>1, <2>4, Zenon DEF Rest, Telling
      <3>2. req[r] \notin {"release", "await"}
        BY <2>1, <2>4, Zenon DEF OutcomeInv, NoParkedLeak
      <3>3. Carried'
        <4>1. \A q \in Requests : reply'[q] # None => terminal'[q] = <<reply'[q]>>
          BY <2>1, Zenon DEF OutcomeInv, Carried
        <4>2. ASSUME NEW q \in Requests, req'[q] \in {"release", "await"}, Ended(q)',
                     \A v \in Workers : ~Tells(v, q)'
              PROVE  reply'[q] # None
          <5>0. q # r
            BY <1>1, <3>2, <4>2, Zenon
          <5>1. Ended(q) /\ \A v \in Workers : ~Tells(v, q)
            BY <2>1, <3>1, <4>2, <5>0 DEF Ended
          <5> QED
            BY <1>1, <2>1, <4>2, <5>1, Zenon DEF OutcomeInv, Carried
        <4> QED
          BY <1>1, <4>1, <4>2, Zenon DEF OutcomeInv, Carried
      <3> QED
        BY <1>2, <2>2, <3>3, Zenon DEF OutcomeInv
    <2> QED
      BY <1>5, <2>3, <2>4, Zenon DEF LookupReply
  <1>6. CASE DeliverReply(w)
    <2>1. /\ wk[w] = "deliver" /\ Rest(w) /\ UNCHANGED terminal
          /\ reply' = [reply EXCEPT ![r] = IF reply[r] = None THEN kind[w] ELSE reply[r]]
      BY <1>6 DEF DeliverReply
    <2>2. r \in Requests /\ terminal[r] = <<kind[w]>> /\ kind[w] # None
      BY <1>0, <2>1, Zenon DEF PlaceInv, InHand, Telling, StagesInv, StopStages
    <2>3. reply'[r] # None /\ terminal'[r] = <<reply'[r]>>
      BY <1>0, <2>1, <2>2, Zenon DEF OutcomeInv, Carried
    <2>4. \A q \in Requests : q # r => reply'[q] = reply[q]
      BY <1>0, <2>1, Zenon
    <2>5. \A v \in Workers, q \in Requests : q # r => (Tells(v, q)' <=> Tells(v, q))
      BY <1>0, <2>1, Zenon DEF Rest, Telling
    <2>6. Carried'
      <3>1. \A q \in Requests : reply'[q] # None => terminal'[q] = <<reply'[q]>>
        BY <2>1, <2>3, <2>4, Zenon DEF OutcomeInv, Carried
      <3>2. ASSUME NEW q \in Requests, q # r, req'[q] \in {"release", "await"}, Ended(q)',
                   \A v \in Workers : ~Tells(v, q)'
            PROVE  reply'[q] # None
        <4>1. Ended(q) /\ \A v \in Workers : ~Tells(v, q)
          BY <2>1, <2>5, <3>2, Zenon DEF Ended
        <4> QED
          BY <1>1, <2>4, <3>2, <4>1, Zenon DEF OutcomeInv, Carried
      <3> QED
        BY <1>1, <2>3, <3>1, <3>2, Zenon DEF OutcomeInv, Carried
    <2>7. AnswersOwnOutcome'
      BY <1>1, <2>1, Zenon DEF OutcomeInv, AnswersOwnOutcome
    <2> QED
      BY <1>2, <2>6, <2>7, Zenon DEF OutcomeInv
  <1> QED
    BY <1>3, <1>4, <1>5, <1>6, Zenon DEF Worker

\* Steps of Service.Run keep the third layer: it leaves the event bus only after
\* the workers have gone.
LEMMA OutcomeService ==
    ASSUME StagesInv, PlaceInv, OutcomeInv, Service \/ Cancel
    PROVE  OutcomeInv'
  <1>1. UNCHANGED <<pending, reply, req, resp, terminal, msg>>
    BY Zenon
    DEF Service, Cancel, StartConnector, StartFlow, StopRefuse, StopSignal, StopWaitSends, CloseIn,
        WaitWorkers, CloseConn, Unsubscribe, CloseListener, Shutdown, tableVars, reqVars, workerVars
  <1>2. \A w \in Workers : wk'[w] \in Telling <=> wk[w] \in Telling
    <2>1. CASE StartFlow
      BY <2>1, Zenon DEF StartFlow, Step, PlaceInv, InHand, Telling
    <2>2. CASE ~StartFlow
      BY <2>2, Zenon
      DEF Service, Cancel, StartConnector, StopRefuse, StopSignal, StopWaitSends, CloseIn,
          WaitWorkers, CloseConn, Unsubscribe, CloseListener, Shutdown, workerVars
    <2> QED
      BY <2>1, <2>2, Zenon
  <1>3. svc' \notin {"init", "shutdown", "waitHandlers", "stopped"} => subscribed'
    BY Zenon
    DEF OutcomeInv, Carried, Service, Cancel, Step, StartConnector, StartFlow, StopRefuse,
        StopSignal, StopWaitSends, CloseIn, WaitWorkers, CloseConn, Unsubscribe, CloseListener,
        Shutdown, connVars
  <1> QED
    BY <1>1, <1>2, <1>3, Zenon DEF OutcomeInv, NoParkedLeak, Carried, AnswersOwnOutcome, Ended

AllInv == StagesInv /\ PlaceInv /\ OutcomeInv

\* The three layers together are an invariant of the specification.
THEOREM AllInvariant == Spec => []AllInv
  <1>1. StagesInv /\ PlaceInv /\ OutcomeInv /\ [Next]_vars => OutcomeInv'
    <2> SUFFICES ASSUME StagesInv, PlaceInv, OutcomeInv, [Next]_vars PROVE OutcomeInv'
      OBVIOUS
    <2>1. CASE UNCHANGED vars
      BY <2>1, Zenon
      DEF OutcomeInv, NoParkedLeak, Carried, AnswersOwnOutcome, Ended, vars, svcVars, connVars,
          tableVars, workerVars, reqVars
    <2> QED
      BY <2>1, OutcomeHandler, OutcomeWorker, OutcomeService, Zenon DEF Next, Stopped
  <1> QED
    BY <1>1, OutcomeInit, PlaceInvariant, PTL DEF Spec, AllInv

\* A parked handler never misses its outcome.
THEOREM RepliesArrive == Spec => []NoMissedReply
  <1>1. AllInv => NoMissedReply
    BY Zenon DEF AllInv, OutcomeInv, Carried, NoMissedReply
  <1> QED
    BY <1>1, AllInvariant, PTL

\* A handler answers with the outcome of its own message and of no other.
THEOREM AnswersMatch == Spec => []AnswersOwnOutcome
  BY AllInvariant, PTL DEF AllInv, OutcomeInv

\* The connector's table holds exactly the requests between track and forget.
THEOREM TableBounded == Spec => []NoParkedLeak
  BY AllInvariant, PTL DEF AllInv, OutcomeInv

-----------------------------------------------------------------------------
(* Layer 4: the flow implements MessagePipeline.                           *)

\* A step that leaves the channel's life and the message history alone is a
\* stuttering step of the pipeline.
LEMMA PipelineStutter ==
    ASSUME UNCHANGED <<accepted, terminal>>, Phase' = Phase
    PROVE  UNCHANGED Pipeline!pipelineVars
  BY Zenon DEF Pipeline!pipelineVars, Outcome

\* A handler's send is the pipeline's Accept; its other steps are invisible.
LEMMA PipelineHandler ==
    ASSUME StagesInv, PlaceInv, NEW r \in Requests, Arrive(r) \/ Handler(r) \/ Disconnect(r)
    PROVE  [Pipeline!Next]_Pipeline!pipelineVars
  <1>1. UNCHANGED <<svc, inClosed, terminal>>
    BY Zenon
    DEF Arrive, Handler, ReadBody, AcquireSend, BuildMessage, Send, SendAborted, ReleaseSend,
        AwaitReply, AwaitTimeout, AwaitClientGone, AwaitConnDone, Disconnect, svcVars, chanVars,
        workerVars
  <1>2. Phase' = Phase /\ Outcome' = Outcome
    BY <1>1, Zenon DEF Phase, Outcome
  <1>3. CASE Send(r)
    <2>1. r \notin accepted /\ accepted' = accepted \cup {r} /\ Phase = "open"
      BY <1>3, Zenon DEF Send, PlaceInv, InHand, Phase
    <2>2. Pipeline!Accept(r)
      BY <1>2, <2>1, Zenon DEF Pipeline!Accept
    <2> QED
      BY <2>2, Zenon DEF Pipeline!Next
  <1>4. CASE ~Send(r)
    <2>1. UNCHANGED accepted
      BY <1>4, Zenon
      DEF Arrive, Handler, ReadBody, AcquireSend, BuildMessage, SendAborted, ReleaseSend,
          AwaitReply, AwaitTimeout, AwaitClientGone, AwaitConnDone, Disconnect, chanVars
    <2> QED
      BY <1>1, <1>2, <2>1, PipelineStutter, Zenon
  <1> QED
    BY <1>3, <1>4, Zenon

\* A worker's terminal event is the pipeline's Finish.
LEMMA PipelineWorker ==
    ASSUME StagesInv, PlaceInv, NEW w \in Workers, Worker(w)
    PROVE  [Pipeline!Next]_Pipeline!pipelineVars
  <1> DEFINE r == msg[w]
  <1>1. UNCHANGED <<svc, inClosed, accepted>>
    BY Zenon
    DEF Worker, Receive, WorkerExit, ProcessRoot, ProcessErrorPath, PublishTerminal, LookupReply,
        DeliverReply, svcVars, chanVars
  <1>2. Phase' = Phase
    BY <1>1, Zenon DEF Phase
  <1>3. CASE PublishTerminal(w)
    <2>1. wk[w] = "publish" /\ terminal' = [terminal EXCEPT ![r] = Append(terminal[r], kind[w])]
      BY <1>3, Zenon DEF PublishTerminal
    <2>2. /\ r \in Requests /\ terminal[r] = <<>> /\ r \in accepted /\ kind[w] \in Kinds
          /\ terminal \in [Requests -> Seq(Kinds)]
      <3>1. /\ msg \in [Workers -> Requests \cup {None}] /\ kind \in [Workers -> Kinds \cup {None}]
            /\ terminal \in [Requests -> Seq(Kinds)]
        BY Zenon DEF StagesInv, TypeOK
      <3>2. kind[w] \in Kinds
        BY <2>1, <3>1, Zenon DEF StagesInv, StopStages
      <3>3. r \in Requests
        BY <2>1, <3>1 DEF PlaceInv, InHand, Holding
      <3>4. Held(r)
        BY <2>1, Zenon DEF Held, Holding
      <3> QED
        BY <3>1, <3>2, <3>3, <3>4 DEF PlaceInv, EveryMessageInOnePlace, Ended
    <2>3. terminal'[r] = <<kind[w]>> /\ \A q \in Requests : q # r => terminal'[q] = terminal[q]
      <3>1. Append(<<>>, kind[w]) = <<kind[w]>>
        OBVIOUS
      <3> QED
        BY <2>1, <2>2, <3>1, Zenon
    <2>4. <<kind[w]>> # <<>> /\ Head(<<kind[w]>>) = kind[w]
      OBVIOUS
    <2>5. Outcome' = [Outcome EXCEPT ![r] = kind[w]] /\ Outcome[r] = None
      BY <2>2, <2>3, <2>4, Zenon DEF Outcome
    <2>6. Pipeline!Finish(r, kind[w])
      BY <1>1, <1>2, <2>2, <2>5, Zenon DEF Pipeline!Finish
    <2>7. kind[w] \in Pipeline!Kinds
      BY <2>2, Zenon DEF Kinds, Pipeline!Kinds
    <2> QED
      BY <2>2, <2>6, <2>7, Zenon DEF Pipeline!Next
  <1>4. CASE ~PublishTerminal(w)
    <2>1. UNCHANGED terminal
      BY <1>4
      DEF Worker, Receive, WorkerExit, ProcessRoot, ProcessErrorPath, LookupReply, DeliverReply
    <2> QED
      BY <1>1, <1>2, <2>1, PipelineStutter
  <1> QED
    BY <1>3, <1>4, Zenon

\* Closing the channel is the pipeline's CloseInput, the end of the wait for the
\* workers its Drained.
LEMMA PipelineService ==
    ASSUME StagesInv, PlaceInv, StagesInv', PlaceInv', Service \/ Cancel
    PROVE  [Pipeline!Next]_Pipeline!pipelineVars
  <1>1. UNCHANGED <<accepted, terminal>>
    BY Zenon
    DEF Service, Cancel, StartConnector, StartFlow, StopRefuse, StopSignal, StopWaitSends, CloseIn,
        WaitWorkers, CloseConn, Unsubscribe, CloseListener, Shutdown, chanVars, workerVars
  <1>2. Outcome' = Outcome
    BY <1>1, Zenon DEF Outcome
  <1>3. CASE CloseIn
    <2>1. Phase = "open" /\ Phase' = "closed"
      BY <1>3, Zenon DEF CloseIn, Step, Phase, StagesInv, StopStages, Closed
    <2> QED
      BY <1>1, <1>2, <2>1, Zenon DEF Pipeline!Next, Pipeline!CloseInput
  <1>4. CASE WaitWorkers
    <2>1. Phase = "closed" /\ Phase' = "drained"
      BY <1>4, Zenon DEF WaitWorkers, Step, Phase, StagesInv, StopStages, Closed, chanVars
    <2>2. ASSUME NEW m \in accepted PROVE Outcome[m] # None
      <3>1. m \in Requests /\ terminal[m] \in Seq(Kinds)
        BY Zenon DEF StagesInv, TypeOK
      <3>2. \A w \in Workers : wk[w] = "exited" /\ in = <<>>
        BY <1>4, Zenon DEF WaitWorkers, StagesInv, StopStages
      <3>3. terminal[m] # <<>>
        <4>1. ~Held(m)
          BY <3>2, Zenon DEF Held, Holding
        <4>2. ~Queued(m)
          BY <3>2, WorkersAssumption DEF Queued
        <4> QED
          BY <3>1, <4>1, <4>2, Zenon DEF PlaceInv, EveryMessageInOnePlace, Ended
      <3>4. Head(terminal[m]) \in Kinds
        BY <3>1, <3>3
      <3> QED
        BY <3>1, <3>3, <3>4, NoneAssumption, Zenon DEF Outcome
    <2> QED
      BY <1>1, <1>2, <2>1, <2>2, Zenon DEF Pipeline!Next, Pipeline!Drained
  <1>5. CASE ~CloseIn /\ ~WaitWorkers
    <2>1. UNCHANGED inClosed /\ (inClosed => svc # "drain" /\ svc' # "drain")
      BY <1>5, Zenon
      DEF Service, Cancel, Step, StartConnector, StartFlow, StopRefuse, StopSignal, StopWaitSends,
          CloseConn, Unsubscribe, CloseListener, Shutdown, chanVars
    <2>2. Phase' = Phase
      BY <2>1, Zenon DEF Phase
    <2> QED
      BY <1>1, <2>2, PipelineStutter, Zenon
  <1> QED
    BY <1>3, <1>4, <1>5, Zenon

\* The flow refines MessagePipeline: what it accepts ends once, it accepts nothing
\* after the close, and it has stopped only when all it accepted has ended.
THEOREM FlowImplementsPipeline == Spec => ImplementsPipeline
  <1>1. Init => Pipeline!Init
    BY Zenon DEF Init, Pipeline!Init, Phase, Outcome
  <1>2. AllInv /\ AllInv' /\ [Next]_vars => [Pipeline!Next]_Pipeline!pipelineVars
    <2> SUFFICES ASSUME AllInv, AllInv', [Next]_vars PROVE [Pipeline!Next]_Pipeline!pipelineVars
      OBVIOUS
    <2> USE DEF AllInv
    <2>1. CASE UNCHANGED vars
      <3>1. Phase' = Phase /\ UNCHANGED <<accepted, terminal>>
        BY <2>1, Zenon DEF Phase, vars, svcVars, chanVars, workerVars
      <3> QED
        BY <3>1, PipelineStutter, Zenon
    <2> QED
      BY <2>1, PipelineHandler, PipelineWorker, PipelineService, Zenon DEF Next, Stopped
  <1> QED
    BY <1>1, <1>2, AllInvariant, PTL DEF Spec, ImplementsPipeline, Pipeline!Spec
=============================================================================
