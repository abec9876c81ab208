---------------------------- MODULE MessageProofs ----------------------------
(***************************************************************************)
(* Proofs about how messages reach a flow: FlowCalls, for any flows that   *)
(* call each other in any way, with any workers, buffers and depth of      *)
(* calls; QueueFlow, for any messages, any finite set of listeners, any    *)
(* workers and buffers.  In both a message is in one place at a time and   *)
(* ends once; what a caller or a listener gets is then the one outcome of  *)
(* its own message.                                                        *)
(***************************************************************************)
EXTENDS FlowCalls, MCQueues, Functions, FiniteSetTheorems, TLAPS

\* What is left of a queue of distinct messages when the first is taken.
LEMMA TakeHead ==
    ASSUME NEW S, NEW s \in Seq(S), s # <<>>, IsInjective(s)
    PROVE  /\ Head(s) \in S /\ Head(s) \in Range(s)
           /\ Tail(s) \in Seq(S) /\ IsInjective(Tail(s))
           /\ \A x : x \in Range(Tail(s)) <=> x \in Range(s) /\ x # Head(s)
  <1>1. /\ Len(s) \in Nat \ {0} /\ Head(s) = s[1] /\ DOMAIN s = 1..Len(s)
        /\ Tail(s) \in Seq(S) /\ DOMAIN Tail(s) = 1..(Len(s) - 1)
        /\ \A i \in 1..(Len(s) - 1) : Tail(s)[i] = s[i + 1]
    OBVIOUS
  <1>2. IsInjective(Tail(s))
    BY <1>1 DEF IsInjective
  <1>3. ASSUME NEW x PROVE x \in Range(Tail(s)) <=> x \in Range(s) /\ x # Head(s)
    <2>1. ASSUME x \in Range(Tail(s)) PROVE x \in Range(s) /\ x # Head(s)
      <3>1. PICK i \in 1..(Len(s) - 1) : x = Tail(s)[i]
        BY <1>1, <2>1, Zenon DEF Range
      <3>2. i + 1 \in DOMAIN s /\ 1 \in DOMAIN s /\ i + 1 # 1 /\ x = s[i + 1]
        BY <1>1, <3>1
      <3> QED
        BY <1>1, <3>2, Zenon DEF IsInjective, Range
    <2>2. ASSUME x \in Range(s), x # Head(s) PROVE x \in Range(Tail(s))
      <3>1. PICK i \in 1..Len(s) : x = s[i]
        BY <1>1, <2>2 DEF Range
      <3>2. i - 1 \in 1..(Len(s) - 1) /\ (i - 1) + 1 = i
        BY <1>1, <2>2, <3>1
      <3>3. x = Tail(s)[i - 1] /\ i - 1 \in DOMAIN Tail(s)
        BY <1>1, <3>1, <3>2, Zenon
      <3> QED
        BY <3>3, Zenon DEF Range
    <2> QED
      BY <2>1, <2>2, Zenon
  <1>4. Head(s) \in S /\ Head(s) \in Range(s)
    BY <1>1 DEF Range
  <1> QED
    BY <1>1, <1>2, <1>3, <1>4, Zenon

\* A queue of distinct messages to which a new one is added.
LEMMA AddLast ==
    ASSUME NEW S, NEW s \in Seq(S), NEW y \in S, IsInjective(s), y \notin Range(s)
    PROVE  /\ Append(s, y) \in Seq(S) /\ IsInjective(Append(s, y))
           /\ \A x : x \in Range(Append(s, y)) <=> x \in Range(s) \/ x = y
  <1>1. /\ Append(s, y) \in Seq(S) /\ Len(s) \in Nat
        /\ DOMAIN s = 1..Len(s) /\ DOMAIN Append(s, y) = 1..(Len(s) + 1)
        /\ \A i \in 1..Len(s) : Append(s, y)[i] = s[i]
        /\ Append(s, y)[Len(s) + 1] = y
    OBVIOUS
  <1>2. \A i \in 1..Len(s) : s[i] # y
    BY <1>1, Zenon DEF Range
  <1>3. IsInjective(Append(s, y))
    BY <1>1, <1>2 DEF IsInjective
  <1>4. ASSUME NEW x PROVE x \in Range(Append(s, y)) <=> x \in Range(s) \/ x = y
    <2>1. 1..(Len(s) + 1) = 1..Len(s) \cup {Len(s) + 1}
      BY <1>1
    <2> QED
      BY <1>1, <2>1 DEF Range
  <1> QED
    BY <1>1, <1>3, <1>4, Zenon

-----------------------------------------------------------------------------
(* Flow references: where a message is.                                    *)

Assumption == FlowsAssumption /\ TargetAssumption /\ BoundsAssumption /\ NoneAssumption

Busy == {"run", "calling", "publish"}

Types ==
    /\ in \in [FlowSet -> Seq(Messages)]
    /\ call \in [Messages -> {"none", "send", "await", "returned"}]
    /\ ret \in [Messages -> Kinds \cup Refusals \cup {"sent", None}]
    /\ reply \in [Messages -> Kinds \cup {None}]
    /\ wk \in [Crew -> {"unborn", "idle", "run", "calling", "publish", "exited"}]
    /\ msg \in [Crew -> Messages \cup {None}]
    /\ kind \in [Crew -> Kinds \cup {None}]
    /\ terminal \in [Messages -> Seq(Kinds)]

\* What a busy worker holds.
CrewOK ==
    \A v \in Crew :
        /\ wk[v] \in Busy => msg[v] \in Messages
        /\ wk[v] = "calling" => Sub(msg[v]) \in Messages
        /\ wk[v] = "publish" => kind[v] \in Kinds

Sent(m) == call[m] \notin {"none", "send"}
Waiting(m) == \E g \in FlowSet : m \in Range(in[g])
Held(m) == \E v \in Crew : wk[v] \in Busy /\ msg[v] = m
Ended(m) == terminal[m] # <<>>

\* The places exclude each other ...
OnePlace(m) ==
    /\ ~Sent(m) => ~Waiting(m) /\ ~Held(m) /\ ~Ended(m)
    /\ Waiting(m) => ~Held(m) /\ ~Ended(m)
    /\ Held(m) => ~Ended(m)

\* ... and hold a message once.
OnceIn ==
    /\ \A g \in FlowSet : IsInjective(in[g])
    /\ \A g, h \in FlowSet : \A m \in Messages : m \in Range(in[g]) /\ m \in Range(in[h]) => g = h
OnceHeld == \A v, u \in Crew : wk[v] \in Busy /\ wk[u] \in Busy /\ msg[v] = msg[u] => v = u

\* Replies and results are the outcome of their message.
Outcomes ==
    \A m \in Messages :
        /\ reply[m] # None => terminal[m] = <<reply[m]>>
        /\ ret[m] \in Kinds => terminal[m] = <<ret[m]>>

CallInv ==
    /\ Types /\ CrewOK /\ OnceIn /\ OnceHeld /\ Outcomes
    /\ \A m \in Messages : OnePlace(m)

\* Before the first flow is started.
LEMMA CallInit == ASSUME Assumption, Init PROVE CallInv
  <1>0. <<>> \in Seq(Messages) /\ <<>> \in Seq(Kinds) /\ IsInjective(<<>>) /\ Range(<<>>) = {}
    BY DEF IsInjective, Range
  <1>1. Types
    BY <1>0 DEF Init, Types
  <1>2. CrewOK /\ OnceHeld /\ OnceIn
    BY <1>0, Zenon DEF Init, CrewOK, OnceIn, OnceHeld, Busy
  <1>3. Outcomes
    BY Zenon DEF Init, Outcomes, Assumption, NoneAssumption
  <1>4. \A m \in Messages : ~Waiting(m) /\ ~Held(m) /\ ~Ended(m)
    BY <1>0, Zenon DEF Init, Waiting, Held, Ended, Busy
  <1> QED
    BY <1>1, <1>2, <1>3, <1>4, Zenon DEF CallInv, OnePlace

-----------------------------------------------------------------------------
(* Steps that move no message.                                             *)

\* Workers may change what they do with the message they hold, and callers what
\* they wait for, as long as nobody begins anew.
LEMMA Moves ==
    ASSUME CallInv, Types', CrewOK', Outcomes', UNCHANGED <<in, msg, terminal>>,
           \A m \in Messages : Sent(m) => Sent(m)',
           \A v \in Crew : wk'[v] \in Busy => wk[v] \in Busy
    PROVE  CallInv'
  <1>1. OnceIn' /\ OnceHeld'
    BY Zenon DEF CallInv, OnceIn, OnceHeld
  <1>2. \A m \in Messages : OnePlace(m)'
    BY Zenon DEF CallInv, OnePlace, Waiting, Held, Ended
  <1> QED
    BY <1>1, <1>2, Zenon DEF CallInv

\* Call and Send return for m; its reply may be taken.
LEMMA Returning ==
    ASSUME CallInv, NEW m \in Messages, NEW r \in Refusals \cup {"sent"} \cup Kinds, Returned(m, r),
           r \in Kinds => terminal[m] = <<r>>,
           reply' = reply \/ reply' = [reply EXCEPT ![m] = None],
           UNCHANGED <<in, msg, kind, terminal>>,
           Types', CrewOK', \A v \in Crew : wk'[v] \in Busy => wk[v] \in Busy
    PROVE  CallInv'
  <1>1. Types
    BY Zenon DEF CallInv
  <1>2. Outcomes'
    BY <1>1 DEF CallInv, Outcomes, Returned, Types
  <1>3. \A n \in Messages : Sent(n) => Sent(n)'
    BY <1>1 DEF Sent, Returned, Types
  <1> QED
    BY <1>2, <1>3, Moves, Zenon

\* A message is put on a channel of flow g by the call that sends it.
LEMMA Putting ==
    ASSUME CallInv, NEW m \in Messages, NEW g \in FlowSet, ~Sent(m), Sent(m)',
           in' = [in EXCEPT ![g] = Append(@, m)],
           \A n \in Messages \ {m} : call'[n] = call[n] /\ ret'[n] = ret[n],
           ret'[m] \notin Kinds \/ ret'[m] = ret[m],
           call' \in [Messages -> {"none", "send", "await", "returned"}],
           ret' \in [Messages -> Kinds \cup Refusals \cup {"sent", None}],
           UNCHANGED <<reply, wk, msg, kind, terminal>>
    PROVE  CallInv'
  <1>1. Types /\ in[g] \in Seq(Messages) /\ IsInjective(in[g]) /\ ~Waiting(m) /\ ~Held(m) /\ ~Ended(m)
    BY Zenon DEF CallInv, Types, OnceIn, OnePlace
  <1>2. m \notin Range(in[g])
    BY <1>1, Zenon DEF Waiting
  <1>3. /\ in'[g] \in Seq(Messages) /\ IsInjective(in'[g])
        /\ \A x : x \in Range(in'[g]) <=> x \in Range(in[g]) \/ x = m
    BY <1>1, <1>2, AddLast DEF Types
  <1>4. \A h \in FlowSet \ {g} : in'[h] = in[h]
    BY <1>1, Zenon DEF Types
  <1>5. Types'
    BY <1>1, <1>3, Zenon DEF Types
  <1>6. OnceIn'
    BY <1>1, <1>3, <1>4 DEF CallInv, OnceIn, Waiting
  <1>7. CrewOK' /\ OnceHeld' /\ Outcomes'
    BY DEF CallInv, CrewOK, OnceHeld, Outcomes
  <1>8. ASSUME NEW n \in Messages PROVE OnePlace(n)'
    <2>1. Waiting(n)' => Waiting(n) \/ n = m
      BY <1>3, <1>4, Zenon DEF Waiting
    <2>2. (Held(n)' <=> Held(n)) /\ (Ended(n)' <=> Ended(n))
      BY Zenon DEF Held, Ended
    <2>3. n # m => (Sent(n)' <=> Sent(n))
      BY Zenon DEF Sent
    <2> QED
      BY <1>1, <2>1, <2>2, <2>3, Zenon DEF CallInv, OnePlace
  <1> QED
    BY <1>5, <1>6, <1>7, <1>8, Zenon DEF CallInv

-----------------------------------------------------------------------------
(* flowRegistry.Call and Send.                                             *)

\* A sub-message is created for a flow (Begin).
LEMMA BeginKeeps ==
    ASSUME CallInv, NEW m \in Messages, NEW f, Begin(m, f), UNCHANGED <<in, msg, kind, terminal>>,
           wk' \in [Crew -> {"unborn", "idle", "run", "calling", "publish", "exited"}],
           CrewOK', \A v \in Crew : wk'[v] \in Busy => wk[v] \in Busy
    PROVE  CallInv'
  <1>1. Types /\ reply' = reply
    BY Zenon DEF CallInv, Begin
  <1>2. CASE Returned(m, "unregistered")
    <2>1. Types'
      BY <1>1, <1>2, Zenon DEF Types, Returned, Refusals
    <2>2. "unregistered" \in Refusals /\ "unregistered" \notin Kinds
      BY Zenon DEF Refusals, Kinds
    <2> QED
      BY <1>1, <1>2, <2>1, <2>2, Returning, Zenon
  <1>3. CASE call[m] = "none" /\ call' = [call EXCEPT ![m] = "send"] /\ ret' = ret
    <2>1. Types' /\ Outcomes'
      BY <1>1, <1>3, Zenon DEF Types, CallInv, Outcomes
    <2>2. \A n \in Messages : Sent(n) => Sent(n)'
      BY <1>1, <1>3, Zenon DEF Sent, Types
    <2> QED
      BY <2>1, <2>2, Moves, Zenon
  <1> QED
    BY <1>2, <1>3, Zenon DEF Begin

\* A call sends its message, is refused, or stops waiting.
LEMMA CallKeeps ==
    ASSUME CallInv, NEW m \in Messages, NEW f,
           SendTo(m, f) \/ SendRefused(m, f) \/ AwaitEnds(m), UNCHANGED wkVars
    PROVE  CallInv'
  <1>1. Types /\ CrewOK
    BY Zenon DEF CallInv
  <1>2. UNCHANGED <<wk, msg, kind, terminal>> /\ CrewOK'
    BY <1>1, Zenon DEF wkVars, CrewOK
  <1>3. ASSUME NEW r \in Refusals \cup {"sent"} \cup Kinds, Returned(m, r), r \in Kinds => terminal[m] = <<r>>,
               reply' = reply \/ reply' = [reply EXCEPT ![m] = None], in' = in
        PROVE  CallInv'
    <2>1. Types'
      BY <1>1, <1>2, <1>3, Zenon DEF Types, Returned
    <2> QED
      BY <1>2, <1>3, <2>1, Returning, Zenon
  <1>4. Refusals \cap Kinds = {} /\ "sent" \notin Kinds
    BY Zenon DEF Refusals, Kinds
  <1>5. CASE SendTo(m, f)
    <2> DEFINE g == FlowOf(m, f)
    <2>1. /\ call[m] = "send" /\ reply' = reply /\ in' = [in EXCEPT ![g] = Append(@, m)]
          /\ \/ call' = [call EXCEPT ![m] = "await"] /\ ret' = ret
             \/ Returned(m, "sent")
      BY <1>5, Zenon DEF SendTo
    <2> HIDE DEF g
    <2>2. /\ ~Sent(m) /\ Sent(m)'
          /\ \A n \in Messages \ {m} : call'[n] = call[n] /\ ret'[n] = ret[n]
          /\ ret'[m] \notin Kinds \/ ret'[m] = ret[m]
          /\ call' \in [Messages -> {"none", "send", "await", "returned"}]
          /\ ret' \in [Messages -> Kinds \cup Refusals \cup {"sent", None}]
      BY <1>1, <1>4, <2>1, Zenon DEF Sent, Types, Returned
    <2>3. CASE g \in FlowSet
      BY <1>2, <2>1, <2>2, <2>3, Putting, Zenon
    <2>4. CASE g \notin FlowSet
      <3>1. in' = in
        BY <1>1, <2>1, <2>4 DEF Types
      <3>2. Types' /\ Outcomes'
        BY <1>1, <1>2, <2>1, <2>2, <3>1, ZenonT(30) DEF Types, CallInv, Outcomes
      <3>3. \A n \in Messages : Sent(n) => Sent(n)'
        BY <2>2, Zenon DEF Sent
      <3> QED
        BY <1>2, <3>1, <3>2, <3>3, Moves, Zenon
    <2> QED
      BY <2>3, <2>4, Zenon
  <1>6. CASE SendRefused(m, f)
    <2>1. PICK r \in {"gone", "cancelled"} : Returned(m, r) /\ reply' = reply /\ in' = in
      BY <1>6, Zenon DEF SendRefused, chanVars
    <2> QED
      BY <1>3, <1>4, <2>1, Zenon DEF Refusals
  <1>7. CASE AwaitEnds(m)
    <2>1. in' = in
      BY <1>7, Zenon DEF AwaitEnds, chanVars
    <2>2. CASE reply[m] # None /\ Returned(m, reply[m]) /\ reply' = [reply EXCEPT ![m] = None]
      <3>1. reply[m] \in Kinds /\ terminal[m] = <<reply[m]>>
        BY <1>1, <2>2, Zenon DEF Types, CallInv, Outcomes
      <3> QED
        BY <1>3, <2>1, <2>2, <3>1, Zenon
    <2>3. CASE Returned(m, "cancelled") /\ reply' = reply
      BY <1>3, <1>4, <2>1, <2>3, Zenon DEF Refusals
    <2> QED
      BY <1>7, <2>2, <2>3, Zenon DEF AwaitEnds
  <1> QED
    BY <1>5, <1>6, <1>7, Zenon

\* The steps of a caller from outside.
LEMMA RootKeeps ==
    ASSUME Assumption, CallInv, NEW c \in Roots, OutsideCall(c) \/ GiveUp(c) \/ Arrive(c)
    PROVE  CallInv'
  <1> DEFINE m == <<c, 0>>
  <1>0. m \in Messages
    BY DEF Messages, Assumption, BoundsAssumption
  <1>1. CASE OutsideCall(c)
    <2>1. \/ Begin(m, None) /\ in' = in
          \/ SendTo(m, None) \/ SendRefused(m, None) \/ AwaitEnds(m)
      BY <1>1, Zenon DEF OutsideCall, chanVars
    <2>2. UNCHANGED wkVars
      BY <1>1, Zenon DEF OutsideCall
    <2> HIDE DEF m
    <2>3. CASE Begin(m, None) /\ in' = in
      <3>1. /\ UNCHANGED <<wk, msg, kind, terminal>> /\ CrewOK'
            /\ wk' \in [Crew -> {"unborn", "idle", "run", "calling", "publish", "exited"}]
        BY <2>2, Zenon DEF wkVars, CallInv, CrewOK, Types
      <3> QED
        BY <1>0, <2>3, <3>1, BeginKeeps, Zenon
    <2> QED
      BY <1>0, <2>1, <2>2, <2>3, CallKeeps, Zenon
  <1>2. CASE GiveUp(c)
    <2>1. UNCHANGED <<in, call, ret, reply, wk, msg, kind, terminal>>
      BY <1>2, Zenon DEF GiveUp, chanVars, callVars, wkVars
    <2>2. Types' /\ CrewOK' /\ Outcomes' /\ \A n \in Messages : Sent(n) => Sent(n)'
      BY <2>1, Zenon DEF CallInv, Types, CrewOK, Outcomes, Sent
    <2> QED
      BY <2>1, <2>2, Moves, Zenon
  <1>3. CASE Arrive(c)
    <2> DEFINE g == Entry[c]
    <2>1. /\ call[m] = "none" /\ in' = [in EXCEPT ![g] = Append(@, m)]
          /\ call' = [call EXCEPT ![m] = "returned"] /\ ret' = [ret EXCEPT ![m] = "sent"]
          /\ UNCHANGED <<reply, wk, msg, kind, terminal>>
          /\ g \in FlowSet
      BY <1>3, Zenon DEF Arrive, wkVars, Assumption, TargetAssumption
    <2> HIDE DEF m, g
    <2>2. /\ ~Sent(m) /\ Sent(m)' /\ ret'[m] \notin Kinds
          /\ \A n \in Messages \ {m} : call'[n] = call[n] /\ ret'[n] = ret[n]
          /\ call' \in [Messages -> {"none", "send", "await", "returned"}]
          /\ ret' \in [Messages -> Kinds \cup Refusals \cup {"sent", None}]
      BY <1>0, <2>1, Zenon DEF CallInv, Types, Sent, Kinds
    <2> QED
      BY <1>0, <2>1, <2>2, Putting, Zenon
  <1> QED
    BY <1>1, <1>2, <1>3, Zenon

-----------------------------------------------------------------------------
(* The workers.                                                            *)

\* A worker takes the first message of its flow's channel.
LEMMA ReceiveKeeps ==
    ASSUME CallInv, NEW f \in FlowSet, NEW w \in Workers, Receive(f, w)
    PROVE  CallInv'
  <1> DEFINE v == <<f, w>>
             m == Head(in[f])
  <1>1. /\ Types /\ v \in Crew /\ in[f] \in Seq(Messages) /\ in[f] # <<>> /\ IsInjective(in[f])
        /\ wk[v] = "idle"
    BY Zenon DEF CallInv, Types, Crew, OnceIn, Receive
  <1>2. /\ m \in Messages /\ m \in Range(in[f]) /\ Tail(in[f]) \in Seq(Messages)
        /\ IsInjective(Tail(in[f]))
        /\ \A x : x \in Range(Tail(in[f])) <=> x \in Range(in[f]) /\ x # m
    BY <1>1, TakeHead, Zenon
  <1>3. /\ msg' = [msg EXCEPT ![v] = m] /\ in' = [in EXCEPT ![f] = Tail(@)]
        /\ wk' = [wk EXCEPT ![v] = "run"]
        /\ UNCHANGED <<call, ret, reply, kind, terminal>>
    BY Zenon DEF Receive, callVars
  <1> HIDE DEF v, m
  <1>4. in'[f] = Tail(in[f]) /\ \A h \in FlowSet \ {f} : in'[h] = in[h]
    BY <1>1, <1>3, Zenon DEF Types
  <1>5. /\ wk'[v] = "run" /\ msg'[v] = m
        /\ \A u \in Crew \ {v} : wk'[u] = wk[u] /\ msg'[u] = msg[u]
    BY <1>1, <1>3, Zenon DEF Types
  <1>6. Types'
    BY <1>1, <1>2, <1>3, Zenon DEF Types
  <1>7. CrewOK'
    BY <1>2, <1>3, <1>5, Zenon DEF CallInv, CrewOK, Busy
  <1>8. Waiting(m) /\ ~Held(m) /\ ~Ended(m) /\ Sent(m)
    BY <1>2, Zenon DEF Waiting, CallInv, OnePlace
  <1>9. OnceIn'
    BY <1>2, <1>4, Zenon DEF CallInv, OnceIn
  <1>10. OnceHeld'
    BY <1>5, <1>8 DEF CallInv, OnceHeld, Held
  <1>11. Outcomes'
    BY <1>3, Zenon DEF CallInv, Outcomes
  <1>12. ASSUME NEW n \in Messages PROVE OnePlace(n)'
    <2>1. Waiting(n)' => Waiting(n) /\ n # m
      BY <1>2, <1>4, Zenon DEF Waiting, CallInv, OnceIn
    <2>2. Held(n)' => Held(n) \/ n = m
      BY <1>5, Zenon DEF Held
    <2>3. (Sent(n)' <=> Sent(n)) /\ (Ended(n)' <=> Ended(n))
      BY <1>3, Zenon DEF Sent, Ended
    <2> QED
      BY <1>8, <2>1, <2>2, <2>3, Zenon DEF CallInv, OnePlace
  <1> QED
    BY <1>6, <1>7, <1>9, <1>10, <1>11, <1>12, Zenon DEF CallInv

\* A worker publishes the outcome of its message.
LEMMA PublishKeeps ==
    ASSUME Assumption, CallInv, NEW f \in FlowSet, NEW w \in Workers, Publish(f, w)
    PROVE  CallInv'
  <1> DEFINE v == <<f, w>>
             m == msg[v]
             k == kind[v]
  <1>1. Types /\ v \in Crew /\ wk[v] = "publish" /\ m \in Messages /\ k \in Kinds
    BY Zenon DEF CallInv, CrewOK, Crew, Publish, Busy
  <1>2. /\ terminal' = [terminal EXCEPT ![m] = Append(@, k)]
        /\ reply' = reply \/ reply' = [reply EXCEPT ![m] = k]
        /\ wk' = [wk EXCEPT ![v] = "idle"]
        /\ msg' = [msg EXCEPT ![v] = None] /\ kind' = [kind EXCEPT ![v] = None]
        /\ UNCHANGED <<in, call, ret>>
    BY Zenon DEF Publish, chanVars
  <1>3. Held(m) /\ ~Ended(m) /\ ~Waiting(m) /\ Sent(m) /\ terminal[m] = <<>>
    BY <1>1, Zenon DEF Held, Busy, CallInv, OnePlace, Ended
  <1>4. terminal'[m] = <<k>> /\ \A n \in Messages \ {m} : terminal'[n] = terminal[n]
    <2> HIDE DEF m, k
    <2> QED
      BY <1>1, <1>2, <1>3 DEF Types
  <1>5. \A u \in Crew \ {v} : wk'[u] = wk[u] /\ msg'[u] = msg[u] /\ kind'[u] = kind[u]
    BY <1>1, <1>2 DEF Types
  <1>6. wk'[v] = "idle"
    BY <1>1, <1>2, Zenon DEF Types
  <1>7. <<k>> \in Seq(Kinds) /\ <<k>> # <<>>
    BY <1>1
  <1>8. Types'
    <2> HIDE DEF v, m, k
    <2>1. terminal' \in [Messages -> Seq(Kinds)]
      BY <1>1, <1>2 DEF Types
    <2> QED
      BY <1>1, <1>2, <2>1 DEF Types
  <1>9. CrewOK' /\ OnceIn' /\ OnceHeld'
    <2> HIDE DEF v, m, k
    <2>1. OnceIn'
      BY <1>2, Zenon DEF CallInv, OnceIn
    <2>2. CrewOK'
      BY <1>5, <1>6 DEF CallInv, CrewOK, Busy
    <2>3. OnceHeld'
      BY <1>5, <1>6 DEF CallInv, OnceHeld, Busy
    <2> QED
      BY <2>1, <2>2, <2>3, Zenon
  <1>10. Outcomes'
    <2>1. reply[m] = None /\ ret[m] \notin Kinds
      BY <1>1, <1>3 DEF CallInv, Outcomes
    <2> HIDE DEF v, m, k
    <2>2. ASSUME NEW n \in Messages, reply'[n] # None PROVE terminal'[n] = <<reply'[n]>>
      BY <1>1, <1>2, <1>4, <2>1, <2>2 DEF CallInv, Outcomes, Types
    <2>3. ASSUME NEW n \in Messages, ret'[n] \in Kinds PROVE terminal'[n] = <<ret'[n]>>
      BY <1>2, <1>4, <2>1, <2>3, Zenon DEF CallInv, Outcomes
    <2> QED
      BY <2>2, <2>3, Zenon DEF Outcomes
  <1>11. ASSUME NEW n \in Messages PROVE OnePlace(n)'
    <2>1. Held(n)' => Held(n) /\ n # m
      BY <1>1, <1>5, <1>6 DEF Held, CallInv, OnceHeld, Busy
    <2>2. Ended(n)' => Ended(n) \/ n = m
      BY <1>4, Zenon DEF Ended
    <2>3. (Sent(n)' <=> Sent(n)) /\ (Waiting(n)' <=> Waiting(n))
      BY <1>2, Zenon DEF Sent, Waiting
    <2> QED
      BY <1>3, <2>1, <2>2, <2>3, Zenon DEF CallInv, OnePlace
  <1> QED
    BY <1>8, <1>9, <1>10, <1>11, Zenon DEF CallInv

\* The steps of a worker.
LEMMA WorkerKeeps ==
    ASSUME Assumption, CallInv, NEW f \in FlowSet, NEW w \in Workers, Worker(f, w)
    PROVE  CallInv'
  <1> DEFINE v == <<f, w>>
  <1>1. Types /\ CrewOK /\ v \in Crew
    BY Zenon DEF CallInv, Crew
  <1>2. ASSUME NEW p \in {"exited", "publish"}, wk' = [wk EXCEPT ![v] = p],
               p = "publish" => wk[v] \in Busy /\ \E k \in Kinds : kind' = [kind EXCEPT ![v] = k],
               p = "exited" => kind' = kind,
               UNCHANGED <<in, call, ret, reply, msg, terminal>>
        PROVE  CallInv'
    <2> HIDE DEF v
    <2>1. Types' /\ Outcomes' /\ \A n \in Messages : Sent(n) => Sent(n)'
      BY <1>1, <1>2, Zenon DEF Types, CallInv, Outcomes, Sent
    <2>2. \A u \in Crew : wk'[u] \in Busy => wk[u] \in Busy
      BY <1>1, <1>2, Zenon DEF Types, Busy
    <2>3. CrewOK'
      BY <1>1, <1>2 DEF Types, CrewOK, Busy
    <2> QED
      BY <1>2, <2>1, <2>2, <2>3, Moves, Zenon
  <1>3. CASE WorkerExit(f, w)
    BY <1>2, <1>3, Zenon DEF WorkerExit, chanVars, callVars
  <1>4. CASE RunToEnd(f, w) \/ RefReturns(f, w)
    <2>1. PICK k \in Kinds : kind' = [kind EXCEPT ![v] = k]
      BY <1>4, Zenon DEF RunToEnd, RefReturns
    <2> QED
      BY <1>2, <1>4, <2>1, Zenon DEF RunToEnd, RefReturns, chanVars, callVars, Busy
  <1>5. CASE RunToRef(f, w)
    <2> DEFINE s == Sub(msg[v])
    <2>1. /\ wk[v] = "run" /\ wk' = [wk EXCEPT ![v] = "calling"] /\ Begin(s, f)
          /\ UNCHANGED <<in, msg, kind, terminal>>
      BY <1>5, Zenon DEF RunToRef, chanVars
    <2>2. msg[v] \in Messages /\ msg[v][2] < MaxDepth
      BY <1>1, <1>5, <2>1, Zenon DEF CrewOK, Busy, RunToRef
    <2>3. s \in Messages
      BY <2>2 DEF Sub, Messages, Assumption, BoundsAssumption
    <2> HIDE DEF v
    <2>4. /\ wk' \in [Crew -> {"unborn", "idle", "run", "calling", "publish", "exited"}]
          /\ \A u \in Crew : wk'[u] \in Busy => wk[u] \in Busy
      BY <1>1, <2>1, Zenon DEF Types, Busy
    <2>5. CrewOK'
      BY <1>1, <2>1, <2>3, Zenon DEF Types, CrewOK, Busy
    <2> HIDE DEF s
    <2> QED
      BY <2>1, <2>3, <2>4, <2>5, BeginKeeps, Zenon
  <1>6. CASE Calling(f, w)
    <2> DEFINE s == Sub(msg[v])
    <2>1. /\ s \in Messages
          /\ SendTo(s, f) \/ SendRefused(s, f) \/ AwaitEnds(s)
          /\ UNCHANGED wkVars
      BY <1>1, <1>6, Zenon DEF Calling, CrewOK
    <2> HIDE DEF s
    <2> QED
      BY <2>1, CallKeeps, Zenon
  <1> QED
    BY <1>3, <1>4, <1>5, <1>6, ReceiveKeeps, PublishKeeps, Zenon DEF Worker

\* Starting and stopping move no message.
LEMMA ServiceKeeps ==
    ASSUME CallInv, Service \/ Cancel \/ UNCHANGED vars
    PROVE  CallInv'
  <1>1. UNCHANGED <<in, call, ret, reply, msg, kind, terminal>>
    BY Zenon
    DEF Service, StartNext, Ready, StopSource, CloseIn, WaitWorkers, Cancel, vars, chanVars,
        callVars, wkVars
  <1>2. /\ wk' \in [Crew -> {"unborn", "idle", "run", "calling", "publish", "exited"}]
        /\ \A u \in Crew : wk'[u] = wk[u] \/ wk'[u] = "idle"
    BY DEF Service, StartNext, Ready, StopSource, CloseIn, WaitWorkers, Cancel, vars, wkVars,
           CallInv, Types
  <1>3. Types' /\ CrewOK' /\ Outcomes' /\ \A n \in Messages : Sent(n) => Sent(n)'
    BY <1>1, <1>2, Zenon DEF CallInv, Types, CrewOK, Outcomes, Sent, Busy
  <1>4. \A u \in Crew : wk'[u] \in Busy => wk[u] \in Busy
    BY <1>2, Zenon DEF Busy
  <1> QED
    BY <1>1, <1>3, <1>4, Moves, Zenon

\* Whatever flows call each other, in circles too, and whenever callers give up
\* and the service stops, flowRegistry.Call returns the one outcome that was
\* published for its own sub-message.
THEOREM CallsReturnOwn == ASSUME Assumption PROVE Spec => []ReturnsOwnOutcome
  <1>1. Init => CallInv
    BY CallInit, Zenon
  <1>2. CallInv /\ [Next]_vars => CallInv'
    BY RootKeeps, WorkerKeeps, ServiceKeeps, Zenon DEF Next, Stopped
  <1>3. CallInv => ReturnsOwnOutcome
    BY Zenon DEF CallInv, Outcomes, ReturnsOwnOutcome
  <1> QED
    BY <1>1, <1>2, <1>3, PTL DEF Spec

-----------------------------------------------------------------------------
(* A caller that waits is served.                                          *)

\* The registry leaves the event bus when the last worker has gone: the workers
\* of the flows that come later in the order of the start have not begun, or
\* have exited, and stay so.
CrewAt(i, point) == \A w \in Workers : wk[<<StartOrder[i], w>>] = point

StageInv ==
    /\ svc = "starting" =>
         at \in 1..(Len(Flows) + 1) /\ \A i \in at..Len(Flows) : CrewAt(i, "unborn")
    /\ svc \in {"deregister", "close", "wait"} =>
         at \in 1..Len(Flows) /\ \A i \in (at + 1)..Len(Flows) : CrewAt(i, "exited")
    /\ svc = "stopped" => \A i \in 1..Len(Flows) : CrewAt(i, "exited")
    /\ subscribed \/ svc = "stopped"

\* A caller is in the registry's table from before its message is sent; a worker
\* that calls has a flow to call.
CallerInv ==
    /\ \A c \in Roots : call[<<c, 0>>] = "send" => <<c, 0>> \in pending
    /\ \A v \in Crew : wk[v] = "calling" =>
         /\ Target[v[1]] # None /\ call[Sub(msg[v])] # "none"
         /\ call[Sub(msg[v])] = "send" /\ v[1] \notin OneWay => Sub(msg[v]) \in pending
    /\ \A m \in Messages : call[m] = "await" =>
         m \in pending /\ (Waiting(m) \/ Held(m) \/ reply[m] # None)

ServedInv == CallInv /\ CallerInv /\ (FlowSet # {} => StageInv)

\* The order of the start names every flow, and each once.
LEMMA OrderCovers ==
    ASSUME Assumption, OrderAssumption
    PROVE  /\ \A i \in 1..Len(Flows) : \A w \in Workers : <<StartOrder[i], w>> \in Crew
           /\ \A f \in FlowSet : \E i \in 1..Len(Flows) : f = StartOrder[i]
           /\ \A i, j \in 1..Len(Flows) : StartOrder[i] = StartOrder[j] => i = j
  <1>1. DOMAIN Flows = 1..Len(Flows)
    BY DEF Assumption, FlowsAssumption
  <1> QED
    BY <1>1, Zenon DEF OrderAssumption, Crew

\* Before the first flow is started nobody waits.
LEMMA ServedInit == ASSUME Assumption, OrderAssumption, Init PROVE ServedInv
  <1>1. CallInv
    BY CallInit, Zenon
  <1>2. CallerInv
    <2>1. \A m \in Messages : call[m] = "none"
      BY Zenon DEF Init
    <2>2. \A c \in Roots : <<c, 0>> \in Messages
      BY DEF Messages, Assumption, BoundsAssumption
    <2>3. \A v \in Crew : wk[v] # "calling"
      BY Zenon DEF Init
    <2> QED
      BY <2>1, <2>2, <2>3, Zenon DEF CallerInv
  <1>3. StageInv
    <2>1. Len(Flows) \in Nat /\ svc = "starting" /\ at = 1 /\ subscribed
      BY DEF Init, Assumption, FlowsAssumption
    <2>2. \A i \in 1..Len(Flows) : CrewAt(i, "unborn")
      BY OrderCovers, Zenon DEF Init, CrewAt
    <2> QED
      BY <2>1, <2>2 DEF StageInv
  <1> QED
    BY <1>1, <1>2, <1>3, Zenon DEF ServedInv

-----------------------------------------------------------------------------
(* The service and its workers.                                            *)

\* Nobody starts or stops, and no worker begins or comes back.
LEMMA StageFrame ==
    ASSUME Assumption, OrderAssumption, StageInv, UNCHANGED <<svc, at, subscribed>>,
           \A v \in Crew : wk[v] \in {"unborn", "exited"} => wk'[v] = wk[v]
    PROVE  StageInv'
  <1>1. /\ \A i \in 1..Len(Flows) : CrewAt(i, "unborn") => CrewAt(i, "unborn")'
        /\ \A i \in 1..Len(Flows) : CrewAt(i, "exited") => CrewAt(i, "exited")'
    BY OrderCovers, Zenon DEF CrewAt
  <1>2. Len(Flows) \in Nat
    BY DEF Assumption, FlowsAssumption
  <1> QED
    BY <1>1, <1>2 DEF StageInv

\* Start and Shutdown go through the flows in their order.
LEMMA StageService ==
    ASSUME Assumption, OrderAssumption, FlowSet # {}, StageInv, Service \/ Cancel
    PROVE  StageInv'
  <1>1. Len(Flows) \in Nat \ {0}
    BY DEF Assumption, FlowsAssumption, FlowSet
  <1>2. CASE StartNext
    <2>1. /\ svc = "starting" /\ svc' = svc /\ at' = at + 1 /\ subscribed' = subscribed
          /\ at \in 1..Len(Flows)
      BY <1>1, <1>2 DEF StartNext, StageInv
    <2>2. ASSUME NEW i \in (at + 1)..Len(Flows) PROVE CrewAt(i, "unborn")'
      <3>1. i \in 1..Len(Flows) /\ i \in at..Len(Flows) /\ i # at
        BY <1>1, <2>1
      <3>2. StartOrder[i] # StartOrder[at] /\ CrewAt(i, "unborn")
        BY <2>1, <3>1, OrderCovers DEF StageInv
      <3>3. \A w \in Workers : wk'[<<StartOrder[i], w>>] = wk[<<StartOrder[i], w>>]
        BY <1>2, <3>1, <3>2, OrderCovers DEF StartNext
      <3> QED
        BY <3>2, <3>3, Zenon DEF CrewAt
    <2> QED
      BY <1>1, <2>1, <2>2 DEF StageInv
  <1>3. CASE Ready
    BY <1>1, <1>3 DEF Ready, StageInv, regVars
  <1>4. CASE Cancel
    <2>1. svc = "ready" /\ svc' = "deregister" /\ at' = Len(Flows) /\ subscribed' = subscribed
      BY <1>4, Zenon DEF Cancel, regVars
    <2>2. at' \in 1..Len(Flows) /\ (at' + 1)..Len(Flows) = {}
      BY <1>1, <2>1
    <2> QED
      BY <2>1, <2>2 DEF StageInv
  <1>5. CASE StopSource \/ CloseIn
    <2>1. /\ svc \in {"deregister", "close"} /\ svc' \in {"close", "wait"}
          /\ at' = at /\ subscribed' = subscribed /\ wk' = wk
      BY <1>5, Zenon DEF StopSource, CloseIn, regVars, wkVars
    <2>2. \A i : CrewAt(i, "exited") => CrewAt(i, "exited")'
      BY <2>1, Zenon DEF CrewAt
    <2> QED
      BY <2>1, <2>2, Zenon DEF StageInv
  <1>6. CASE WaitWorkers
    <2>1. /\ svc = "wait" /\ CrewAt(at, "exited") /\ at' = at - 1 /\ wk' = wk
          /\ IF at = 1 THEN svc' = "stopped" ELSE svc' = "deregister" /\ subscribed' = subscribed
      BY <1>6, Zenon DEF WaitWorkers, CrewAt, wkVars
    <2>2. at \in 1..Len(Flows) /\ subscribed /\ \A i \in (at + 1)..Len(Flows) : CrewAt(i, "exited")
      BY <2>1, Zenon DEF StageInv
    <2>3. \A i \in at..Len(Flows) : CrewAt(i, "exited")
      BY <1>1, <2>1, <2>2
    <2>4. \A i : CrewAt(i, "exited") => CrewAt(i, "exited")'
      BY <2>1, Zenon DEF CrewAt
    <2>5. CASE at = 1
      BY <2>1, <2>3, <2>4, <2>5, Zenon DEF StageInv
    <2>6. CASE at # 1
      <3>1. at' \in 1..Len(Flows) /\ at' + 1 = at
        BY <1>1, <2>1, <2>2, <2>6
      <3> QED
        BY <2>1, <2>2, <2>3, <2>4, <2>6, <3>1, Zenon DEF StageInv
    <2> QED
      BY <2>5, <2>6, Zenon
  <1> QED
    BY <1>2, <1>3, <1>4, <1>5, <1>6, Zenon DEF Service

\* No other step changes which flows have been started or stopped.
LEMMA StageStep ==
    ASSUME Assumption, OrderAssumption, CallInv, FlowSet # {}, StageInv, [Next]_vars
    PROVE  StageInv'
  <1>1. wk \in [Crew -> {"unborn", "idle", "run", "calling", "publish", "exited"}]
    BY Zenon DEF CallInv, Types
  <1>2. CASE UNCHANGED <<svc, at, subscribed, wk>>
    BY <1>2, StageFrame, Zenon
  <1>3. ASSUME NEW c \in Roots, OutsideCall(c) \/ GiveUp(c) \/ Arrive(c)
        PROVE  UNCHANGED <<svc, at, subscribed, wk>>
    BY <1>3, Zenon DEF OutsideCall, GiveUp, Arrive, svcVars, regVars, wkVars
  <1>4. ASSUME NEW f \in FlowSet, NEW w \in Workers, Worker(f, w) PROVE StageInv'
    <2> DEFINE v == <<f, w>>
    <2>1. /\ UNCHANGED <<svc, at, subscribed>>
          /\ wk[v] \in {"idle", "run", "calling", "publish"}
          /\ wk' = wk \/ \E p : wk' = [wk EXCEPT ![v] = p]
      BY <1>4, Zenon
      DEF Worker, Receive, WorkerExit, RunToEnd, RunToRef, Calling, RefReturns, Publish, svcVars,
          regVars, wkVars
    <2> HIDE DEF v
    <2>2. \A u \in Crew : wk[u] \in {"unborn", "exited"} => wk'[u] = wk[u]
      BY <1>1, <2>1, Zenon
    <2> QED
      BY <2>1, <2>2, StageFrame, Zenon
  <1>5. CASE Stopped \/ UNCHANGED vars
    BY <1>2, <1>5, Zenon DEF Stopped, vars, svcVars, regVars, wkVars
  <1> QED
    BY <1>2, <1>3, <1>4, <1>5, StageService, Zenon DEF Next

-----------------------------------------------------------------------------
(* The callers.                                                            *)

\* No call is in progress on the registry: messages only move towards their end.
LEMMA CallerFrame ==
    ASSUME CallInv, CallerInv, pending' = pending,
           \A c \in Roots : <<c, 0>> \in Messages,
           \A n \in Messages : call'[n] = call[n] \/ call'[n] = "returned",
           \A v \in Crew : wk'[v] = "calling" => wk[v] = "calling" /\ msg'[v] = msg[v],
           \A n \in Messages : Waiting(n) => Waiting(n)' \/ Held(n)',
           \A n \in Messages : Held(n) /\ n \in pending => Held(n)' \/ reply'[n] # None,
           \A n \in Messages : reply[n] # None => reply'[n] # None
    PROVE  CallerInv'
  <1>1. \A v \in Crew : wk[v] = "calling" => Sub(msg[v]) \in Messages
    BY Zenon DEF CallInv, CrewOK
  <1>2. \A c \in Roots : call'[<<c, 0>>] = "send" => <<c, 0>> \in pending'
    BY Zenon DEF CallerInv
  <1>3. ASSUME NEW v \in Crew, wk'[v] = "calling"
        PROVE  /\ Target[v[1]] # None /\ call'[Sub(msg'[v])] # "none"
               /\ call'[Sub(msg'[v])] = "send" /\ v[1] \notin OneWay => Sub(msg'[v]) \in pending'
    BY <1>1, <1>3, Zenon DEF CallerInv
  <1>4. ASSUME NEW n \in Messages, call'[n] = "await"
        PROVE  n \in pending' /\ (Waiting(n)' \/ Held(n)' \/ reply'[n] # None)
    BY <1>4, Zenon DEF CallerInv
  <1>5. \A v \in Crew : Sub(msg[v])' = Sub(msg'[v])
    BY Zenon DEF Sub
  <1> QED
    BY <1>2, <1>3, <1>4, <1>5, Zenon DEF CallerInv

\* track and the lookup: m comes into the table before it is sent.
LEMMA CallerBegins ==
    ASSUME CallInv, CallerInv, NEW m \in Messages, NEW f, Begin(m, f), UNCHANGED <<in, msg>>,
           \A c \in Roots : <<c, 0>> \in Messages,
           \A v \in Crew : wk'[v] \in Busy <=> wk[v] \in Busy,
           \A v \in Crew : wk'[v] = "calling" =>
               wk[v] = "calling" \/ (v[1] = f /\ Target[f] # None /\ Sub(msg[v]) = m)
    PROVE  CallerInv'
  <1>1. /\ call \in [Messages -> {"none", "send", "await", "returned"}]
        /\ \A v \in Crew : wk[v] = "calling" => Sub(msg[v]) \in Messages
    BY Zenon DEF CallInv, CrewOK, Types
  <1>2. /\ call[m] = "none" /\ reply' = reply
        /\ \/ /\ call' = [call EXCEPT ![m] = "send"]
              /\ pending' = IF Waits(m, f) THEN pending \cup {m} ELSE pending
           \/ call' = [call EXCEPT ![m] = "returned"] /\ pending' = pending \ {m}
    BY Zenon DEF Begin, Returned
  <1>3. /\ \A n \in Messages \ {m} : call'[n] = call[n] /\ (n \in pending => n \in pending')
        /\ call'[m] \in {"send", "returned"}
        /\ call'[m] = "send" /\ Waits(m, f) => m \in pending'
    BY <1>1, <1>2, Zenon
  <1>4. ASSUME NEW c \in Roots, call'[<<c, 0>>] = "send" PROVE <<c, 0>> \in pending'
    <2>1. CASE m = <<c, 0>>
      <3>1. Waits(m, f)
        BY <2>1 DEF Waits
      <3> QED
        BY <1>3, <1>4, <2>1, <3>1, Zenon
    <2>2. CASE m # <<c, 0>>
      BY <1>3, <1>4, <2>2, Zenon DEF CallerInv
    <2> QED
      BY <2>1, <2>2, Zenon
  <1>5. ASSUME NEW v \in Crew, wk'[v] = "calling"
        PROVE  /\ Target[v[1]] # None /\ call'[Sub(msg[v])] # "none"
               /\ call'[Sub(msg[v])] = "send" /\ v[1] \notin OneWay => Sub(msg[v]) \in pending'
    <2>1. CASE wk[v] = "calling"
      <3>1. Sub(msg[v]) \in Messages \ {m}
        BY <1>1, <1>2, <2>1, Zenon DEF CallerInv
      <3> QED
        BY <1>3, <2>1, <3>1, Zenon DEF CallerInv
    <2>2. CASE v[1] = f /\ Target[f] # None /\ Sub(msg[v]) = m
      <3>1. v[1] \notin OneWay => Waits(m, f)
        BY <2>2, Zenon DEF Waits
      <3>2. call'[m] # "none"
        BY <1>3, Zenon
      <3> QED
        BY <1>3, <2>2, <3>1, <3>2, Zenon
    <2> QED
      BY <1>5, <2>1, <2>2, Zenon
  <1>6. ASSUME NEW n \in Messages, call'[n] = "await"
        PROVE  n \in pending' /\ (Waiting(n)' \/ Held(n)' \/ reply'[n] # None)
    <2>1. n # m
      BY <1>3, <1>6, Zenon
    <2>2. n \in pending' /\ (Waiting(n) \/ Held(n) \/ reply[n] # None)
      BY <1>3, <1>6, <2>1, Zenon DEF CallerInv
    <2> QED
      BY <1>2, <2>2, Zenon DEF Waiting, Held
  <1>7. \A v \in Crew : Sub(msg[v])' = Sub(msg[v])
    BY Zenon DEF Sub
  <1> QED
    BY <1>4, <1>5, <1>6, <1>7, Zenon DEF CallerInv

\* The send and the wait: from the table to the channel, and out of the table
\* when the call returns.
LEMMA CallerGoesOn ==
    ASSUME CallInv, CallerInv, NEW m \in Messages, NEW f, FlowOf(m, f) \in FlowSet,
           call[m] = "send" /\ Waits(m, f) => m \in pending,
           SendTo(m, f) \/ SendRefused(m, f) \/ AwaitEnds(m), UNCHANGED wkVars,
           \A c \in Roots : <<c, 0>> \in Messages
    PROVE  CallerInv'
  <1> DEFINE g == FlowOf(m, f)
  <1>1. Types /\ UNCHANGED <<wk, msg>> /\ g \in FlowSet /\ in[g] \in Seq(Messages)
    BY Zenon DEF CallInv, wkVars, Types
  <1>2. /\ \/ call' = [call EXCEPT ![m] = "returned"] /\ pending' = pending \ {m}
           \/ /\ call' = [call EXCEPT ![m] = "await"] /\ pending' = pending
              /\ call[m] = "send" /\ Waits(m, f) /\ in' = [in EXCEPT ![g] = Append(@, m)]
        /\ in' = in \/ in' = [in EXCEPT ![g] = Append(@, m)]
        /\ reply' = reply \/ reply' = [reply EXCEPT ![m] = None]
    BY Zenon DEF SendTo, SendRefused, AwaitEnds, Returned, chanVars
  <1> HIDE DEF g
  <1>3. /\ \A n \in Messages \ {m} : /\ call'[n] = call[n] /\ reply'[n] = reply[n]
                                     /\ n \in pending => n \in pending'
        /\ call'[m] \in {"await", "returned"}
        /\ call'[m] = "await" => m \in pending'
    BY <1>1, <1>2, Zenon DEF Types
  <1>4. Range(in[g]) \subseteq Range(Append(in[g], m)) /\ m \in Range(Append(in[g], m))
    <2>1. /\ Len(in[g]) \in Nat /\ DOMAIN in[g] = 1..Len(in[g])
          /\ DOMAIN Append(in[g], m) = 1..(Len(in[g]) + 1)
          /\ \A i \in 1..Len(in[g]) : Append(in[g], m)[i] = in[g][i]
          /\ Append(in[g], m)[Len(in[g]) + 1] = m
      BY <1>1
    <2> QED
      BY <2>1 DEF Range
  <1>5. ASSUME NEW n \in Messages, Waiting(n) PROVE Waiting(n)'
    BY <1>1, <1>2, <1>4, <1>5, Zenon DEF Waiting, Types
  <1>6. call'[m] = "await" => Waiting(m)'
    BY <1>1, <1>2, <1>4, Zenon DEF Waiting, Types
  <1>7. \A n \in Messages : Held(n) => Held(n)'
    BY <1>1, Zenon DEF Held
  <1>8. ASSUME NEW c \in Roots, call'[<<c, 0>>] = "send" PROVE <<c, 0>> \in pending'
    BY <1>3, <1>8, Zenon DEF CallerInv
  <1>9. ASSUME NEW v \in Crew, wk[v] = "calling"
        PROVE  /\ Target[v[1]] # None /\ call'[Sub(msg[v])] # "none"
               /\ call'[Sub(msg[v])] = "send" /\ v[1] \notin OneWay => Sub(msg[v]) \in pending'
    <2>1. Sub(msg[v]) \in Messages
      BY <1>9, Zenon DEF CallInv, CrewOK
    <2> QED
      BY <1>3, <1>9, <2>1, Zenon DEF CallerInv
  <1>10. ASSUME NEW n \in Messages, call'[n] = "await"
         PROVE  n \in pending' /\ (Waiting(n)' \/ Held(n)' \/ reply'[n] # None)
    <2>1. CASE n = m
      BY <1>3, <1>6, <1>10, <2>1, Zenon
    <2>2. CASE n # m
      <3>1. n \in pending' /\ (Waiting(n) \/ Held(n) \/ reply'[n] # None)
        BY <1>3, <1>10, <2>2, Zenon DEF CallerInv
      <3> QED
        BY <1>5, <1>7, <3>1, Zenon
    <2> QED
      BY <2>1, <2>2, Zenon
  <1>11. \A v \in Crew : Sub(msg[v])' = Sub(msg[v])
    BY <1>1, Zenon DEF Sub
  <1> QED
    BY <1>1, <1>8, <1>9, <1>10, <1>11, Zenon DEF CallerInv

\* The steps of a caller from outside.
LEMMA CallerRoots ==
    ASSUME Assumption, CallInv, CallerInv, NEW c \in Roots, OutsideCall(c) \/ GiveUp(c) \/ Arrive(c)
    PROVE  CallerInv'
  <1> DEFINE m == <<c, 0>>
  <1>0. \A r \in Roots : <<r, 0>> \in Messages
    BY DEF Messages, Assumption, BoundsAssumption
  <1>1. CASE OutsideCall(c)
    <2>1. /\ \/ Begin(m, None) /\ in' = in
             \/ SendTo(m, None) \/ SendRefused(m, None) \/ AwaitEnds(m)
          /\ UNCHANGED wkVars
      BY <1>1, Zenon DEF OutsideCall, chanVars
    <2>2. FlowOf(m, None) \in FlowSet
      BY DEF FlowOf, Assumption, TargetAssumption
    <2>3. call[m] = "send" => m \in pending
      BY Zenon DEF CallerInv
    <2>4. m \in Messages /\ UNCHANGED <<wk, msg>>
      BY <1>0, <2>1, Zenon DEF wkVars
    <2> HIDE DEF m
    <2>5. CASE Begin(m, None) /\ in' = in
      BY <1>0, <2>4, <2>5, CallerBegins, Zenon
    <2> QED
      BY <1>0, <2>1, <2>2, <2>3, <2>4, <2>5, CallerGoesOn, Zenon
  <1>2. CASE GiveUp(c)
    <2>1. UNCHANGED <<in, call, reply, pending, wk, msg>>
      BY <1>2, Zenon DEF GiveUp, chanVars, callVars, wkVars
    <2>2. \A n \in Messages : (Waiting(n) => Waiting(n)') /\ (Held(n) => Held(n)')
      BY <2>1, Zenon DEF Waiting, Held
    <2> QED
      BY <1>0, <2>1, <2>2, CallerFrame, Zenon
  <1>3. CASE Arrive(c)
    <2> DEFINE g == Entry[c]
    <2>1. /\ in' = [in EXCEPT ![g] = Append(@, m)] /\ call' = [call EXCEPT ![m] = "returned"]
          /\ UNCHANGED <<reply, pending, wk, msg>>
          /\ g \in FlowSet /\ m \in Messages
      BY <1>0, <1>3, Zenon DEF Arrive, wkVars, Assumption, TargetAssumption
    <2> HIDE DEF m, g
    <2>2. /\ in \in [FlowSet -> Seq(Messages)] /\ in[g] \in Seq(Messages)
          /\ call \in [Messages -> {"none", "send", "await", "returned"}]
      BY <2>1, Zenon DEF CallInv, Types
    <2>3. Range(in[g]) \subseteq Range(Append(in[g], m))
      <3>1. /\ Len(in[g]) \in Nat /\ DOMAIN in[g] = 1..Len(in[g])
            /\ DOMAIN Append(in[g], m) = 1..(Len(in[g]) + 1)
            /\ \A i \in 1..Len(in[g]) : Append(in[g], m)[i] = in[g][i]
        BY <2>1, <2>2
      <3> QED
        BY <3>1 DEF Range
    <2>4. \A n \in Messages : Waiting(n) => Waiting(n)'
      BY <2>1, <2>2, <2>3, Zenon DEF Waiting
    <2>5. \A n \in Messages : Held(n) => Held(n)'
      BY <2>1, Zenon DEF Held
    <2>6. \A n \in Messages : call'[n] = call[n] \/ call'[n] = "returned"
      BY <2>1, <2>2, Zenon
    <2> QED
      BY <1>0, <2>1, <2>4, <2>5, <2>6, CallerFrame, Zenon
  <1> QED
    BY <1>1, <1>2, <1>3, Zenon

\* A worker that calls another flow, and one that publishes an outcome.
LEMMA CallerWorker ==
    ASSUME Assumption, CallInv, CallerInv, StageInv, OrderAssumption,
           NEW f \in FlowSet, NEW w \in Workers, Worker(f, w)
    PROVE  CallerInv'
  <1> DEFINE v == <<f, w>>
  <1>0. \A r \in Roots : <<r, 0>> \in Messages
    BY DEF Messages, Assumption, BoundsAssumption
  <1>1. Types /\ CrewOK /\ v \in Crew /\ v[1] = f
    BY DEF CallInv, Crew
  <1>2. CASE Receive(f, w)
    <2> DEFINE m == Head(in[f])
    <2>1. /\ wk[v] = "idle" /\ in[f] # <<>> /\ msg' = [msg EXCEPT ![v] = m]
          /\ in' = [in EXCEPT ![f] = Tail(@)] /\ wk' = [wk EXCEPT ![v] = "run"]
          /\ UNCHANGED <<call, reply, pending>>
      BY <1>2, Zenon DEF Receive, callVars
    <2>2. /\ in[f] \in Seq(Messages) /\ IsInjective(in[f])
      BY <1>1, Zenon DEF Types, CallInv, OnceIn
    <2>3. /\ m \in Messages
          /\ \A x : x \in Range(Tail(in[f])) <=> x \in Range(in[f]) /\ x # m
      BY <2>1, <2>2, TakeHead, Zenon
    <2> HIDE DEF v, m
    <2>4. /\ wk'[v] = "run" /\ msg'[v] = m
          /\ \A u \in Crew \ {v} : wk'[u] = wk[u] /\ msg'[u] = msg[u]
      BY <1>1, <2>1, Zenon DEF Types
    <2>5. in'[f] = Tail(in[f]) /\ \A h \in FlowSet \ {f} : in'[h] = in[h]
      BY <1>1, <2>1, Zenon DEF Types
    <2>6. \A n \in Messages : n = m => Held(n)'
      BY <1>1, <2>4, Zenon DEF Held, Busy
    <2>7. \A n \in Messages : Waiting(n) => Waiting(n)' \/ n = m
      BY <2>3, <2>5, Zenon DEF Waiting
    <2>8. \A n \in Messages : Held(n) => Held(n)'
      BY <2>1, <2>4, Zenon DEF Held, Busy
    <2>9. \A u \in Crew : wk'[u] = "calling" => wk[u] = "calling" /\ msg'[u] = msg[u]
      BY <2>4, Zenon
    <2> QED
      BY <1>0, <2>1, <2>6, <2>7, <2>8, <2>9, CallerFrame, Zenon
  <1>3. CASE WorkerExit(f, w) \/ RunToEnd(f, w) \/ RefReturns(f, w)
    <2>1. /\ UNCHANGED <<in, call, reply, pending, msg>>
          /\ \/ wk[v] = "idle" /\ wk' = [wk EXCEPT ![v] = "exited"]
             \/ wk[v] \in Busy /\ wk' = [wk EXCEPT ![v] = "publish"]
      BY <1>3, Zenon DEF WorkerExit, RunToEnd, RefReturns, chanVars, callVars, Busy
    <2> HIDE DEF v
    <2>2. \A u \in Crew : /\ wk[u] \in Busy => wk'[u] \in Busy
                          /\ wk'[u] = "calling" => wk[u] = "calling"
      BY <1>1, <2>1, Zenon DEF Types, Busy
    <2>3. \A n \in Messages : (Waiting(n) => Waiting(n)') /\ (Held(n) => Held(n)')
      BY <2>1, <2>2, Zenon DEF Waiting, Held
    <2> QED
      BY <1>0, <2>1, <2>2, <2>3, CallerFrame, Zenon
  <1>4. CASE RunToRef(f, w)
    <2> DEFINE s == Sub(msg[v])
    <2>1. /\ wk[v] = "run" /\ wk' = [wk EXCEPT ![v] = "calling"] /\ Begin(s, f)
          /\ Target[f] # None /\ UNCHANGED <<in, msg>>
      BY <1>4, Zenon DEF RunToRef, chanVars
    <2>2. msg[v] \in Messages /\ msg[v][2] < MaxDepth
      BY <1>1, <1>4, <2>1, Zenon DEF CrewOK, Busy, RunToRef
    <2>3. s \in Messages
      BY <2>2 DEF Sub, Messages, Assumption, BoundsAssumption
    <2>4. \A u \in Crew : wk'[u] = "calling" =>
              wk[u] = "calling" \/ (u[1] = f /\ Target[f] # None /\ Sub(msg[u]) = s)
      BY <1>1, <2>1, Zenon DEF Types
    <2> HIDE DEF v
    <2>5. \A u \in Crew : wk'[u] \in Busy <=> wk[u] \in Busy
      BY <1>1, <2>1, Zenon DEF Types, Busy
    <2> HIDE DEF s
    <2> QED
      BY <1>0, <2>1, <2>3, <2>4, <2>5, CallerBegins, Zenon
  <1>5. CASE Calling(f, w)
    <2> DEFINE s == Sub(msg[v])
    <2>1. /\ wk[v] = "calling" /\ s \in Messages
          /\ SendTo(s, f) \/ SendRefused(s, f) \/ AwaitEnds(s)
          /\ UNCHANGED wkVars
      BY <1>1, <1>5, Zenon DEF Calling, CrewOK
    <2>2. Target[f] # None /\ (call[s] = "send" /\ f \notin OneWay => s \in pending)
      BY <1>1, <2>1, Zenon DEF CallerInv
    <2>3. Target[f] \in FlowSet
      BY <2>2, Zenon DEF Assumption, TargetAssumption, FlowsAssumption
    <2>4. msg[v] \in Messages
      BY <1>1, <2>1, Zenon DEF CrewOK, Busy
    <2>5. s[2] # 0
      BY <2>4 DEF Sub, Messages, Assumption, BoundsAssumption
    <2> HIDE DEF s
    <2>6. FlowOf(s, f) \in FlowSet /\ (Waits(s, f) => f \notin OneWay)
      BY <2>3, <2>5, Zenon DEF FlowOf, Waits
    <2> QED
      BY <1>0, <2>1, <2>2, <2>6, CallerGoesOn, Zenon
  <1>6. CASE Publish(f, w)
    <2> DEFINE m == msg[v]
    <2>1. /\ wk[v] = "publish" /\ wk' = [wk EXCEPT ![v] = "idle"] /\ msg' = [msg EXCEPT ![v] = None]
          /\ reply' = IF subscribed /\ m \in pending /\ reply[m] = None
                        THEN [reply EXCEPT ![m] = kind[v]] ELSE reply
          /\ UNCHANGED <<in, call, pending>>
      BY <1>6, Zenon DEF Publish, chanVars
    <2>2. m \in Messages /\ kind[v] \in Kinds /\ kind[v] # None
      BY <1>1, <2>1, Zenon DEF CrewOK, Busy, Assumption, NoneAssumption
    <2>3. subscribed
      <3>1. PICK i \in 1..Len(Flows) : f = StartOrder[i]
        BY OrderCovers, Zenon
      <3>2. ~CrewAt(i, "exited")
        BY <2>1, <3>1 DEF CrewAt
      <3> QED
        BY <3>2, Zenon DEF StageInv
    <2> HIDE DEF v, m
    <2>4. \A n \in Messages : reply[n] # None => reply'[n] # None
      BY <1>1, <2>1, <2>2, Zenon DEF Types
    <2>5. m \in pending => reply'[m] # None
      BY <1>1, <2>1, <2>2, <2>3, Zenon DEF Types
    <2>6. \A u \in Crew \ {v} : wk'[u] = wk[u] /\ msg'[u] = msg[u]
      BY <1>1, <2>1, Zenon DEF Types
    <2>7. wk'[v] = "idle"
      BY <1>1, <2>1, Zenon DEF Types
    <2>8. msg[v] = m
      BY DEF m
    <2>9. \A n \in Messages : Held(n) => Held(n)' \/ n = m
      BY <2>6, <2>8, Zenon DEF Held
    <2>10. \A n \in Messages : Waiting(n) => Waiting(n)'
      BY <2>1, Zenon DEF Waiting
    <2>11. \A u \in Crew : wk'[u] = "calling" => wk[u] = "calling" /\ msg'[u] = msg[u]
      BY <2>6, <2>7, Zenon
    <2> QED
      BY <1>0, <2>1, <2>4, <2>5, <2>9, <2>10, <2>11, CallerFrame, Zenon
  <1> QED
    BY <1>2, <1>3, <1>4, <1>5, <1>6, Zenon DEF Worker

\* Start, Shutdown and the end of the context leave those who wait to be served.
LEMMA CallerService ==
    ASSUME Assumption, OrderAssumption, CallInv, CallerInv, StageInv,
           Service \/ Cancel \/ UNCHANGED vars
    PROVE  CallerInv'
  <1>0. \A r \in Roots : <<r, 0>> \in Messages
    BY DEF Messages, Assumption, BoundsAssumption
  <1>1. UNCHANGED <<in, call, reply, pending, msg>>
    BY Zenon
    DEF Service, StartNext, Ready, StopSource, CloseIn, WaitWorkers, Cancel, vars, chanVars,
        callVars, wkVars
  <1>2. \A u \in Crew : wk'[u] = wk[u] \/ (wk[u] = "unborn" /\ wk'[u] = "idle")
    <2>1. CASE StartNext
      <3>1. /\ at \in 1..Len(Flows) /\ CrewAt(at, "unborn")
            /\ wk' = [u \in Crew |-> IF u[1] = StartOrder[at] THEN "idle" ELSE wk[u]]
        <4>1. Len(Flows) \in Nat
          BY DEF Assumption, FlowsAssumption
        <4> QED
          BY <2>1, <4>1 DEF StartNext, StageInv
      <3>2. \A u \in Crew : u[1] = StartOrder[at] => wk[u] = "unborn"
        BY <3>1 DEF CrewAt, Crew
      <3> QED
        BY <3>1, <3>2, Zenon
    <2>2. CASE ~StartNext
      BY <2>2, Zenon DEF Service, Ready, StopSource, CloseIn, WaitWorkers, Cancel, vars, wkVars
    <2> QED
      BY <2>1, <2>2, Zenon
  <1>3. \A u \in Crew : /\ wk[u] \in Busy => wk'[u] \in Busy
                        /\ wk'[u] = "calling" => wk[u] = "calling"
    BY <1>2, Zenon DEF Busy
  <1>4. \A n \in Messages : (Waiting(n) => Waiting(n)') /\ (Held(n) => Held(n)')
    BY <1>1, <1>3, Zenon DEF Waiting, Held
  <1> QED
    BY <1>0, <1>1, <1>3, <1>4, CallerFrame, Zenon

\* Without flows there is nobody to call.
LEMMA NoFlows ==
    ASSUME Assumption, FlowSet = {}
    PROVE  Roots = {} /\ Crew = {} /\ Messages = {}
  BY DEF Crew, Messages, Assumption, TargetAssumption

\* A caller that waits in flowRegistry.Call is never forgotten: until it returns
\* its message is on a channel or in a worker's hands, or its outcome is in the
\* reply channel.  The registry hears every outcome, for Run takes it off the
\* event bus after the last worker has exited.
THEOREM WaitersAreServed ==
    ASSUME Assumption, OrderAssumption PROVE Spec => []WaitIsServed
  <1>1. Init => ServedInv
    BY ServedInit, Zenon
  <1>2. ServedInv /\ [Next]_vars => ServedInv'
    <2> SUFFICES ASSUME ServedInv, [Next]_vars PROVE ServedInv'
      OBVIOUS
    <2>1. CallInv /\ CallerInv /\ (FlowSet # {} => StageInv)
      BY Zenon DEF ServedInv
    <2>2. CallInv'
      BY <2>1, RootKeeps, WorkerKeeps, ServiceKeeps, Zenon DEF Next, Stopped
    <2>3. FlowSet # {} => StageInv'
      BY <2>1, StageStep, Zenon
    <2>4. CallerInv'
      <3>1. CASE FlowSet # {}
        BY <2>1, <3>1, CallerRoots, CallerWorker, CallerService, Zenon DEF Next, Stopped
      <3>2. CASE FlowSet = {}
        BY <3>2, NoFlows DEF CallerInv
      <3> QED
        BY <3>1, <3>2, Zenon
    <2> QED
      BY <2>2, <2>3, <2>4, Zenon DEF ServedInv
  <1>3. ServedInv => WaitIsServed
    BY Zenon DEF ServedInv, CallerInv, WaitIsServed, Waiting, Held, Range
  <1> QED
    BY <1>1, <1>2, <1>3, PTL DEF Spec

-----------------------------------------------------------------------------
(* Queues, layer 1: a message is in one place, and ends once.              *)

\* The types that the argument needs.
QueueTypes ==
    /\ queSubject \in Seq(Queues!Messages) /\ queOut \in Seq(Queues!Messages)
    /\ queSent \in [Queues!Messages -> {"new", "waiting", "ok", "full", "cancelled", "noreply"}]
    /\ queLp \in [Listeners -> {"unborn", "idle", "send", "await", "answer", "exited"}]
    /\ queHeld \in [Listeners -> Queues!Messages \cup {NoMessage}]
    /\ queWork \in [Consumers -> Queues!Messages \cup {NoMessage}]
    /\ queTerminal \in [Queues!Messages -> Queues!Kinds \cup {NoMessage}]
    /\ \A l \in Listeners :
           queLp[l] \in {"send", "await", "answer"} => queHeld[l] \in Queues!Messages

NotSent(m) == queSent[m] = "new"
Queued(m) == m \in Range(queSubject)
Handed(m) == \E l \in Listeners : queLp[l] = "send" /\ queHeld[l] = m
InChannel(m) == m \in Range(queOut)
InWorker(m) == \E w \in Consumers : queWork[w] = m
HasOutcome(m) == queTerminal[m] # NoMessage

\* The places exclude each other ...
QueuePlace(m) ==
    /\ NotSent(m) => ~Queued(m) /\ ~Handed(m) /\ ~InChannel(m) /\ ~InWorker(m) /\ ~HasOutcome(m)
    /\ Queued(m) => ~Handed(m) /\ ~InChannel(m) /\ ~InWorker(m) /\ ~HasOutcome(m)
    /\ Handed(m) => ~InChannel(m) /\ ~InWorker(m) /\ ~HasOutcome(m)
    /\ InChannel(m) => ~InWorker(m) /\ ~HasOutcome(m)
    /\ InWorker(m) => ~HasOutcome(m)

\* ... and hold a message once.
QueueOnce ==
    /\ IsInjective(queSubject) /\ IsInjective(queOut)
    /\ \A l, k \in Listeners :
           queLp[l] = "send" /\ queLp[k] = "send" /\ queHeld[l] = queHeld[k] => l = k
    /\ \A w, v \in Consumers : queWork[w] # NoMessage /\ queWork[w] = queWork[v] => w = v

PlaceInv == QueueTypes /\ QueueOnce /\ \A m \in Queues!Messages : QueuePlace(m)

\* Nothing has been sent.
LEMMA PlaceInit == ASSUME Queues!QueueAssumption, Queues!Init PROVE PlaceInv
  <1>0. <<>> \in Seq(Queues!Messages) /\ IsInjective(<<>>) /\ Range(<<>>) = {}
    BY DEF IsInjective, Range
  <1>1. QueueTypes
    BY <1>0, Zenon DEF Queues!Init, QueueTypes
  <1>2. QueueOnce
    BY <1>0, Zenon DEF Queues!Init, QueueOnce
  <1>3. \A m \in Queues!Messages :
            ~Queued(m) /\ ~Handed(m) /\ ~InChannel(m) /\ ~InWorker(m) /\ ~HasOutcome(m)
    BY <1>0, Zenon
    DEF Queues!Init, Queued, Handed, InChannel, InWorker, HasOutcome, Queues!QueueAssumption
  <1> QED
    BY <1>1, <1>2, <1>3, Zenon DEF PlaceInv, QueuePlace

\* A step that moves nothing, and neither sends nor holds a message anew, keeps
\* the places.
LEMMA PlaceFrame ==
    ASSUME PlaceInv, QueueTypes', UNCHANGED <<queSubject, queOut, queWork, queTerminal>>,
           \A m \in Queues!Messages : NotSent(m)' => NotSent(m),
           \A l \in Listeners : queLp'[l] = "send" => queLp[l] = "send" /\ queHeld'[l] = queHeld[l]
    PROVE  PlaceInv'
  <1>1. QueueOnce'
    BY DEF PlaceInv, QueueOnce
  <1>2. ASSUME NEW m \in Queues!Messages PROVE QueuePlace(m)'
    <2>1. /\ Queued(m)' <=> Queued(m)
          /\ InChannel(m)' <=> InChannel(m)
          /\ InWorker(m)' <=> InWorker(m)
          /\ HasOutcome(m)' <=> HasOutcome(m)
      BY Zenon DEF Queued, InChannel, InWorker, HasOutcome
    <2>2. Handed(m)' => Handed(m)
      BY Zenon DEF Handed
    <2> QED
      BY <2>1, <2>2, Zenon DEF PlaceInv, QueuePlace
  <1> QED
    BY <1>1, <1>2, Zenon DEF PlaceInv

\* The senders.
LEMMA PlaceSender ==
    ASSUME Queues!QueueAssumption, PlaceInv, NEW m \in Queues!Messages,
           Queues!Enqueue(m) \/ Queues!GetReply(m) \/ Queues!Deadline(m)
    PROVE  PlaceInv'
  <1>0. QueueTypes
    BY Zenon DEF PlaceInv
  <1>1. CASE UNCHANGED queSubject
    <2>1. QueueTypes'
      BY <1>0, <1>1, Zenon
      DEF Queues!Enqueue, Queues!GetReply, Queues!Deadline, QueueTypes, Queues!listenVars,
          Queues!flowVars
    <2>2. UNCHANGED <<queOut, queWork, queTerminal, queLp, queHeld>>
      BY Zenon
      DEF Queues!Enqueue, Queues!GetReply, Queues!Deadline, Queues!listenVars, Queues!flowVars
    <2>3. \A n \in Queues!Messages : NotSent(n)' => NotSent(n)
      BY <1>0, Zenon DEF Queues!Enqueue, Queues!GetReply, Queues!Deadline, QueueTypes, NotSent
    <2> QED
      BY <1>1, <2>1, <2>2, <2>3, PlaceFrame, Zenon
  <1>2. CASE queSubject' = Append(queSubject, m) /\ Queues!Enqueue(m) /\ ~NotSent(m)'
    <2>1. QueuePlace(m) /\ NotSent(m)
      BY <1>2, Zenon DEF PlaceInv, Queues!Enqueue, NotSent
    <2>2. /\ queSubject' \in Seq(Queues!Messages) /\ IsInjective(queSubject')
          /\ \A n : n \in Range(queSubject') <=> n \in Range(queSubject) \/ n = m
      BY <1>0, <1>2, <2>1, AddLast, Zenon DEF PlaceInv, QueueOnce, QueuePlace, Queued, QueueTypes
    <2>3. UNCHANGED <<queOut, queWork, queTerminal, queLp, queHeld>>
      BY <1>2, Zenon DEF Queues!Enqueue, Queues!listenVars, Queues!flowVars
    <2>4. QueueTypes'
      BY <1>0, <1>2, <2>2, <2>3, Zenon DEF Queues!Enqueue, QueueTypes
    <2>5. QueueOnce'
      BY <2>2, <2>3, Zenon DEF PlaceInv, QueueOnce
    <2>6. ASSUME NEW n \in Queues!Messages PROVE QueuePlace(n)'
      <3>1. /\ Queued(n)' <=> Queued(n) \/ n = m
            /\ Handed(n)' <=> Handed(n)
            /\ InChannel(n)' <=> InChannel(n)
            /\ InWorker(n)' <=> InWorker(n)
            /\ HasOutcome(n)' <=> HasOutcome(n)
        BY <2>2, <2>3, Zenon DEF Queued, Handed, InChannel, InWorker, HasOutcome
      <3>2. NotSent(n)' => NotSent(n) /\ n # m
        BY <1>0, <1>2, Zenon DEF NotSent, Queues!Enqueue, QueueTypes
      <3> QED
        BY <2>1, <3>1, <3>2, Zenon DEF PlaceInv, QueuePlace
    <2> QED
      BY <2>4, <2>5, <2>6, Zenon DEF PlaceInv
  <1> QED
    BY <1>0, <1>1, <1>2, Zenon
    DEF Queues!Enqueue, Queues!GetReply, Queues!Deadline, NotSent, QueueTypes

\* A listener takes a message, hands it to the flow, waits and answers.
LEMMA PlaceListener ==
    ASSUME Queues!QueueAssumption, PlaceInv, NEW l \in Listeners, Queues!Listener(l)
    PROVE  PlaceInv'
  <1>0. QueueTypes
    BY Zenon DEF PlaceInv
  <1>1. CASE Queues!Consume(l)
    <2> DEFINE m == Head(queSubject)
    <2>1. /\ m \in Queues!Messages /\ Queued(m)
          /\ queSubject' \in Seq(Queues!Messages) /\ IsInjective(queSubject')
          /\ \A n : n \in Range(queSubject') <=> n \in Range(queSubject) /\ n # m
      BY <1>0, <1>1, TakeHead, Zenon DEF Queues!Consume, PlaceInv, QueueOnce, QueueTypes, Queued
    <2>2. UNCHANGED <<queOut, queWork, queTerminal, queSent>>
      BY <1>1, Zenon DEF Queues!Consume, Queues!flowVars
    <2>3. /\ queLp' = [queLp EXCEPT ![l] = "send"] /\ queHeld' = [queHeld EXCEPT ![l] = m]
          /\ queLp[l] = "idle"
      BY <1>1, Zenon DEF Queues!Consume
    <2> HIDE DEF m
    <2>4. QueueTypes'
      BY <1>0, <2>1, <2>2, <2>3, Zenon DEF QueueTypes
    <2>5. QueuePlace(m)
      BY <2>1, Zenon DEF PlaceInv
    <2>6. QueueOnce'
      <3>1. \A k \in Listeners \ {l} : queLp'[k] = "send" => queHeld'[k] # m
        BY <1>0, <2>1, <2>3, <2>5, Zenon DEF QueuePlace, Handed, QueueTypes
      <3>2. queHeld'[l] = m
        BY <1>0, <2>3, Zenon DEF QueueTypes
      <3>3. \A k \in Listeners \ {l} : queLp'[k] = queLp[k] /\ queHeld'[k] = queHeld[k]
        BY <1>0, <2>3, Zenon DEF QueueTypes
      <3>4. \A i, k \in Listeners :
                queLp'[i] = "send" /\ queLp'[k] = "send" /\ queHeld'[i] = queHeld'[k] => i = k
        BY <3>1, <3>2, <3>3 DEF PlaceInv, QueueOnce
      <3> QED
        BY <2>1, <2>2, <3>4, Zenon DEF PlaceInv, QueueOnce
    <2>7. ASSUME NEW n \in Queues!Messages PROVE QueuePlace(n)'
      <3>1. /\ Queued(n)' <=> Queued(n) /\ n # m
            /\ InChannel(n)' <=> InChannel(n)
            /\ InWorker(n)' <=> InWorker(n)
            /\ HasOutcome(n)' <=> HasOutcome(n)
            /\ NotSent(n)' <=> NotSent(n)
        BY <2>1, <2>2, Zenon DEF Queued, InChannel, InWorker, HasOutcome, NotSent
      <3>2. Handed(n)' => Handed(n) \/ n = m
        BY <1>0, <2>3, Zenon DEF Handed, QueueTypes
      <3> QED
        BY <2>1, <2>5, <3>1, <3>2, Zenon DEF PlaceInv, QueuePlace
    <2> QED
      BY <2>4, <2>6, <2>7, Zenon DEF PlaceInv
  <1>2. CASE Queues!Send(l)
    <2> DEFINE m == queHeld[l]
    <2>1. m \in Queues!Messages /\ Handed(m) /\ QueuePlace(m)
      BY <1>0, <1>2, Zenon DEF Queues!Send, QueueTypes, Handed, PlaceInv
    <2>2. /\ queOut' \in Seq(Queues!Messages) /\ IsInjective(queOut')
          /\ \A n : n \in Range(queOut') <=> n \in Range(queOut) \/ n = m
      BY <1>0, <1>2, <2>1, AddLast
      DEF Queues!Send, PlaceInv, QueueOnce, QueuePlace, QueueTypes, InChannel
    <2>3. UNCHANGED <<queSubject, queWork, queTerminal, queSent, queHeld>>
      BY <1>2, Zenon DEF Queues!Send
    <2>4. queLp' = [queLp EXCEPT ![l] = "await"] /\ queLp[l] = "send"
      BY <1>2, Zenon DEF Queues!Send
    <2>5. QueueTypes'
      BY <1>0, <2>1, <2>2, <2>3, <2>4, Zenon DEF QueueTypes
    <2>6. \A k \in Listeners : queLp'[k] = "send" => queLp[k] = "send" /\ k # l /\ queHeld[k] # m
      BY <1>0, <2>4 DEF QueueTypes, PlaceInv, QueueOnce
    <2>7. QueueOnce'
      BY <2>2, <2>3, <2>6, Zenon DEF PlaceInv, QueueOnce
    <2> HIDE DEF m
    <2>8. ASSUME NEW n \in Queues!Messages PROVE QueuePlace(n)'
      <3>1. /\ InChannel(n)' <=> InChannel(n) \/ n = m
            /\ Queued(n)' <=> Queued(n)
            /\ InWorker(n)' <=> InWorker(n)
            /\ HasOutcome(n)' <=> HasOutcome(n)
            /\ NotSent(n)' <=> NotSent(n)
        BY <2>2, <2>3, Zenon DEF Queued, InChannel, InWorker, HasOutcome, NotSent
      <3>2. Handed(n)' => Handed(n) /\ n # m
        BY <2>3, <2>6, Zenon DEF Handed
      <3> QED
        BY <2>1, <3>1, <3>2, Zenon DEF PlaceInv, QueuePlace
    <2> QED
      BY <2>5, <2>7, <2>8, Zenon DEF PlaceInv
  <1>3. CASE Queues!ListenerExit(l) \/ Queues!SendAborts(l) \/ Queues!AwaitOutcome(l) \/ Queues!AwaitEnds(l) \/ Queues!Answer(l)
    <2>1. UNCHANGED <<queSubject, queOut, queWork, queTerminal, queSent>>
      BY <1>3, Zenon
      DEF Queues!ListenerExit, Queues!SendAborts, Queues!AwaitOutcome, Queues!AwaitEnds,
          Queues!Answer, Queues!flowVars
    <2>2. /\ \A k \in Listeners \ {l} : queLp'[k] = queLp[k] /\ queHeld'[k] = queHeld[k]
          /\ queLp'[l] \in {"exited", "answer", "idle"}
          /\ queLp'[l] = "answer" => queHeld'[l] = queHeld[l] /\ queLp[l] \in {"send", "await"}
          /\ queHeld'[l] \in {queHeld[l], NoMessage}
      BY <1>0, <1>3
      DEF Queues!ListenerExit, Queues!SendAborts, Queues!AwaitOutcome, Queues!AwaitEnds,
          Queues!Answer, Queues!HandleReturns, QueueTypes
    <2>3. /\ queLp' \in [Listeners -> {"unborn", "idle", "send", "await", "answer", "exited"}]
          /\ queHeld' \in [Listeners -> Queues!Messages \cup {NoMessage}]
      BY <1>0, <1>3, Zenon
      DEF Queues!ListenerExit, Queues!SendAborts, Queues!AwaitOutcome, Queues!AwaitEnds,
          Queues!Answer, Queues!HandleReturns, QueueTypes
    <2>4. QueueTypes'
      BY <1>0, <2>1, <2>2, <2>3, Zenon DEF QueueTypes
    <2>5. \A n \in Queues!Messages : NotSent(n)' => NotSent(n)
      BY <2>1, Zenon DEF NotSent
    <2> QED
      BY <2>1, <2>2, <2>4, <2>5, PlaceFrame, Zenon
  <1> QED
    BY <1>1, <1>2, <1>3, Zenon DEF Queues!Listener

\* A worker of the flow takes a message and ends it.
LEMMA PlaceWorker ==
    ASSUME Queues!QueueAssumption, PlaceInv, NEW w \in Consumers,
           Queues!FlowTake(w) \/ Queues!FlowEnds(w) \/ Queues!FlowExit(w)
    PROVE  PlaceInv'
  <1>0. QueueTypes
    BY Zenon DEF PlaceInv
  <1>1. CASE Queues!FlowTake(w)
    <2> DEFINE m == Head(queOut)
    <2>1. /\ m \in Queues!Messages /\ InChannel(m)
          /\ queOut' \in Seq(Queues!Messages) /\ IsInjective(queOut')
          /\ \A n : n \in Range(queOut') <=> n \in Range(queOut) /\ n # m
      BY <1>0, <1>1, TakeHead, Zenon DEF Queues!FlowTake, PlaceInv, QueueOnce, QueueTypes, InChannel
    <2>2. UNCHANGED <<queSubject, queTerminal, queSent, queLp, queHeld>>
      BY <1>1, Zenon DEF Queues!FlowTake, Queues!listenVars
    <2>3. queWork' = [queWork EXCEPT ![w] = m] /\ queWork[w] = NoMessage
      BY <1>1, Zenon DEF Queues!FlowTake
    <2> HIDE DEF m
    <2>4. QueueTypes'
      BY <1>0, <2>1, <2>2, <2>3, Zenon DEF QueueTypes
    <2>5. QueuePlace(m)
      BY <2>1, Zenon DEF PlaceInv
    <2>6. QueueOnce'
      <3>1. \A v \in Consumers \ {w} : queWork'[v] = queWork[v] /\ queWork'[v] # m
        BY <1>0, <2>1, <2>3, <2>5, Zenon DEF QueuePlace, InWorker, QueueTypes
      <3>2. queWork'[w] = m
        BY <1>0, <2>3, Zenon DEF QueueTypes
      <3>3. \A u, v \in Consumers : queWork'[u] # NoMessage /\ queWork'[u] = queWork'[v] => u = v
        BY <3>1, <3>2 DEF PlaceInv, QueueOnce
      <3> QED
        BY <2>1, <2>2, <3>3 DEF PlaceInv, QueueOnce
    <2>7. ASSUME NEW n \in Queues!Messages PROVE QueuePlace(n)'
      <3>1. /\ InChannel(n)' <=> InChannel(n) /\ n # m
            /\ Queued(n)' <=> Queued(n)
            /\ Handed(n)' <=> Handed(n)
            /\ HasOutcome(n)' <=> HasOutcome(n)
            /\ NotSent(n)' <=> NotSent(n)
        BY <2>1, <2>2, Zenon DEF Queued, Handed, InChannel, HasOutcome, NotSent
      <3>2. InWorker(n)' => InWorker(n) \/ n = m
        BY <1>0, <2>3, Zenon DEF InWorker, QueueTypes
      <3> QED
        BY <2>1, <2>5, <3>1, <3>2, Zenon DEF PlaceInv, QueuePlace
    <2> QED
      BY <2>4, <2>6, <2>7, Zenon DEF PlaceInv
  <1>2. CASE Queues!FlowEnds(w)
    <2> DEFINE m == queWork[w]
    <2>1. m \in Queues!Messages /\ InWorker(m) /\ QueuePlace(m)
      BY <1>0, <1>2, Zenon DEF Queues!FlowEnds, QueueTypes, InWorker, PlaceInv
    <2>2. UNCHANGED <<queSubject, queOut, queSent, queLp, queHeld>>
      BY <1>2, Zenon DEF Queues!FlowEnds, Queues!listenVars
    <2>3. queWork' = [queWork EXCEPT ![w] = NoMessage]
      BY <1>2, Zenon DEF Queues!FlowEnds
    <2>4. PICK k \in Queues!Kinds : queTerminal' = [queTerminal EXCEPT ![m] = k]
      BY <1>2, Zenon DEF Queues!FlowEnds
    <2>5. QueueTypes'
      BY <1>0, <2>1, <2>2, <2>3, <2>4, Zenon DEF QueueTypes
    <2>6. \A v \in Consumers :
              queWork'[v] # NoMessage => queWork'[v] = queWork[v] /\ v # w /\ queWork[v] # m
      BY <1>0, <1>2, <2>3, Zenon DEF QueueTypes, PlaceInv, QueueOnce, Queues!FlowEnds
    <2>7. QueueOnce'
      BY <2>2, <2>6 DEF PlaceInv, QueueOnce
    <2> HIDE DEF m
    <2>8. ASSUME NEW n \in Queues!Messages PROVE QueuePlace(n)'
      <3>1. /\ Queued(n)' <=> Queued(n)
            /\ Handed(n)' <=> Handed(n)
            /\ InChannel(n)' <=> InChannel(n)
            /\ NotSent(n)' <=> NotSent(n)
        BY <2>2, Zenon DEF Queued, Handed, InChannel, NotSent
      <3>2. InWorker(n)' => InWorker(n) /\ n # m
        BY <2>6, Zenon DEF InWorker, Queues!QueueAssumption
      <3>3. HasOutcome(n)' => HasOutcome(n) \/ n = m
        BY <1>0, <2>4 DEF HasOutcome, QueueTypes
      <3> QED
        BY <2>1, <3>1, <3>2, <3>3, Zenon DEF PlaceInv, QueuePlace
    <2> QED
      BY <2>5, <2>7, <2>8, Zenon DEF PlaceInv
  <1>3. CASE Queues!FlowExit(w)
    <2>1. UNCHANGED <<queSubject, queOut, queWork, queTerminal, queSent, queLp, queHeld>>
      BY <1>3, Zenon DEF Queues!FlowExit, Queues!listenVars
    <2>2. QueueTypes' /\ \A n \in Queues!Messages : NotSent(n)' => NotSent(n)
      BY <1>0, <2>1 DEF QueueTypes, NotSent
    <2> QED
      BY <2>1, <2>2, PlaceFrame, Zenon
  <1> QED
    BY <1>1, <1>2, <1>3, Zenon

\* Starting and stopping move no message; the listeners begin idle.
LEMMA PlaceService ==
    ASSUME Queues!QueueAssumption, PlaceInv,
           Queues!Start \/ Queues!EndContext \/ Queues!CloseDone \/ Queues!Stopping \/ UNCHANGED Queues!vars
    PROVE  PlaceInv'
  <1>0. QueueTypes
    BY Zenon DEF PlaceInv
  <1>1. UNCHANGED <<queSubject, queOut, queWork, queTerminal, queSent, queHeld>>
    BY Zenon
    DEF Queues!Start, Queues!EndContext, Queues!CloseDone, Queues!Stopping,
        Queues!CancelSubscription, Queues!AwaitListeners, Queues!CloseOut, Queues!AwaitWorkers,
        Queues!Move, Queues!vars, Queues!listenVars, Queues!flowVars
  <1>2. UNCHANGED queLp \/ queLp' = [l \in Listeners |-> "idle"]
    BY Zenon
    DEF Queues!Start, Queues!EndContext, Queues!CloseDone, Queues!Stopping,
        Queues!CancelSubscription, Queues!AwaitListeners, Queues!CloseOut, Queues!AwaitWorkers,
        Queues!Move, Queues!vars, Queues!listenVars
  <1>3. QueueTypes' /\ \A n \in Queues!Messages : NotSent(n)' => NotSent(n)
    BY <1>0, <1>1, <1>2 DEF QueueTypes, NotSent
  <1> QED
    BY <1>1, <1>2, <1>3, PlaceFrame, Zenon

-----------------------------------------------------------------------------
(* Layer 2: outcomes, and who waits for them.                              *)

OutcomeTypes ==
    /\ queReply \in [Queues!Messages -> Queues!Kinds \cup {NoMessage}]
    /\ queResult \in [Queues!Messages -> Queues!Kinds \cup {NoMessage}]
    /\ queRes \in [Listeners -> Queues!Kinds \cup {NoMessage}]

\* What lies in a result channel, and what a listener takes from it, is the
\* outcome of that message.
OutcomeInv ==
    /\ OutcomeTypes
    /\ \A m \in Queues!Messages : queResult[m] # NoMessage => queResult[m] = queTerminal[m]
    /\ \A l \in Listeners : queLp[l] = "answer" =>
         queRes[l] \in Queues!Kinds /\ (queRes[l] # "failed" => queRes[l] = queTerminal[queHeld[l]])
    /\ Queues!ReplyIsOwn

\* As long as no wait has expired, someone waits for every message in the flow.
AwaitInv ==
    /\ queStage = "new" => \A l \in Listeners : queLp[l] = "unborn"
    /\ queExpired = {} => \A m \in Queues!Messages :
         InChannel(m) \/ InWorker(m) => \E l \in Listeners : queLp[l] = "await" /\ queHeld[l] = m

QueueInv == PlaceInv /\ OutcomeInv /\ AwaitInv

\* Nothing has an outcome.
LEMMA QueueInit == ASSUME Queues!QueueAssumption, Queues!Init PROVE QueueInv
  <1>1. PlaceInv
    BY PlaceInit, Zenon
  <1>2. OutcomeInv
    BY Zenon DEF Queues!Init, OutcomeInv, OutcomeTypes, Queues!ReplyIsOwn
  <1>3. AwaitInv
    BY DEF Queues!Init, AwaitInv, InChannel, InWorker, Range, Queues!QueueAssumption
  <1> QED
    BY <1>1, <1>2, <1>3, Zenon DEF QueueInv

\* The senders take a reply that is theirs.
LEMMA QueueSender ==
    ASSUME Queues!QueueAssumption, QueueInv, NEW m \in Queues!Messages,
           Queues!Enqueue(m) \/ Queues!GetReply(m) \/ Queues!Deadline(m)
    PROVE  QueueInv'
  <1>1. PlaceInv'
    BY PlaceSender, Zenon DEF QueueInv
  <1>2. UNCHANGED <<queReply, queStage, queLp, queHeld, queRes, queResult, queOut, queWork, queTerminal, queExpired>>
    BY Zenon
    DEF Queues!Enqueue, Queues!GetReply, Queues!Deadline, Queues!runVars, Queues!listenVars,
        Queues!flowVars
  <1>3. OutcomeInv' /\ AwaitInv'
    BY <1>2
    DEF QueueInv, OutcomeInv, OutcomeTypes, Queues!ReplyIsOwn, AwaitInv, InChannel, InWorker
  <1> QED
    BY <1>1, <1>3, Zenon DEF QueueInv

\* A listener passes on the outcome of its own message.
LEMMA QueueListener ==
    ASSUME Queues!QueueAssumption, QueueInv, NEW l \in Listeners, Queues!Listener(l)
    PROVE  QueueInv'
  <1>0. QueueTypes /\ OutcomeTypes
    BY Zenon DEF QueueInv, PlaceInv, OutcomeInv
  <1>1. PlaceInv'
    BY PlaceListener, Zenon DEF QueueInv
  <1>2. UNCHANGED <<queStage, queTerminal, queResult, queWork>>
    BY Zenon
    DEF Queues!Listener, Queues!Consume, Queues!ListenerExit, Queues!Send, Queues!SendAborts,
        Queues!AwaitOutcome, Queues!AwaitEnds, Queues!Answer, Queues!runVars, Queues!flowVars
  <1>3. \A k \in Listeners \ {l} :
            queLp'[k] = queLp[k] /\ queHeld'[k] = queHeld[k] /\ queRes'[k] = queRes[k]
    BY <1>0
    DEF Queues!Listener, Queues!Consume, Queues!ListenerExit, Queues!Send, Queues!SendAborts,
        Queues!AwaitOutcome, Queues!AwaitEnds, Queues!Answer,
                Queues!HandleReturns, QueueTypes, OutcomeTypes
  <1>4. queLp[l] # "unborn"
    BY Zenon
    DEF Queues!Listener, Queues!Consume, Queues!ListenerExit, Queues!Send, Queues!SendAborts,
        Queues!AwaitOutcome, Queues!AwaitEnds, Queues!Answer
  <1>5. queStage' # "new"
    BY <1>2, <1>4, Zenon DEF QueueInv, AwaitInv
  <1>6. queRes' \in [Listeners -> Queues!Kinds \cup {NoMessage}]
    <2>1. \A k \in Queues!Kinds :
              Queues!HandleReturns(l, k) => queRes' \in [Listeners -> Queues!Kinds \cup {NoMessage}]
      BY <1>0, Zenon DEF Queues!HandleReturns, OutcomeTypes
    <2>2. Queues!AwaitOutcome(l) => queResult[queHeld[l]] \in Queues!Kinds
      BY <1>0, Zenon DEF Queues!AwaitOutcome, OutcomeTypes, QueueTypes
    <2> QED
      BY <1>0, <2>1, <2>2, Zenon
      DEF Queues!Listener, Queues!Consume, Queues!ListenerExit, Queues!Send, Queues!SendAborts,
          Queues!AwaitOutcome, Queues!AwaitEnds, Queues!Answer, OutcomeTypes, Queues!Kinds
  <1>7. OutcomeInv'
    <2>1. CASE Queues!Consume(l) \/ Queues!ListenerExit(l) \/ Queues!Send(l)
      <3>1. queReply' = queReply /\ queRes' = queRes /\ queLp'[l] # "answer"
        BY <1>0, <2>1, Zenon DEF Queues!Consume, Queues!ListenerExit, Queues!Send, QueueTypes
      <3> QED
        BY <1>2, <1>3, <3>1, ZenonT(60) DEF QueueInv, OutcomeInv, OutcomeTypes, Queues!ReplyIsOwn
    <2>2. CASE Queues!SendAborts(l) \/ Queues!AwaitEnds(l)
      <3>1. queReply' = queReply /\ queRes'[l] = "failed"
        BY <1>0, <2>2, Zenon
        DEF Queues!SendAborts, Queues!AwaitEnds, Queues!HandleReturns, OutcomeTypes
      <3> QED
        BY <1>2, <1>3, <1>6, <3>1
        DEF QueueInv, OutcomeInv, OutcomeTypes, Queues!ReplyIsOwn, Queues!Kinds
    <2>3. CASE Queues!AwaitOutcome(l)
      <3>1. /\ queReply' = queReply /\ queHeld' = queHeld /\ queRes'[l] = queResult[queHeld[l]]
            /\ queHeld[l] \in Queues!Messages /\ queResult[queHeld[l]] \in Queues!Kinds
        BY <1>0, <2>3, Zenon DEF Queues!AwaitOutcome, Queues!HandleReturns, QueueTypes, OutcomeTypes
      <3>2. queRes'[l] = queTerminal[queHeld[l]]
        BY <2>3, <3>1, Zenon DEF Queues!AwaitOutcome, QueueInv, OutcomeInv
      <3> QED
        BY <1>2, <1>3, <1>6, <3>1, <3>2, ZenonT(60) DEF QueueInv, OutcomeInv, OutcomeTypes, Queues!ReplyIsOwn
    <2>4. CASE Queues!Answer(l)
      <3>1. /\ queHeld[l] \in Queues!Messages /\ queLp'[l] = "idle" /\ queRes[l] \in Queues!Kinds
            /\ queRes[l] # "failed" => queRes[l] = queTerminal[queHeld[l]]
        BY <1>0, <2>4, Zenon DEF Queues!Answer, QueueTypes, QueueInv, OutcomeInv
      <3>2. \/ queReply' = queReply
            \/ /\ queHeld[l] \in Requested /\ queRes[l] # "failed"
               /\ queReply' = [queReply EXCEPT ![queHeld[l]] = queRes[l]]
        BY <2>4, Zenon DEF Queues!Answer
      <3>3. queReply' \in [Queues!Messages -> Queues!Kinds \cup {NoMessage}]
        BY <1>0, <3>1, <3>2, Zenon DEF OutcomeTypes
      <3>4. Queues!ReplyIsOwn'
        BY <1>0, <1>2, <3>1, <3>2, ZenonT(60) DEF QueueInv, OutcomeInv, OutcomeTypes, Queues!ReplyIsOwn
      <3> QED
        BY <1>2, <1>3, <1>6, <3>1, <3>3, <3>4, ZenonT(60) DEF QueueInv, OutcomeInv, OutcomeTypes
    <2> QED
      BY <2>1, <2>2, <2>3, <2>4, Zenon DEF Queues!Listener
  <1>8. AwaitInv'
    <2> SUFFICES ASSUME queExpired' = {}, NEW m \in Queues!Messages, InChannel(m)' \/ InWorker(m)'
                 PROVE  \E k \in Listeners : queLp'[k] = "await" /\ queHeld'[k] = m
      BY <1>5, Zenon DEF AwaitInv
    <2>1. queExpired = {} /\ ~Queues!AwaitEnds(l)
      BY Zenon
      DEF Queues!Listener, Queues!Consume, Queues!ListenerExit, Queues!Send, Queues!SendAborts,
          Queues!AwaitOutcome, Queues!AwaitEnds, Queues!Answer
    <2>2. CASE Queues!Send(l)
      <3>1. queLp'[l] = "await" /\ queHeld' = queHeld
        BY <1>0, <2>2, Zenon DEF Queues!Send, QueueTypes
      <3>2. InChannel(m) \/ InWorker(m) \/ m = queHeld[l]
        <4>1. queHeld[l] \in Queues!Messages /\ Handed(queHeld[l])
          BY <1>0, <2>2, Zenon DEF Queues!Send, QueueTypes, Handed
        <4>2. queHeld[l] \notin Range(queOut) /\ IsInjective(queOut)
          BY <4>1, Zenon DEF QueueInv, PlaceInv, QueuePlace, InChannel, QueueOnce
        <4>3. \A x : x \in Range(queOut') <=> x \in Range(queOut) \/ x = queHeld[l]
          BY <1>0, <2>2, <4>1, <4>2, AddLast, Zenon DEF Queues!Send, QueueTypes
        <4> QED
          BY <1>2, <4>3, Zenon DEF InChannel, InWorker
      <3>3. CASE m = queHeld[l]
        BY <3>1, <3>3, Zenon
      <3>4. CASE InChannel(m) \/ InWorker(m)
        <4>1. PICK k \in Listeners : queLp[k] = "await" /\ queHeld[k] = m
          BY <2>1, <3>4, Zenon DEF QueueInv, AwaitInv
        <4> QED
          BY <1>3, <2>2, <3>1, <4>1, Zenon DEF Queues!Send
      <3> QED
        BY <3>2, <3>3, <3>4, Zenon
    <2>3. CASE ~Queues!Send(l)
      <3>1. queOut' = queOut
        BY <2>1, <2>3, Zenon
        DEF Queues!Listener, Queues!Consume, Queues!ListenerExit, Queues!SendAborts,
            Queues!AwaitOutcome, Queues!Answer, Queues!flowVars
      <3>2. PICK k \in Listeners : queLp[k] = "await" /\ queHeld[k] = m
        BY <1>2, <2>1, <3>1, Zenon DEF QueueInv, AwaitInv, InChannel, InWorker
      <3>3. k # l
        <4>1. ASSUME k = l PROVE FALSE
          <5>1. Queues!AwaitOutcome(l)
            BY <2>1, <2>3, <3>2, <4>1, Zenon
            DEF Queues!Listener, Queues!Consume, Queues!ListenerExit, Queues!Send,
                Queues!SendAborts, Queues!Answer
          <5>2. queTerminal[m] # NoMessage
            BY <3>2, <4>1, <5>1, Zenon DEF Queues!AwaitOutcome, QueueInv, OutcomeInv
          <5> QED
            BY <1>2, <3>1, <5>2, Zenon
            DEF QueueInv, PlaceInv, QueuePlace, HasOutcome, InChannel, InWorker
        <4> QED
          BY <4>1, Zenon
      <3> QED
        BY <1>3, <3>2, <3>3, Zenon
    <2> QED
      BY <2>2, <2>3, Zenon
  <1> QED
    BY <1>1, <1>7, <1>8, Zenon DEF QueueInv

\* A worker ends the message it runs, for the first time, and for its listener.
LEMMA QueueWorker ==
    ASSUME Queues!QueueAssumption, QueueInv, NEW w \in Consumers,
           Queues!FlowTake(w) \/ Queues!FlowEnds(w) \/ Queues!FlowExit(w)
    PROVE  QueueInv'
  <1>0. QueueTypes /\ OutcomeTypes
    BY Zenon DEF QueueInv, PlaceInv, OutcomeInv
  <1>1. PlaceInv'
    BY PlaceWorker, Zenon DEF QueueInv
  <1>2. UNCHANGED <<queStage, queLp, queHeld, queRes, queReply, queExpired>>
    BY Zenon
    DEF Queues!FlowTake, Queues!FlowEnds, Queues!FlowExit, Queues!runVars, Queues!listenVars
  <1>3. OutcomeInv'
    <2>1. CASE Queues!FlowTake(w) \/ Queues!FlowExit(w)
      <3>1. UNCHANGED <<queResult, queTerminal>>
        BY <2>1, Zenon DEF Queues!FlowTake, Queues!FlowExit
      <3> QED
        BY <1>2, <3>1, Zenon DEF QueueInv, OutcomeInv, OutcomeTypes, Queues!ReplyIsOwn
    <2>2. CASE Queues!FlowEnds(w)
      <3> DEFINE m == queWork[w]
      <3>1. m \in Queues!Messages /\ queTerminal[m] = NoMessage
        BY <1>0, <2>2, Zenon
        DEF Queues!FlowEnds, QueueTypes, QueueInv, PlaceInv, QueuePlace, InWorker, HasOutcome
      <3>2. PICK k \in Queues!Kinds :
              /\ queTerminal' = [queTerminal EXCEPT ![m] = k]
              /\ queResult' = queResult \/ queResult' = [queResult EXCEPT ![m] = k]
        BY <2>2, Zenon DEF Queues!FlowEnds
      <3> HIDE DEF m
      <3>3. k # NoMessage
        BY Zenon DEF Queues!QueueAssumption
      <3>4. queResult' \in [Queues!Messages -> Queues!Kinds \cup {NoMessage}]
        BY <1>0, <3>1, <3>2, Zenon DEF OutcomeTypes
      <3>5. queResult[m] = NoMessage /\ queReply[m] = NoMessage
        BY <1>0, <3>1, Zenon DEF QueueInv, OutcomeInv, OutcomeTypes, Queues!ReplyIsOwn
      <3>6. \A n \in Queues!Messages : queResult'[n] # NoMessage => queResult'[n] = queTerminal'[n]
        BY <1>0, <3>1, <3>2, <3>5 DEF QueueInv, OutcomeInv, OutcomeTypes, QueueTypes
      <3>7. Queues!ReplyIsOwn'
        BY <1>0, <1>2, <3>1, <3>2, <3>5, Zenon
        DEF QueueInv, OutcomeInv, OutcomeTypes, Queues!ReplyIsOwn, QueueTypes
      <3>8. ASSUME NEW l \in Listeners, queLp[l] = "answer"
            PROVE  queRes[l] \in Queues!Kinds /\ (queRes[l] # "failed" => queRes[l] = queTerminal'[queHeld[l]])
        <4>1. queHeld[l] \in Queues!Messages /\ queRes[l] \in Queues!Kinds
              /\ (queRes[l] # "failed" => queRes[l] = queTerminal[queHeld[l]])
          BY <1>0, <3>8, Zenon DEF QueueTypes, QueueInv, OutcomeInv
        <4>2. queRes[l] # "failed" => queHeld[l] # m
          BY <3>1, <4>1, Zenon DEF Queues!QueueAssumption
        <4> QED
          BY <1>0, <3>2, <4>1, <4>2, Zenon DEF QueueTypes
      <3> QED
        BY <1>0, <1>2, <3>4, <3>6, <3>7, <3>8, Zenon DEF OutcomeInv, OutcomeTypes
    <2> QED
      BY <2>1, <2>2, Zenon
  <1>4. AwaitInv'
    <2>1. ASSUME NEW m \in Queues!Messages, InChannel(m)' \/ InWorker(m)'
          PROVE  InChannel(m) \/ InWorker(m)
      <3>1. CASE Queues!FlowTake(w)
        <4>1. /\ Head(queOut) \in Range(queOut)
              /\ \A x : x \in Range(Tail(queOut)) => x \in Range(queOut)
          BY <1>0, <3>1, TakeHead, Zenon
          DEF Queues!FlowTake, QueueTypes, QueueInv, PlaceInv, QueueOnce
        <4> QED
          BY <1>0, <2>1, <3>1, <4>1, Zenon DEF Queues!FlowTake, InChannel, InWorker, QueueTypes
      <3>2. CASE Queues!FlowEnds(w)
        <4>1. \A v \in Consumers : queWork'[v] = m => queWork[v] = m
          BY <1>0, <3>2, Zenon DEF Queues!FlowEnds, QueueTypes, Queues!QueueAssumption
        <4> QED
          BY <2>1, <3>2, <4>1, Zenon DEF Queues!FlowEnds, InChannel, InWorker
      <3>3. CASE Queues!FlowExit(w)
        BY <2>1, <3>3, Zenon DEF Queues!FlowExit, InChannel, InWorker
      <3> QED
        BY <3>1, <3>2, <3>3, Zenon
    <2> QED
      BY <1>2, <2>1, Zenon DEF QueueInv, AwaitInv
  <1> QED
    BY <1>1, <1>3, <1>4, Zenon DEF QueueInv

\* Starting and stopping leave outcomes and waits alone.
LEMMA QueueService ==
    ASSUME Queues!QueueAssumption, QueueInv,
           Queues!Start \/ Queues!EndContext \/ Queues!CloseDone \/ Queues!Stopping \/ UNCHANGED Queues!vars
    PROVE  QueueInv'
  <1>1. PlaceInv'
    BY PlaceService, Zenon DEF QueueInv
  <1>2. UNCHANGED <<queReply, queHeld, queRes, queResult, queOut, queWork, queTerminal, queExpired>>
    BY Zenon
    DEF Queues!Start, Queues!EndContext, Queues!CloseDone, Queues!Stopping,
        Queues!CancelSubscription, Queues!AwaitListeners, Queues!CloseOut, Queues!AwaitWorkers,
        Queues!Move, Queues!vars, Queues!listenVars, Queues!flowVars
  <1>3. \/ UNCHANGED <<queLp, queStage>>
        \/ queLp' = queLp /\ queStage' # "new"
        \/ Queues!Start
    BY Zenon
    DEF Queues!EndContext, Queues!CloseDone, Queues!Stopping, Queues!CancelSubscription,
        Queues!AwaitListeners, Queues!CloseOut, Queues!AwaitWorkers, Queues!Move, Queues!vars,
        Queues!listenVars
  <1>4. CASE queLp' = queLp /\ (queStage' = queStage \/ queStage' # "new")
    BY <1>1, <1>2, <1>4, Zenon
    DEF QueueInv, OutcomeInv, OutcomeTypes, Queues!ReplyIsOwn, AwaitInv, InChannel, InWorker
  <1>5. CASE Queues!Start
    <2>1. /\ \A l \in Listeners : queLp[l] = "unborn" /\ queLp'[l] = "idle"
          /\ queStage' = "active"
      BY <1>5, Zenon DEF Queues!Start, QueueInv, AwaitInv
    <2> QED
      BY <1>1, <1>2, <2>1, Zenon
      DEF QueueInv, OutcomeInv, OutcomeTypes, Queues!ReplyIsOwn, AwaitInv, InChannel, InWorker
  <1> QED
    BY <1>3, <1>4, <1>5, Zenon

\* Every step of the queue.
LEMMA QueueStep ==
    ASSUME Queues!QueueAssumption, QueueInv, [Queues!Next]_(Queues!vars)
    PROVE  QueueInv'
  BY QueueSender, QueueListener, QueueWorker, QueueService, Zenon DEF Queues!Next, Queues!Over

\* The inductive invariant of the queue holds in every state.
LEMMA QueueInvariant == ASSUME Queues!QueueAssumption PROVE Queues!Spec => []QueueInv
  <1>1. Queues!Init => QueueInv
    BY QueueInit, Zenon
  <1>2. QueueInv /\ [Queues!Next]_(Queues!vars) => QueueInv'
    BY QueueStep, Zenon
  <1> QED
    BY <1>1, <1>2, PTL DEF Queues!Spec

-----------------------------------------------------------------------------
(* The theorems.                                                           *)

\* Whatever the interleaving of senders, listeners, workers, deadlines and the
\* stop of the service, a requester of the standalone queue only ever receives
\* the outcome of its own message, and never that of a failed flow.
THEOREM RepliesAreOwn == Queues!Spec => []ReplyIsOwn
  <1>1. QueueInv => ReplyIsOwn
    BY Zenon DEF QueueInv, OutcomeInv, ReplyIsOwn
  <1>2. Queues!Spec => []QueueInv
    BY QueuesAssumption, QueueInvariant, Zenon
  <1> QED
    BY <1>1, <1>2, PTL

\* The operators of the library that QueueFlow uses are those of this module.
LEMMA SameOperators ==
    /\ \A S : Queues!IsFiniteSet(S) = IsFiniteSet(S)
    /\ \A S : Queues!Cardinality(S) = Cardinality(S)
    /\ \A f : Queues!Range(f) = Range(f)
  <1>1. \A S : Queues!IsFiniteSet(S) = IsFiniteSet(S)
    BY Zenon DEF Queues!IsFiniteSet, IsFiniteSet
  <1>2. \A S : Queues!Cardinality(S) = Cardinality(S)
    BY Zenon DEF Queues!Cardinality, Cardinality, Queues!IsFiniteSet, IsFiniteSet
  <1>3. \A f : Queues!Range(f) = Range(f)
    BY Zenon DEF Queues!Range, Range
  <1> QED
    BY <1>1, <1>2, <1>3, Zenon

\* The messages in the flow are held by different waiting listeners.
LEMMA AwaitBound ==
    ASSUME Queues!QueueAssumption, QueueInv, queExpired = {}
    PROVE  Cardinality(Queues!InFlow) <= Cardinality(Listeners)
  <1> DEFINE L == {l \in Listeners : queLp[l] = "await"}
             H == {queHeld[l] : l \in L}
             f == [l \in L |-> queHeld[l]]
  <1>1. Queues!InFlow \subseteq H
    <2> SUFFICES ASSUME NEW m \in Queues!InFlow PROVE m \in H
      OBVIOUS
    <2>1. m \in Queues!Messages /\ (InChannel(m) \/ InWorker(m))
      BY SameOperators DEF Queues!InFlow, InChannel, InWorker, QueueInv, PlaceInv, QueueTypes, Range
    <2> QED
      BY <2>1, Zenon DEF QueueInv, AwaitInv
  <1>2. /\ IsFiniteSet(L) /\ Cardinality(L) <= Cardinality(Listeners)
        /\ Cardinality(L) \in Nat /\ Cardinality(Listeners) \in Nat
    BY SameOperators, FS_Subset, FS_CardinalityType, Zenon DEF Queues!QueueAssumption
  <1>3. f \in Surjection(L, H)
    BY Zenon DEF Surjection
  <1>4. IsFiniteSet(H) /\ Cardinality(H) <= Cardinality(L)
    <2> HIDE DEF L, H, f
    <2> QED
      BY <1>2, <1>3, FS_Surjection
  <1>5. Cardinality(H) \in Nat /\ Cardinality(Queues!InFlow) \in Nat /\ Cardinality(Queues!InFlow) <= Cardinality(H)
    <2> HIDE DEF L, H, f
    <2> QED
      BY <1>1, <1>4, FS_Subset, FS_CardinalityType, Zenon
  <1> QED
    BY <1>2, <1>4, <1>5

\* The queue source bounds the work in the flow by the number of its listeners,
\* for any number of them, until a listener's wait for an outcome expires.
THEOREM InFlowIsBounded == Queues!Spec => []BoundedUnlessExpired
  <1>1. QueueInv => BoundedUnlessExpired
    BY QueuesAssumption, AwaitBound, SameOperators, Zenon
    DEF BoundedUnlessExpired, Queues!BoundedUnlessExpired
  <1>2. Queues!Spec => []QueueInv
    BY QueuesAssumption, QueueInvariant, Zenon
  <1> QED
    BY <1>1, <1>2, PTL

=============================================================================
