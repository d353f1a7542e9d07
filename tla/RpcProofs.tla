----------------------------- MODULE RpcProofs -----------------------------
(***************************************************************************)
(* Proofs about Rpc, for any clients, callers and methods: a call returns  *)
(* the answer to its own request, and a server that has stopped is quiet.  *)
(***************************************************************************)
EXTENDS Rpc, FiniteSetTheorems, TLAPS

Response == [to : Callers, known : BOOLEAN]

ServerType ==
    /\ serve \in {"start", "accept", "add", "returned"}
    /\ accepted \in Clients \union {None}
    /\ listener \in {"none", "open", "closed"}
    /\ stop \in {"none", "listener", "wait", "waitUnheard", "stopped", "stoppedUnheard"}
    /\ wg \in Int

ConnType ==
    /\ conn \in [Clients -> {"none", "backlog", "accepted", "read", "handle", "gone"}]
    /\ client \in [Clients -> {"new", "open", "closed", "broken"}]

WireType ==
    /\ requests \in [Clients -> Seq(Callers)]
    /\ responses \in [Clients -> Seq(Response)]
    /\ found \in [Clients -> BOOLEAN]

CallType ==
    /\ call \in [Callers -> {"none", "lock", "send", "await", "returned"}]
    /\ mu \in [Clients -> Callers \union {None}]
    /\ result \in [Callers -> Callers \union {None, "error", "unknown"}]

RpcType == ServerType /\ ConnType /\ WireType /\ CallType

-----------------------------------------------------------------------------
\* The connection: what was dialled stays so, the one between Accept and Add is
\* nobody else's, and a handler has a request.
ConnInv ==
    /\ \A c \in Clients : client[c] = "new" <=> conn[c] = "none"
    /\ serve = "add" => accepted \in Clients /\ conn[accepted] = "accepted"
    /\ \A c \in Clients : conn[c] = "handle" => requests[c] # <<>>
    /\ \A p \in Callers : call[p] # "none" => client[ClientOf[p]] # "new"

\* The mutex: who sends or waits for a response holds it.
MutexInv == \A p \in Callers : call[p] \in {"send", "await"} => mu[ClientOf[p]] = p

Abandoned(c) == client[c] # "new" /\ ~Up(c)

Empty(c) == requests[c] = <<>> /\ responses[c] = <<>>

\* The wire of c has the request of q, or the response to it, and nothing else.
Carries(c, q) ==
    \/ requests[c] = <<q>> /\ responses[c] = <<>>
    \/ requests[c] = <<>> /\ \E m \in Response : responses[c] = <<m>> /\ m.to = q

Nobody(c) == \A p \in Callers : ClientOf[p] = c => call[p] # "await"

\* The wire: it has one message at most.  It belongs to the caller that waits; if
\* nobody does, the connection has been given up and is never used again.
WireInv ==
    \A c \in Clients :
        \/ Empty(c)
        \/ \E q \in Callers : /\ ClientOf[q] = c
                              /\ Carries(c, q)
                              /\ call[q] = "await" \/ (Abandoned(c) /\ Nobody(c))

CallInv == RpcType /\ ConnInv /\ MutexInv /\ WireInv /\ OwnAnswer

Served == {c \in Clients : conn[c] \in {"read", "handle"}}

\* Stop: wg counts the connections that are served.  No connection waits for an
\* Accept without a listener, a listener that Stop has closed stays closed, and
\* when Wait has returned there is at most the connection that it did not know of.
StopInv ==
    /\ IsFiniteSet(Served) /\ wg = Cardinality(Served)
    /\ \A c \in Clients : conn[c] = "backlog" => listener = "open"
    /\ serve = "start" => listener = "none"
    /\ stop \in {"wait", "stopped"} => listener = "closed"
    /\ stop = "stopped" => Served \subseteq {late} /\ accepted \in {None, late}

-----------------------------------------------------------------------------
\* Every step keeps the types.
LEMMA RpcTypeNext == RpcType /\ ConnInv /\ [Next]_vars => RpcType'
<1> SUFFICES ASSUME RpcType, ConnInv, [Next]_vars PROVE RpcType'
  OBVIOUS
<1> USE RpcAssumption
<1>0. ServerType /\ ConnType /\ WireType /\ CallType
  BY DEF RpcType
<1>1. CASE ServeStep
  <2>1. ServerType' /\ ConnType'
    BY <1>0, <1>1 DEF ServeStep, Listen, Add, AcceptFails, Accept, ConnInv, ServerType, ConnType
  <2>2. UNCHANGED <<requests, responses, found, callers>>
    BY <1>1 DEF ServeStep, Listen, Add, AcceptFails, Accept
  <2> QED BY <1>0, <2>1, <2>2 DEF RpcType, WireType, CallType, callers
<1>2. CASE CloseDone \/ StopStep
  <2>1. ServerType' /\ ConnType'
    BY <1>0, <1>2 DEF CloseDone, StopStep, CloseListener, Wait, Closed, ServerType, ConnType
  <2>2. UNCHANGED <<requests, responses, found, callers>>
    BY <1>2 DEF CloseDone, StopStep, CloseListener, Wait
  <2> QED BY <1>0, <2>1, <2>2 DEF RpcType, WireType, CallType, callers
<1>3. ASSUME NEW m \in Methods, Register(m) PROVE RpcType'
  <2>1. UNCHANGED <<serve, accepted, listener, stop, wg, conn, client, requests, responses, found,
                    call, mu, result>>
    BY <1>3 DEF Register, callers
  <2> QED BY <1>0, <2>1 DEF RpcType, ServerType, ConnType, WireType, CallType
<1>4. ASSUME NEW c \in Clients, Decode(c) PROVE RpcType'
  <2>1. ConnType' /\ WireType'
    BY <1>0, <1>4 DEF Decode, ConnType, WireType
  <2>2. UNCHANGED <<server, callers>>
    BY <1>4 DEF Decode
  <2> QED BY <1>0, <2>1, <2>2 DEF RpcType, ServerType, CallType, server, callers
<1>5. ASSUME NEW c \in Clients, Respond(c) PROVE RpcType'
  <2>1. requests[c] \in Seq(Callers) /\ requests[c] # <<>> /\ found[c] \in BOOLEAN
    BY <1>0, <1>5 DEF Respond, ConnInv, WireType
  <2>2. Head(requests[c]) \in Callers /\ Tail(requests[c]) \in Seq(Callers)
    BY <2>1
  <2>3. [to |-> Head(requests[c]), known |-> found[c]] \in Response
    BY <2>1, <2>2 DEF Response
  <2>4. Append(responses[c], [to |-> Head(requests[c]), known |-> found[c]]) \in Seq(Response)
    BY <1>0, <2>3 DEF WireType
  <2>5. WireType'
    BY <1>0, <1>5, <2>2, <2>4 DEF Respond, WireType
  <2>6. ConnType' /\ UNCHANGED <<server, callers>>
    BY <1>0, <1>5 DEF Respond, ConnType
  <2> QED BY <1>0, <2>5, <2>6 DEF RpcType, ServerType, CallType, server, callers
<1>6. ASSUME NEW c \in Clients, HangUp(c) \/ Dial(c) \/ Close(c) \/ Drop(c) PROVE RpcType'
  <2>1. ServerType' /\ ConnType'
    BY <1>0, <1>6 DEF HangUp, Done, Dial, Close, Drop, server, ServerType, ConnType
  <2>2. UNCHANGED <<requests, responses, found, callers>>
    BY <1>6 DEF HangUp, Dial, Close, Drop
  <2> QED BY <1>0, <2>1, <2>2 DEF RpcType, WireType, CallType, callers
<1>7. ASSUME NEW p \in Callers, Call(p) \/ Lock(p) PROVE RpcType'
  <2>1. CallType'
    BY <1>0, <1>7 DEF Call, Lock, CallType
  <2>2. UNCHANGED <<server, conn, client, requests, responses, found>>
    BY <1>7 DEF Call, Lock
  <2> QED BY <1>0, <2>1, <2>2 DEF RpcType, ServerType, ConnType, WireType, server
<1>8. ASSUME NEW p \in Callers, Send(p) PROVE RpcType'
  <2>1. CallType'
    BY <1>0, <1>8 DEF Send, Return, Unlocked, Sent, CallType
  <2>2. WireType'
    <3>1. Append(requests[ClientOf[p]], p) \in Seq(Callers)
      BY <1>0 DEF WireType
    <3>2. /\ \/ requests' = [requests EXCEPT ![ClientOf[p]] = Append(requests[ClientOf[p]], p)]
             \/ requests' = requests
          /\ UNCHANGED <<responses, found>>
      BY <1>8 DEF Send
    <3>3. requests' \in [Clients -> Seq(Callers)]
      BY <1>0, <3>1, <3>2 DEF WireType
    <3> QED BY <1>0, <3>2, <3>3 DEF WireType
  <2>3. UNCHANGED <<server, conn, client>>
    BY <1>8 DEF Send
  <2> QED BY <1>0, <2>1, <2>2, <2>3 DEF RpcType, ServerType, ConnType, server
<1>9. ASSUME NEW p \in Callers, Receive(p) PROVE RpcType'
  <2> DEFINE c == ClientOf[p]
  <2>1. responses[c] \in Seq(Response)
    BY <1>0 DEF WireType
  <2>2. responses[c] # <<>> => Head(responses[c]) \in Response /\ Tail(responses[c]) \in Seq(Response)
    BY <2>1
  <2>3. responses[c] # <<>> => Head(responses[c]).to \in Callers
    BY <2>2 DEF Response
  <2>4. CallType'
    BY <1>0, <1>9, <2>3 DEF Receive, Return, Unlocked, CallType
  <2>5. WireType'
    BY <1>0, <1>9, <2>2 DEF Receive, WireType
  <2>6. UNCHANGED <<server, conn, client>>
    BY <1>9 DEF Receive
  <2> QED BY <1>0, <2>4, <2>5, <2>6 DEF RpcType, ServerType, ConnType, server
<1>10. CASE UNCHANGED vars
  BY <1>0, <1>10 DEF vars, server, callers, RpcType, ServerType, ConnType, WireType, CallType
<1> QED
  BY <1>1, <1>2, <1>3, <1>4, <1>5, <1>6, <1>7, <1>8, <1>9, <1>10 DEF Next, ConnStep, CallStep

\* Every step keeps what ConnInv says of the connections.
LEMMA ConnNext == RpcType /\ ConnInv /\ [Next]_vars => ConnInv'
<1> SUFFICES ASSUME RpcType, ConnInv, [Next]_vars PROVE ConnInv'
  OBVIOUS
<1> USE RpcAssumption
<1>0. ServerType /\ ConnType /\ WireType /\ CallType
  BY DEF RpcType
<1>1. CASE ServeStep
  BY <1>0, <1>1 DEF ServeStep, Listen, Add, AcceptFails, Accept, callers, ConnInv, ServerType,
     ConnType
<1>2. CASE CloseDone \/ StopStep
  BY <1>0, <1>2 DEF CloseDone, StopStep, CloseListener, Wait, callers, ConnInv, ServerType,
     ConnType
<1>3. ASSUME NEW m \in Methods, Register(m) PROVE ConnInv'
  BY <1>3 DEF Register, callers, ConnInv
<1>4. ASSUME NEW c \in Clients, Decode(c) PROVE ConnInv'
  BY <1>0, <1>4 DEF Decode, server, callers, ConnInv, ConnType
<1>5. ASSUME NEW c \in Clients, Respond(c) PROVE ConnInv'
  BY <1>0, <1>5 DEF Respond, server, callers, ConnInv, ConnType
<1>6. ASSUME NEW c \in Clients, HangUp(c) \/ Dial(c) \/ Close(c) \/ Drop(c) PROVE ConnInv'
  <2>1. CASE HangUp(c)
    BY <1>0, <2>1 DEF HangUp, callers, ConnInv, ConnType
  <2>2. CASE Dial(c)
    BY <1>0, <2>2 DEF Dial, server, callers, ConnInv, ConnType
  <2>3. CASE Close(c) \/ Drop(c)
    BY <1>0, <2>3 DEF Close, Drop, server, callers, ConnInv, ConnType
  <2> QED BY <1>6, <2>1, <2>2, <2>3
<1>7. ASSUME NEW p \in Callers, Call(p) \/ Lock(p) PROVE ConnInv'
  BY <1>0, <1>7 DEF Call, Lock, server, ConnInv, CallType
<1>8. ASSUME NEW p \in Callers, Send(p) PROVE ConnInv'
  <2>1. UNCHANGED <<server, conn, client>> /\ \A q \in Callers : call'[q] # "none" => call[q] # "none"
    BY <1>0, <1>8 DEF Send, Return, CallType
  <2>2. \A c \in Clients : requests[c] # <<>> => requests'[c] # <<>>
    <3>1. \/ requests' = [requests EXCEPT ![ClientOf[p]] = Append(requests[ClientOf[p]], p)]
          \/ requests' = requests
      BY <1>8 DEF Send
    <3>2. Append(requests[ClientOf[p]], p) # <<>>
      <4>1. requests[ClientOf[p]] \in Seq(Callers)
        BY <1>0 DEF WireType
      <4> QED BY <4>1
    <3> QED BY <1>0, <3>1, <3>2 DEF WireType
  <2> QED BY <2>1, <2>2 DEF ConnInv, server
<1>9. ASSUME NEW p \in Callers, Receive(p) PROVE ConnInv'
  BY <1>0, <1>9 DEF Receive, Return, server, ConnInv, CallType
<1>10. CASE UNCHANGED vars
  BY <1>10 DEF vars, server, callers, ConnInv
<1> QED
  BY <1>1, <1>2, <1>3, <1>4, <1>5, <1>6, <1>7, <1>8, <1>9, <1>10 DEF Next, ConnStep, CallStep

\* A connection that was given up is not used again.
LEMMA AbandonedStays ==
  ASSUME RpcType, ConnInv, [Next]_vars, NEW c \in Clients, Abandoned(c)
  PROVE  Abandoned(c)'
<1> USE RpcAssumption DEF Abandoned, Up
<1>0. ServerType /\ ConnType
  BY DEF RpcType
<1>1. CASE ServeStep
  BY <1>0, <1>1 DEF ServeStep, Listen, Add, AcceptFails, Accept, ConnInv, ServerType, ConnType
<1>2. CASE CloseDone \/ StopStep
  BY <1>0, <1>2 DEF CloseDone, StopStep, CloseListener, Wait, ConnType
<1>3. ASSUME NEW m \in Methods, Register(m) PROVE Abandoned(c)'
  BY <1>3 DEF Register
<1>4. ASSUME NEW d \in Clients, ConnStep(d) \/ Dial(d) \/ Close(d) \/ Drop(d) PROVE Abandoned(c)'
  BY <1>0, <1>4 DEF ConnStep, Decode, Respond, HangUp, Dial, Close, Drop, ConnType
<1>5. ASSUME NEW p \in Callers, Call(p) \/ CallStep(p) PROVE Abandoned(c)'
  BY <1>5 DEF Call, CallStep, Lock, Send, Receive
<1>6. CASE UNCHANGED vars
  BY <1>6 DEF vars
<1> QED BY <1>1, <1>2, <1>3, <1>4, <1>5, <1>6 DEF Next

\* Every step keeps the mutex with its holder.
LEMMA MutexNext == RpcType /\ MutexInv /\ [Next]_vars => MutexInv'
<1> SUFFICES ASSUME RpcType, MutexInv, [Next]_vars PROVE MutexInv'
  OBVIOUS
<1> USE RpcAssumption DEF MutexInv
<1>0. CallType
  BY DEF RpcType
<1>1. CASE UNCHANGED <<call, mu>>
  BY <1>1
<1>2. ASSUME NEW p \in Callers, Call(p) \/ Lock(p) PROVE MutexInv'
  BY <1>0, <1>2 DEF Call, Lock, CallType
<1>3. ASSUME NEW p \in Callers, Send(p) PROVE MutexInv'
  BY <1>0, <1>3 DEF Send, Return, Unlocked, Sent, CallType
<1>4. ASSUME NEW p \in Callers, Receive(p) PROVE MutexInv'
  BY <1>0, <1>4 DEF Receive, Return, Unlocked, CallType
<1> QED
  BY <1>1, <1>2, <1>3, <1>4 DEF Next, ServeStep, Listen, Add, AcceptFails, Accept, CloseDone,
     StopStep, CloseListener, Wait, Register, ConnStep, Decode, Respond, HangUp, Dial, Close, Drop,
     CallStep, callers, vars

\* Sequences of one element.
LEMMA OneElement ==
  ASSUME NEW x
  PROVE  /\ <<x>> # <<>> /\ Head(<<x>>) = x /\ Tail(<<x>>) = <<>>
         /\ Append(<<>>, x) = <<x>>
OBVIOUS

\* A step that moves no message and lets nobody begin or cease to wait.
LEMMA WireUntouched ==
  ASSUME RpcType, ConnInv, WireInv, [Next]_vars, NEW c \in Clients,
         requests'[c] = requests[c], responses'[c] = responses[c],
         \A q \in Callers : ClientOf[q] = c => (call'[q] = "await" <=> call[q] = "await")
  PROVE  \/ Empty(c)'
         \/ \E q \in Callers : /\ ClientOf[q] = c
                               /\ Carries(c, q)'
                               /\ call'[q] = "await" \/ (Abandoned(c)' /\ Nobody(c)')
<1>1. CASE Empty(c)
  BY <1>1 DEF Empty
<1>2. CASE ~Empty(c)
  <2>1. PICK q \in Callers : /\ ClientOf[q] = c
                             /\ Carries(c, q)
                             /\ call[q] = "await" \/ (Abandoned(c) /\ Nobody(c))
    BY <1>2 DEF WireInv
  <2>2. Carries(c, q)'
    BY <2>1 DEF Carries
  <2>3. Nobody(c) => Nobody(c)'
    BY DEF Nobody
  <2> QED BY <2>1, <2>2, <2>3, AbandonedStays
<1> QED BY <1>1, <1>2

\* Every step keeps the wire with the caller that waits.
LEMMA WireNext ==
  RpcType /\ ConnInv /\ MutexInv /\ WireInv /\ [Next]_vars => WireInv'
<1> SUFFICES ASSUME RpcType, ConnInv, MutexInv, WireInv, [Next]_vars PROVE WireInv'
  OBVIOUS
<1> USE RpcAssumption
<1>0. ConnType /\ WireType /\ CallType
  BY DEF RpcType
<1>1. CASE UNCHANGED <<requests, responses, call>>
  BY <1>1, WireUntouched DEF WireInv
<1>2. ASSUME NEW c \in Clients, Respond(c) PROVE WireInv'
  <2> DEFINE m == [to |-> Head(requests[c]), known |-> found[c]]
  <2>1. /\ requests' = [requests EXCEPT ![c] = Tail(requests[c])]
        /\ responses' = [responses EXCEPT ![c] = Append(responses[c], m)]
        /\ UNCHANGED <<call, client>> /\ conn' = [conn EXCEPT ![c] = "read"]
        /\ requests[c] # <<>>
    BY <1>2 DEF Respond, callers, ConnInv
  <2>2. PICK q \in Callers : /\ ClientOf[q] = c
                             /\ requests[c] = <<q>> /\ responses[c] = <<>>
                             /\ call[q] = "await" \/ (Abandoned(c) /\ Nobody(c))
    BY <2>1 DEF WireInv, Empty, Carries
  <2>3. m \in Response /\ m.to = q
    BY <1>0, <2>2, OneElement DEF WireType, Response
  <2>4. requests'[c] = <<>> /\ responses'[c] = <<m>>
    BY <1>0, <2>1, <2>2, OneElement DEF WireType
  <2> HIDE DEF m
  <2>5. Carries(c, q)'
    BY <2>3, <2>4 DEF Carries
  <2>6. Nobody(c) => Nobody(c)'
    BY <2>1 DEF Nobody
  <2>7. call'[q] = "await" \/ (Abandoned(c)' /\ Nobody(c)')
    BY <2>1, <2>2, <2>6, AbandonedStays
  <2>8. \A d \in Clients \ {c} : requests'[d] = requests[d] /\ responses'[d] = responses[d]
    BY <1>0, <2>1 DEF WireType
  <2> QED BY <2>1, <2>2, <2>5, <2>7, <2>8, WireUntouched DEF WireInv
<1>3. ASSUME NEW p \in Callers, Call(p) \/ Lock(p) PROVE WireInv'
  <2>1. UNCHANGED <<requests, responses>>
        /\ \A q \in Callers : call'[q] = "await" <=> call[q] = "await"
    BY <1>0, <1>3 DEF Call, Lock, CallType
  <2> QED BY <2>1, WireUntouched DEF WireInv
<1>4. ASSUME NEW p \in Callers, Send(p) PROVE WireInv'
  <2> DEFINE c == ClientOf[p]
  <2>1. c \in Clients /\ call[p] = "send" /\ mu[c] = p /\ UNCHANGED responses
    BY <1>4 DEF Send, MutexInv
  <2>2. CASE call' = [call EXCEPT ![p] = "returned"] /\ requests' = requests
    <3>1. \A q \in Callers : call'[q] = "await" <=> call[q] = "await"
      BY <1>0, <2>1, <2>2 DEF CallType
    <3> QED BY <2>1, <2>2, <3>1, WireUntouched DEF WireInv
  <2>3. CASE Up(c) /\ requests' = [requests EXCEPT ![c] = Append(requests[c], p)]
             /\ call' = [call EXCEPT ![p] = "await"]
    <3>1. Empty(c)
      BY <2>1, <2>3 DEF WireInv, Abandoned, MutexInv
    <3>2. requests'[c] = <<p>> /\ responses'[c] = <<>>
      BY <1>0, <2>1, <2>3, <3>1, OneElement DEF WireType, Empty
    <3>3. Carries(c, p)' /\ call'[p] = "await"
      BY <1>0, <2>3, <3>2 DEF Carries, CallType
    <3>4. \A d \in Clients \ {c} : requests'[d] = requests[d]
      BY <1>0, <2>3 DEF WireType
    <3>5. \A q \in Callers : ClientOf[q] # c => call'[q] = call[q]
      BY <1>0, <2>3 DEF CallType
    <3> QED BY <2>1, <3>3, <3>4, <3>5, WireUntouched DEF WireInv
  <2> QED BY <1>4, <2>2, <2>3 DEF Send, Return
<1>5. ASSUME NEW p \in Callers, Receive(p) PROVE WireInv'
  <2> DEFINE c == ClientOf[p]
  <2>1. c \in Clients /\ call[p] = "await" /\ mu[c] = p /\ UNCHANGED <<requests, client, conn>>
    BY <1>5 DEF Receive, MutexInv
  <2>2. call' = [call EXCEPT ![p] = "returned"]
    BY <1>5 DEF Receive, Return
  <2>3. \A q \in Callers : ClientOf[q] # c => call'[q] = call[q]
    BY <1>0, <2>2 DEF CallType
  <2>4. Nobody(c)'
    BY <1>0, <2>1, <2>2 DEF MutexInv, Nobody, CallType
  <2>5. CASE responses[c] # <<>> /\ responses' = [responses EXCEPT ![c] = Tail(responses[c])]
    <3>1. PICK m \in Response : requests[c] = <<>> /\ responses[c] = <<m>>
      BY <2>1, <2>5 DEF WireInv, Empty, Carries
    <3>2. Empty(c)'
      BY <1>0, <2>1, <2>5, <3>1, OneElement DEF Empty, WireType
    <3>3. \A d \in Clients \ {c} : responses'[d] = responses[d]
      BY <1>0, <2>5 DEF WireType
    <3> QED BY <2>1, <2>3, <3>2, <3>3, WireUntouched DEF WireInv
  <2>6. CASE ~Up(c) /\ UNCHANGED responses
    <3>1. Abandoned(c)'
      BY <2>1, <2>6 DEF Abandoned, ConnInv, Up
    <3>2. Empty(c) => Empty(c)'
      BY <2>1, <2>6 DEF Empty
    <3>3. \A q \in Callers : Carries(c, q) => Carries(c, q)'
      BY <2>1, <2>6 DEF Carries
    <3>4. \/ Empty(c)'
          \/ \E q \in Callers : ClientOf[q] = c /\ Carries(c, q)'
      BY <2>1, <3>2, <3>3 DEF WireInv
    <3> QED BY <2>1, <2>3, <2>4, <2>6, <3>1, <3>4, WireUntouched DEF WireInv
  <2> QED BY <1>5, <2>5, <2>6 DEF Receive
<1> QED
  BY <1>1, <1>2, <1>3, <1>4, <1>5 DEF Next, ServeStep, Listen, Add, AcceptFails, Accept, CloseDone,
     StopStep, CloseListener, Wait, Register, ConnStep, Decode, HangUp, Dial, Close, Drop, CallStep,
     callers, vars

\* A call that returns an answer returns its own.
LEMMA OwnAnswerNext == CallInv /\ [Next]_vars => OwnAnswer'
<1> SUFFICES ASSUME CallInv, [Next]_vars PROVE OwnAnswer'
  OBVIOUS
<1> USE RpcAssumption DEF OwnAnswer
<1>0. CallType /\ MutexInv /\ WireInv /\ OwnAnswer
  BY DEF CallInv, RpcType
<1>1. CASE UNCHANGED result
  BY <1>0, <1>1
<1>2. ASSUME NEW p \in Callers, Send(p) PROVE OwnAnswer'
  BY <1>0, <1>2 DEF Send, Return, CallType
<1>3. ASSUME NEW p \in Callers, Receive(p) PROVE OwnAnswer'
  <2> DEFINE c == ClientOf[p]
  <2>1. c \in Clients /\ call[p] = "await" /\ mu[c] = p
    BY <1>0, <1>3 DEF Receive, MutexInv
  <2>2. responses[c] # <<>> => \E q \in Callers : Carries(c, q) /\ ClientOf[q] = c /\ call[q] = "await"
    BY <1>0, <2>1 DEF WireInv, Empty, Nobody
  <2>3. responses[c] # <<>> => Carries(c, p)
    BY <1>0, <2>1, <2>2 DEF MutexInv
  <2>4. responses[c] # <<>> => Head(responses[c]).to = p
    BY <2>3, OneElement DEF Carries
  <2>5. \E v \in {"error", "unknown", p} : result' = [result EXCEPT ![p] = v]
    BY <1>3, <2>4 DEF Receive, Return
  <2> QED BY <1>0, <2>5 DEF CallType
<1> QED
  BY <1>1, <1>2, <1>3 DEF Next, ServeStep, Listen, Add, AcceptFails, Accept, CloseDone, StopStep,
     CloseListener, Wait, Register, ConnStep, Decode, Respond, HangUp, Dial, Close, Drop, Call,
     CallStep, Lock, callers, vars

\* The server and its clients as they start.
LEMMA RpcInit == Init => CallInv /\ StopInv
<1> SUFFICES ASSUME Init PROVE CallInv /\ StopInv
  OBVIOUS
<1>1. RpcType
  BY RpcAssumption DEF Init, RpcType, ServerType, ConnType, WireType, CallType
<1>2. ConnInv /\ MutexInv /\ OwnAnswer
  BY RpcAssumption DEF Init, ConnInv, MutexInv, OwnAnswer
<1>3. WireInv
  BY DEF Init, WireInv, Empty
<1>4. Served = {}
  BY DEF Init, Served
<1>5. StopInv
  BY <1>4, FS_EmptySet DEF Init, StopInv
<1> QED BY <1>1, <1>2, <1>3, <1>5 DEF CallInv

\* For any number of callers per client: OwnAnswer.  A call of Client.Call never
\* returns the response to another goroutine's request, although the response's
\* ID is not looked at.
THEOREM AnswersAreOwn == Spec => []OwnAnswer
<1>1. Init => CallInv
  BY RpcInit
<1>2. CallInv /\ [Next]_vars => CallInv'
  BY RpcTypeNext, ConnNext, MutexNext, WireNext, OwnAnswerNext DEF CallInv
<1>3. CallInv => OwnAnswer
  BY DEF CallInv
<1> QED BY <1>1, <1>2, <1>3, PTL DEF Spec

-----------------------------------------------------------------------------
\* Every step keeps the count of wg and what Stop relies on.
LEMMA StopNext == RpcType /\ ConnInv /\ StopInv /\ [Next]_vars => StopInv'
<1> SUFFICES ASSUME RpcType, ConnInv, StopInv, [Next]_vars PROVE StopInv'
  OBVIOUS
<1> USE RpcAssumption
<1>0. ServerType /\ ConnType
  BY DEF RpcType
<1>1. CASE Listen \/ AcceptFails \/ CloseDone
  <2>1. Served' = Served
    BY <1>1 DEF Listen, AcceptFails, CloseDone, Served
  <2> QED BY <1>0, <1>1, <2>1 DEF Listen, AcceptFails, CloseDone, StopInv, ServerType
<1>2. ASSUME NEW c \in Clients, Accept(c) PROVE StopInv'
  <2>1. Served' = Served
    BY <1>0, <1>2 DEF Accept, Served, ConnType
  <2> QED BY <1>0, <1>2, <2>1 DEF Accept, StopInv, ConnType
<1>3. CASE Add
  <2>1. accepted \in Clients /\ conn[accepted] = "accepted"
    BY <1>3 DEF Add, ConnInv
  <2>2. Served' = Served \union {accepted} /\ accepted \notin Served
    BY <1>0, <1>3, <2>1 DEF Add, Served, ConnType
  <2>3. IsFiniteSet(Served') /\ Cardinality(Served') = Cardinality(Served) + 1
    BY <2>2, FS_AddElement DEF StopInv
  <2> QED BY <1>0, <1>3, <2>1, <2>2, <2>3 DEF Add, StopInv, ConnType
<1>4. CASE CloseListener
  <2>1. Served' = Served
    BY <1>0, <1>4 DEF CloseListener, Served, ConnType
  <2> QED BY <1>0, <1>4, <2>1 DEF CloseListener, Closed, StopInv, ServerType, ConnType
<1>5. CASE Wait
  <2>1. Served' = Served
    BY <1>5 DEF Wait, Served
  <2>2. Served = {}
    BY <1>5, FS_EmptySet DEF Wait, WaitOver, StopInv
  <2> QED BY <1>0, <1>5, <2>1, <2>2 DEF Wait, StopInv, ServerType
<1>6. ASSUME NEW c \in Clients, Decode(c) \/ Respond(c) PROVE StopInv'
  <2>1. Served' = Served
    BY <1>0, <1>6 DEF Decode, Respond, Served, ConnType
  <2> QED BY <1>0, <1>6, <2>1 DEF Decode, Respond, server, StopInv, ConnType
<1>7. ASSUME NEW c \in Clients, HangUp(c) PROVE StopInv'
  <2>1. Served' = Served \ {c} /\ c \in Served
    BY <1>0, <1>7 DEF HangUp, Served, ConnType
  <2>2. IsFiniteSet(Served') /\ Cardinality(Served') = Cardinality(Served) - 1
    BY <2>1, FS_RemoveElement DEF StopInv
  <2> QED BY <1>0, <1>7, <2>1, <2>2 DEF HangUp, Done, StopInv, ConnType
<1>8. ASSUME NEW c \in Clients, Dial(c) PROVE StopInv'
  <2>1. Served' = Served
    BY <1>0, <1>8 DEF Dial, Served, ConnType, ConnInv
  <2> QED BY <1>0, <1>8, <2>1 DEF Dial, server, StopInv, ConnType
<1>9. CASE UNCHANGED <<serve, accepted, listener, stop, wg, late, conn>>
  BY <1>9 DEF StopInv, Served
<1> QED
  BY <1>1, <1>2, <1>3, <1>4, <1>5, <1>6, <1>7, <1>8, <1>9 DEF Next, ServeStep, StopStep, Register,
     ConnStep, Close, Drop, Call, CallStep, Lock, Send, Receive, server, vars

\* For any number of connections: StoppedIsQuiet.  When Stop has returned, the
\* only connection still served is one that Serve had accepted and not yet added
\* to the WaitGroup.
THEOREM StopLeavesAtMostOne == Spec => []StoppedIsQuiet
<1> DEFINE Inv == RpcType /\ ConnInv /\ StopInv
<1>1. Init => Inv
  BY RpcInit DEF CallInv
<1>2. Inv /\ [Next]_vars => Inv'
  BY RpcTypeNext, ConnNext, StopNext
<1>3. Inv => StoppedIsQuiet
  <2> SUFFICES ASSUME Inv, stop = "stopped", NEW c \in Clients,
                      conn[c] \in {"read", "handle", "backlog"}
               PROVE  c = late
    BY DEF StoppedIsQuiet
  <2>1. conn[c] # "backlog"
    BY DEF StopInv
  <2>2. c \in Served
    BY <2>1 DEF Served
  <2> QED BY <2>2 DEF StopInv
<1> QED BY <1>1, <1>2, <1>3, PTL DEF Spec
=============================================================================
