-------------------------------- MODULE Rpc --------------------------------
(***************************************************************************)
(* pkg/grpc: the JSON-over-TCP server (Serve, handleConn, Register, Stop)  *)
(* and its Client, which several goroutines share.  TCP keeps the order of *)
(* a connection; closing the listener resets the connections that were not *)
(* accepted.                                                               *)
(***************************************************************************)
EXTENDS Integers, Sequences, FiniteSets

CONSTANTS
    Clients,
    Callers,      \* goroutines; each makes one call
    ClientOf,     \* the Client that a caller shares
    Methods,
    MethodOf,     \* the method that it calls
    None,
    MaxDrops      \* bound: connections that the network breaks

ASSUME RpcAssumption ==
    /\ ClientOf \in [Callers -> Clients] /\ MethodOf \in [Callers -> Methods]
    /\ None \notin Callers \union Clients
    /\ MaxDrops \in Nat

VARIABLES
    serve,      \* where Serve is
    accepted,   \* the connection between Accept and wg.Add, or None
    listener,   \* s.listener
    stop,       \* where Stop is
    wg,
    late,       \* history: accepted, when Wait returned
    handlers,   \* the registered methods
    conn,       \* a client's connection, as the server has it
    client,     \* and as the Client has it
    requests,   \* calls on the wire, and the one that handleConn works on
    responses,  \* answers on the wire: the call and whether its method was known
    found,      \* what handleConn's look-up gave
    call,       \* where a caller is
    mu,         \* holder of a Client's mutex, or None
    result,     \* what Call returned
    drops

server == <<serve, accepted, listener, stop, wg, late, handlers>>
callers == <<call, mu, result>>
vars == <<server, conn, client, requests, responses, found, callers, drops>>

Init ==
    /\ serve = "start"
    /\ accepted = None
    /\ listener = "none"
    /\ stop = "none"
    /\ wg = 0
    /\ late = None
    /\ handlers = {}
    /\ conn = [c \in Clients |-> "none"]
    /\ client = [c \in Clients |-> "new"]
    /\ requests = [c \in Clients |-> <<>>]
    /\ responses = [c \in Clients |-> <<>>]
    /\ found = [c \in Clients |-> FALSE]
    /\ call = [p \in Callers |-> "none"]
    /\ mu = [c \in Clients |-> None]
    /\ result = [p \in Callers |-> None]
    /\ drops = 0

-----------------------------------------------------------------------------
Register(m) ==
    /\ m \notin handlers
    /\ handlers' = handlers \union {m}
    /\ UNCHANGED <<serve, accepted, listener, stop, wg, late, conn, client, requests, responses,
                   found, callers, drops>>

\* Serve up to its loop.
Listen ==
    /\ serve = "start"
    /\ \/ serve' = "accept" /\ listener' = "open"
       \/ serve' = "returned" /\ UNCHANGED listener
    /\ UNCHANGED <<accepted, stop, wg, late, handlers, conn, client, requests, responses, found,
                   callers, drops>>

Accept(c) ==
    /\ serve = "accept"
    /\ listener = "open"
    /\ conn[c] = "backlog"
    /\ accepted' = c
    /\ conn' = [conn EXCEPT ![c] = "accepted"]
    /\ serve' = "add"
    /\ UNCHANGED <<listener, stop, wg, late, handlers, client, requests, responses, found,
                   callers, drops>>

\* wg.Add and the start of handleConn.
Add ==
    /\ serve = "add"
    /\ wg' = wg + 1
    /\ conn' = [conn EXCEPT ![accepted] = "read"]
    /\ accepted' = None
    /\ serve' = "accept"
    /\ UNCHANGED <<listener, stop, late, handlers, client, requests, responses, found, callers,
                   drops>>

\* Accept fails because the listener was closed; done was closed before.
AcceptFails ==
    /\ serve = "accept"
    /\ listener = "closed"
    /\ stop # "none"
    /\ serve' = "returned"
    /\ UNCHANGED <<accepted, listener, stop, wg, late, handlers, conn, client, requests,
                   responses, found, callers, drops>>

\* The server's end of the connection can send and receive.
Up(c) == client[c] = "open" /\ conn[c] \notin {"none", "gone"}

\* Mutant of Done: handleConn returns without its deferred call.
DoneNot == wg

Done == wg - 1

\* handleConn's Decode and its look-up of the handler.
Decode(c) ==
    /\ conn[c] = "read"
    /\ requests[c] # <<>>
    /\ conn' = [conn EXCEPT ![c] = "handle"]
    /\ found' = [found EXCEPT ![c] = MethodOf[Head(requests[c])] \in handlers]
    /\ UNCHANGED <<server, client, requests, responses, callers, drops>>

\* The handler, with its error or its data, and Encode.
Respond(c) ==
    /\ conn[c] = "handle"
    /\ client[c] = "open"
    /\ conn' = [conn EXCEPT ![c] = "read"]
    /\ requests' = [requests EXCEPT ![c] = Tail(@)]
    /\ responses' = [responses EXCEPT
           ![c] = Append(@, [to |-> Head(requests[c]), known |-> found[c]])]
    /\ UNCHANGED <<server, client, found, callers, drops>>

\* Decode or Encode fails on a connection that the client or the network ended.
HangUp(c) ==
    /\ client[c] # "open"
    /\ conn[c] \in {"read", "handle"}
    /\ (conn[c] = "read" /\ client[c] = "closed") => requests[c] = <<>>
    /\ conn' = [conn EXCEPT ![c] = "gone"]
    /\ wg' = Done
    /\ UNCHANGED <<serve, accepted, listener, stop, late, handlers, client, requests, responses,
                   found, callers, drops>>

-----------------------------------------------------------------------------
\* Stop: the channel, the listener if there is one yet, the connections.
CloseDone ==
    /\ stop = "none"
    /\ stop' = "listener"
    /\ UNCHANGED <<serve, accepted, listener, wg, late, handlers, conn, client, requests,
                   responses, found, callers, drops>>

Closed == IF listener = "open" THEN "closed" ELSE listener

CloseListener ==
    /\ stop = "listener"
    /\ stop' = IF listener = "none" THEN "waitUnheard" ELSE "wait"
    /\ listener' = Closed
    /\ conn' = [c \in Clients |-> IF listener = "open" /\ conn[c] = "backlog"
                                  THEN "gone" ELSE conn[c]]
    /\ UNCHANGED <<serve, accepted, wg, late, handlers, client, requests, responses, found,
                   callers, drops>>

\* Mutant of WaitOver: Stop does not wait.
WaitOverAtOnce == TRUE

WaitOver == wg = 0

Wait ==
    /\ stop \in {"wait", "waitUnheard"}
    /\ WaitOver
    /\ stop' = IF stop = "wait" THEN "stopped" ELSE "stoppedUnheard"
    /\ late' = accepted
    /\ UNCHANGED <<serve, accepted, listener, wg, handlers, conn, client, requests, responses,
                   found, callers, drops>>

-----------------------------------------------------------------------------
Dial(c) ==
    /\ client[c] = "new"
    /\ listener = "open"
    /\ client' = [client EXCEPT ![c] = "open"]
    /\ conn' = [conn EXCEPT ![c] = "backlog"]
    /\ UNCHANGED <<server, requests, responses, found, callers, drops>>

\* Client.Close, also while a call is under way.
Close(c) ==
    /\ client[c] = "open"
    /\ client' = [client EXCEPT ![c] = "closed"]
    /\ UNCHANGED <<server, conn, requests, responses, found, callers, drops>>

Drop(c) ==
    /\ client[c] = "open"
    /\ drops < MaxDrops
    /\ drops' = drops + 1
    /\ client' = [client EXCEPT ![c] = "broken"]
    /\ UNCHANGED <<server, conn, requests, responses, found, callers>>

\* A goroutine calls: it waits for the mutex.
Call(p) ==
    /\ call[p] = "none"
    /\ client[ClientOf[p]] # "new"
    /\ call' = [call EXCEPT ![p] = "lock"]
    /\ UNCHANGED <<server, conn, client, requests, responses, found, mu, result, drops>>

Lock(p) ==
    /\ call[p] = "lock"
    /\ mu[ClientOf[p]] = None
    /\ mu' = [mu EXCEPT ![ClientOf[p]] = p]
    /\ call' = [call EXCEPT ![p] = "send"]
    /\ UNCHANGED <<server, conn, client, requests, responses, found, result, drops>>

\* Mutant of Unlocked: an error returns with the mutex held.
UnlockedIfOk(p, ok) == IF ok THEN [mu EXCEPT ![ClientOf[p]] = None] ELSE mu

\* The deferred Unlock.
Unlocked(p, ok) == [mu EXCEPT ![ClientOf[p]] = None]

Return(p, value, ok) ==
    /\ call' = [call EXCEPT ![p] = "returned"]
    /\ result' = [result EXCEPT ![p] = value]
    /\ mu' = Unlocked(p, ok)

\* Mutant of Sent: the mutex covers the Encode only.
SentUnlocked(p) == [mu EXCEPT ![ClientOf[p]] = None]

\* The mutex is kept until the response has come.
Sent(p) == mu

\* Encode of the request; params that cannot be encoded are not sent.
Send(p) ==
    /\ call[p] = "send"
    /\ \/ /\ Up(ClientOf[p])
          /\ requests' = [requests EXCEPT ![ClientOf[p]] = Append(@, p)]
          /\ call' = [call EXCEPT ![p] = "await"]
          /\ mu' = Sent(p)
          /\ UNCHANGED result
       \/ Return(p, "error", FALSE) /\ UNCHANGED requests
    /\ UNCHANGED <<server, conn, client, responses, found, drops>>

\* Decode takes the next response of the connection; its ID is not looked at.
Receive(p) ==
    LET c == ClientOf[p]
    IN  /\ call[p] = "await"
        /\ \/ /\ responses[c] # <<>> /\ client[c] # "closed"
              /\ responses' = [responses EXCEPT ![c] = Tail(@)]
              /\ Return(p, IF Head(responses[c]).known THEN Head(responses[c]).to ELSE "unknown",
                        Head(responses[c]).known)
           \/ ~Up(c) /\ Return(p, "error", FALSE) /\ UNCHANGED responses
        /\ UNCHANGED <<server, conn, client, requests, found, drops>>

-----------------------------------------------------------------------------
ServeStep == Listen \/ Add \/ AcceptFails \/ \E c \in Clients : Accept(c)
ConnStep(c) == Decode(c) \/ Respond(c) \/ HangUp(c)
StopStep == CloseListener \/ Wait
CallStep(p) == Lock(p) \/ Send(p) \/ Receive(p)

Next ==
    \/ ServeStep \/ CloseDone \/ StopStep
    \/ \E m \in Methods : Register(m)
    \/ \E c \in Clients : ConnStep(c) \/ Dial(c) \/ Close(c) \/ Drop(c)
    \/ \E p \in Callers : Call(p) \/ CallStep(p)

\* Goroutines that can run do, handlers return; nobody has to dial, to call, to
\* hang up or to stop the server.
Fairness ==
    /\ WF_vars(ServeStep) /\ WF_vars(StopStep)
    /\ \A c \in Clients : WF_vars(ConnStep(c))
    /\ \A p \in Callers : WF_vars(CallStep(p))

Spec == Init /\ [][Next]_vars /\ Fairness

-----------------------------------------------------------------------------
\* However the callers of a Client and broken connections interleave, a call
\* returns the answer to its own request: the mutex is what makes the unchecked
\* ID of the response right.
OwnAnswer == \A p \in Callers : result[p] \in {None, "error", "unknown", p}

\* When Stop has returned, no connection is served any more, except the one that
\* Serve had accepted and not yet added to the group that Stop waited for, and
\* except when Stop came before there was a listener.
StoppedIsQuiet ==
    stop = "stopped" =>
        \A c \in Clients : conn[c] \in {"read", "handle", "backlog"} => c = late

\* Stop ends the server.  Serve returns after Stop has closed the listener, from
\* wherever it was; Stop waits for the clients and for nothing else: it returns
\* once all of them have hung up, whatever they left unanswered.
StopReturns ==
    /\ (stop = "wait") ~> (serve = "returned")
    /\ (<>(stop # "none") /\ <>[](\A c \in Clients : client[c] # "open"))
           => <>(stop \in {"stopped", "stoppedUnheard"})

\* A call on a client that was dialled returns, with an answer or an error, also
\* when the server is stopped before it accepts the connection and when another
\* call on the client has failed.
CallReturns == \A p \in Callers : (call[p] = "lock") ~> (call[p] = "returned")
=============================================================================
