----------------------------- MODULE Forwarding -----------------------------
(***************************************************************************)
(* Plain HTTP requests beside the CONNECT tunnels of ProxyServer: the      *)
(* handler handleForward and the http.Transport it hands every request to. *)
(* The transport belongs to net/http and is modelled from how the server   *)
(* uses it: it dials through dialWithBalancer, so its connections are      *)
(* counted; it keeps a connection whose response was read to the end for   *)
(* the next request; and closeResources asks it to close the idle ones.    *)
(*                                                                         *)
(* A dial runs in a goroutine of its own.  The request that asked for it   *)
(* may get another's connection meanwhile, or be gone, when it ends.  All  *)
(* requests go to one host, so that every idle connection fits.            *)
(***************************************************************************)
EXTENDS ProxyServer

CONSTANTS
  Forwards,    \* the handlers whose request is no CONNECT
  NoConn       \* the request has no connection

ASSUME ForwardAssumption == Forwards \subseteq Handlers /\ NoConn \notin Conns

\* For a forwarded request f, pc[f] is where the dial made for it is.
VARIABLES
  at,         \* where the request is
  using,      \* the connection it was given
  pool,       \* idle connections
  closeIdle   \* the transport closes connections that become idle

idle == <<pool, closeIdle>>
fvars == <<at, using, pool, closeIdle>>
allVars == <<vars, fvars>>

Targets == { Target(f) : f \in Forwards }
Stages == {"idle", "route", "wait", "sent", "copy", "done"}

ForwardTypeOK ==
  /\ TypeOK
  /\ at \in [Forwards -> Stages]
  /\ using \in [Forwards -> Targets \cup {NoConn}]
  /\ pool \subseteq Targets
  /\ closeIdle \in BOOLEAN

ForwardInit ==
  /\ Init
  /\ at = [f \in Forwards |-> "idle"]
  /\ using = [f \in Forwards |-> NoConn]
  /\ pool = {} /\ closeIdle = FALSE

Stage(f, s) == at' = [at EXCEPT ![f] = s]
Waiting == { f \in Forwards : at[f] = "wait" }

-----------------------------------------------------------------------------
(***************************************************************************)
(* The transport                                                           *)
(***************************************************************************)

\* A connection c is free: the request waiting for one gets it, or it becomes
\* idle.  held is using without c, n the number of connections with it.
PutIdle(c, held, n) ==
  \/ /\ \E g \in Waiting : using' = [held EXCEPT ![g] = c] /\ Stage(g, "sent")
     /\ activeConns' = n
     /\ UNCHANGED <<open, pool>>
  \/ /\ Waiting = {} /\ closeIdle
     /\ using' = held /\ activeConns' = n - 1 /\ open' = open \ {c}
     /\ UNCHANGED <<at, pool>>
  \/ /\ Waiting = {} /\ ~closeIdle
     /\ using' = held /\ activeConns' = n /\ pool' = pool \cup {c}
     /\ UNCHANGED <<at, open>>

\* RoundTrip takes an idle connection or starts a dial, and either way expects
\* to need idle connections again.
Route(f) ==
  /\ at[f] = "route"
  /\ closeIdle' = FALSE
  /\ \/ /\ \E c \in pool : using' = [using EXCEPT ![f] = c] /\ pool' = pool \ {c}
        /\ Stage(f, "sent")
        /\ UNCHANGED pc
     \/ /\ pool = {} /\ pc[f] = "idle"
        /\ Goto(f, "dial") /\ Stage(f, "wait")
        /\ UNCHANGED <<using, pool>>
  /\ UNCHANGED <<life, open, active, closer, snap, stats, tunnelled>>

\* The dial outlives a request that has gone; its error is for the one waiting.
DialLost(f) ==
  /\ pc[f] = "dial"
  /\ Goto(f, "dialled")
  /\ IF at[f] = "wait"
     THEN Stage(f, "done") /\ open' = open \ {Client(f)}
     ELSE UNCHANGED <<at, open>>
  /\ UNCHANGED <<life, active, closer, snap, stats, tunnelled, using, idle>>

\* Faulty variant: a connection is counted for the request that gets it.
DeliverCounting(f) ==
  /\ pc[f] = "count"
  /\ Goto(f, "dialled")
  /\ IF at[f] = "wait"
     THEN /\ using' = [using EXCEPT ![f] = Target(f)] /\ Stage(f, "sent")
          /\ activeConns' = activeConns + 1
          /\ UNCHANGED <<open, pool>>
     ELSE PutIdle(Target(f), using, activeConns)
  /\ UNCHANGED <<life, active, closer, snap, totalConns, tunnelled, closeIdle>>

\* dialWithBalancer counts the connection and the transport hands it out.
Deliver(f) ==
  /\ pc[f] = "count"
  /\ Goto(f, "dialled")
  /\ IF at[f] = "wait"
     THEN /\ using' = [using EXCEPT ![f] = Target(f)] /\ Stage(f, "sent")
          /\ activeConns' = activeConns + 1
          /\ UNCHANGED <<open, pool>>
     ELSE PutIdle(Target(f), using, activeConns + 1)
  /\ UNCHANGED <<life, active, closer, snap, totalConns, tunnelled, closeIdle>>

\* Faulty variant: idle connections are kept until the other side closes them.
IdleNeverExpires(c) == FALSE /\ UNCHANGED allVars

\* IdleConnTimeout is over, or the other side closes.
IdleExpires(c) ==
  /\ c \in pool
  /\ pool' = pool \ {c}
  /\ Close(c)
  /\ UNCHANGED <<life, active, pc, closer, snap, totalConns, tunnelled, at,
                 using, closeIdle>>

CloseIdleConnections(a) ==
  /\ CloseTransport(a)
  /\ closeIdle' = TRUE /\ pool' = {}
  /\ open' = open \ pool
  /\ activeConns' = activeConns - Cardinality(pool)
  /\ UNCHANGED <<life, active, pc, snap, totalConns, tunnelled, at, using>>

-----------------------------------------------------------------------------
(***************************************************************************)
(* handleForward                                                           *)
(***************************************************************************)
Request(f) ==
  /\ at[f] = "idle" /\ listening /\ serving
  /\ open' = open \cup {Client(f)}
  /\ Stage(f, "route")
  /\ UNCHANGED <<life, active, pc, closer, snap, stats, tunnelled, using, idle>>

Respond(f) ==
  /\ at[f] = "sent"
  /\ Stage(f, "copy")
  /\ UNCHANGED <<vars, using, idle>>

\* io.Copy has read the response to its end.
BodyRead(f) ==
  /\ at[f] = "copy" /\ using[f] # NoConn
  /\ PutIdle(using[f], [using EXCEPT ![f] = NoConn], activeConns)
  /\ UNCHANGED <<life, active, pc, closer, snap, totalConns, tunnelled, closeIdle>>

Finish(f) ==
  /\ at[f] = "copy" /\ using[f] = NoConn
  /\ Stage(f, "done")
  /\ open' = open \ {Client(f)}
  /\ UNCHANGED <<life, active, pc, closer, snap, stats, tunnelled, using, idle>>

\* Faulty variant: a request that ends counts down, connection or not.
DropCounting(f, gone) ==
  /\ using' = [using EXCEPT ![f] = NoConn]
  /\ open' = open \ {using[f], gone}
  /\ activeConns' = activeConns - 1

\* Drop closes the connection of a request that does not read its response to
\* the end; without one there is nothing to close.
Drop(f, gone) ==
  /\ using' = [using EXCEPT ![f] = NoConn]
  /\ open' = open \ {using[f], gone}
  /\ activeConns' = IF using[f] # NoConn THEN activeConns - 1 ELSE activeConns

\* Faulty variant: the body of the response is not closed.
GiveUpBodyOpen(f) ==
  /\ at[f] \in {"route", "wait", "sent", "copy"} /\ Client(f) \notin open
  /\ Stage(f, "done")
  /\ IF at[f] = "copy" THEN UNCHANGED <<using, open, activeConns>>
                       ELSE Drop(f, NoConn)
  /\ UNCHANGED <<life, active, pc, closer, snap, totalConns, tunnelled, idle>>

\* The client is gone: the request's context ends RoundTrip, or the write of
\* the response fails and the deferred call closes its body.
GiveUp(f) ==
  /\ at[f] \in {"route", "wait", "sent", "copy"} /\ Client(f) \notin open
  /\ Stage(f, "done")
  /\ Drop(f, NoConn)
  /\ UNCHANGED <<life, active, pc, closer, snap, totalConns, tunnelled, idle>>

\* The target closes, breaks off or misses ResponseHeaderTimeout.
TargetFails(f) ==
  /\ at[f] \in {"sent", "copy"} /\ using[f] # NoConn
  /\ Stage(f, "done")
  /\ Drop(f, Client(f))
  /\ UNCHANGED <<life, active, pc, closer, snap, totalConns, tunnelled, idle>>

\* A connection that was idle turns out dead: RoundTrip takes another.  (One
\* dial for each request, so this is left out when it has had its own.)
Retry(f) ==
  /\ at[f] = "sent" /\ pc[f] = "idle"
  /\ Stage(f, "route")
  /\ Drop(f, NoConn)
  /\ UNCHANGED <<life, active, pc, closer, snap, totalConns, tunnelled, idle>>

ClientLeaves(f) ==
  /\ Client(f) \in open
  /\ open' = open \ {Client(f)}
  /\ UNCHANGED <<life, active, pc, closer, snap, stats, tunnelled, fvars>>

-----------------------------------------------------------------------------
Tunnels == Handlers \ Forwards

\* The steps of ProxyServer that do not concern the transport.
Tunnelling ==
  /\ \/ Start \/ StartFails \/ ServeReturns \/ Watch \/ Stop \/ StopReturns
     \/ \E a \in Closers : CloseResources(a)
     \/ \E h \in Tunnels : Accept(h) \/ Handle(h) \/ TunnelEnds(h)
     \/ \E f \in Forwards : DialWorks(f)
  /\ UNCHANGED fvars

Forward(f) ==
  \/ Request(f) \/ Route(f) \/ DialLost(f) \/ Deliver(f)
  \/ Respond(f) \/ BodyRead(f) \/ Finish(f)
  \/ GiveUp(f) \/ TargetFails(f) \/ Retry(f) \/ ClientLeaves(f)

ForwardNext ==
  \/ Tunnelling
  \/ \E f \in Forwards : Forward(f)
  \/ \E c \in Targets : IdleExpires(c)
  \/ \E a \in Closers : CloseIdleConnections(a)

\* Goroutines run on, dials and idle connections have timeouts; clients and
\* targets may do nothing for ever.
ForwardFairness ==
  /\ WF_allVars(Watch /\ UNCHANGED fvars)
  /\ WF_allVars(StopReturns /\ UNCHANGED fvars)
  /\ WF_allVars(~listening /\ ServeReturns /\ UNCHANGED fvars)
  /\ \A a \in Closers : WF_allVars(\/ CloseResources(a) /\ UNCHANGED fvars
                                   \/ CloseIdleConnections(a))
  /\ \A f \in Forwards :
       /\ WF_allVars(Route(f) \/ GiveUp(f) \/ Finish(f))
       /\ WF_allVars((DialWorks(f) /\ UNCHANGED fvars) \/ DialLost(f) \/ Deliver(f))
       /\ WF_allVars(IdleExpires(Target(f)))

ForwardSpec == ForwardInit /\ [][ForwardNext]_allVars
FairForwardSpec == ForwardSpec /\ ForwardFairness
-----------------------------------------------------------------------------
\* No connection of the transport is lost: while it is open, exactly one place
\* will close it, the pool or one request that is still being served, however
\* requests, dials and a closing server hand it around.
OneOwner ==
  \A f \in Forwards :
    Target(f) \in open /\ pc[f] # "count" =>
      LET users == { g \in Forwards : using[g] = Target(f)
                                      /\ at[g] \in {"sent", "copy"} }
      IN IF Target(f) \in pool THEN users = {} ELSE Cardinality(users) = 1

\* Connections of forwarded requests are not among those Stop closes, and a
\* dial may end, or a request ask for idle connections, after Stop has closed
\* them.  Still every one of them is closed in the end.
StopDrains == Stopped ~> Targets \cap open = {}
=============================================================================
