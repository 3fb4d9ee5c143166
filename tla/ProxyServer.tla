----------------------------- MODULE ProxyServer -----------------------------
(***************************************************************************)
(* internal/proxy.Server from Start to Stop: the CONNECT handlers with the *)
(* connections they open, track and close, the connection counters, and    *)
(* closeResources, which runs in the goroutine that watches the context    *)
(* and again in Stop.                                                      *)
(*                                                                         *)
(* Every handler has two connections, the client's and the one dialled to  *)
(* the target.  Only the latter is a trackedConn and counted.  A tunnel    *)
(* that loses one end goes on until the peer of the other end closes.      *)
(***************************************************************************)
EXTENDS Naturals, FiniteSets

CONSTANTS
  Handlers,    \* handler goroutines, one per CONNECT request
  Faulty       \* may Listen or Serve fail?

ASSUME ServerAssumption == IsFiniteSet(Handlers) /\ Faulty \in BOOLEAN

Conns == Handlers \X {"client", "target"}
Client(h) == <<h, "client">>
Target(h) == <<h, "target">>

\* Who runs closeResources.
Closers == {"watcher", "stopper"}

VARIABLES
  server,      \* "new", "up" (fields published), "refused" by Start
  listening,   \* the HTTP listener is open
  serving,     \* Serve has not returned: done is open
  cancelled,   \* the server's context is cancelled
  runErr,      \* Server.runErr is set
  open,        \* connections not yet closed
  active,      \* Server.active
  pc,          \* where each handler is
  closer,      \* where each run of closeResources is
  snap,        \* connections it copied from active and has yet to close
  totalConns,  \* Stats.TotalConnections and Stats.ActiveConnections
  activeConns,
  \* History, read by no guard of the program.
  tunnelled    \* handlers tunnelling when Stop was called

stats == <<totalConns, activeConns>>
life == <<server, listening, serving, cancelled, runErr>>
vars == <<server, listening, serving, cancelled, runErr, open, active, pc,
          closer, snap, totalConns, activeConns, tunnelled>>

Places == {"idle", "dial", "count", "hijack", "reply", "abort", "abort2",
           "track", "track2", "tunnel", "close", "close2", "untrack",
           "untrack2", "done",
           "dialled"}             \* of Forwarding: the dial is over
CloserPlaces == {"off", "snapshot", "http", "transport", "conns", "wait",
                 "returned"}

TypeOK ==
  /\ server \in {"new", "up", "refused"}
  /\ listening \in BOOLEAN /\ serving \in BOOLEAN
  /\ cancelled \in BOOLEAN /\ runErr \in BOOLEAN
  /\ open \subseteq Conns /\ active \subseteq Conns
  /\ pc \in [Handlers -> Places]
  /\ closer \in [Closers -> CloserPlaces]
  /\ snap \in [Closers -> SUBSET Conns]
  /\ totalConns \in 0..Cardinality(Handlers)
  /\ activeConns \in 0..Cardinality(Handlers)
  /\ tunnelled \subseteq Handlers

Init ==
  /\ server = "new"
  /\ listening = FALSE /\ serving = FALSE
  /\ cancelled = FALSE /\ runErr = FALSE
  /\ open = {} /\ active = {}
  /\ pc = [h \in Handlers |-> "idle"]
  /\ closer = [a \in Closers |-> "off"]
  /\ snap = [a \in Closers |-> {}]
  /\ totalConns = 0 /\ activeConns = 0
  /\ tunnelled = {}

Goto(h, place) == pc' = [pc EXCEPT ![h] = place]
CloserGoto(a, place) == closer' = [closer EXCEPT ![a] = place]

\* Faulty variant: every Close counts down.
CloseCountsAlways(c) ==
  /\ open' = open \ {c}
  /\ activeConns' = IF c[2] = "target" THEN activeConns - 1 ELSE activeConns

\* Close of any connection; trackedConn counts down on the first one only.
Close(c) ==
  /\ open' = open \ {c}
  /\ activeConns' = IF c \in open /\ c[2] = "target"
                    THEN activeConns - 1 ELSE activeConns

-----------------------------------------------------------------------------
(***************************************************************************)
(* Start and the two goroutines it leaves behind                           *)
(***************************************************************************)
Start ==
  /\ server = "new"
  /\ server' = "up"
  /\ listening' = TRUE /\ serving' = TRUE
  /\ UNCHANGED <<cancelled, runErr, open, active, pc, closer, snap, stats,
                 tunnelled>>

\* Validation or Listen fails; a server is started only once.
StartFails ==
  /\ Faulty /\ server = "new"
  /\ server' = "refused"
  /\ UNCHANGED <<listening, serving, cancelled, runErr, open, active, pc,
                 closer, snap, stats, tunnelled>>

\* httpServer.Serve returns, because the listener is closed or broke; it does
\* not leave the listener open.
ServeReturns ==
  /\ serving
  /\ ~listening \/ Faulty
  /\ runErr' = (runErr \/ (listening /\ ~cancelled))
  /\ cancelled' = TRUE
  /\ serving' = FALSE /\ listening' = FALSE
  /\ UNCHANGED <<server, open, active, pc, closer, snap, stats,
                 tunnelled>>

\* <-ctx.Done()
Watch ==
  /\ server = "up" /\ cancelled /\ closer["watcher"] = "off"
  /\ CloserGoto("watcher", "snapshot")
  /\ UNCHANGED <<life, open, active, pc, snap, stats, tunnelled>>

\* Stop: cancel the context, then close the resources oneself.
Stop ==
  /\ server = "up" /\ closer["stopper"] = "off"
  /\ cancelled' = TRUE
  /\ CloserGoto("stopper", "snapshot")
  /\ tunnelled' = { h \in Handlers : pc[h] = "tunnel" }
  /\ UNCHANGED <<server, listening, serving, runErr, open, active, pc, snap,
                 stats>>

-----------------------------------------------------------------------------
(***************************************************************************)
(* closeResources                                                          *)
(***************************************************************************)
\* Faulty variant: the tracked connections are not copied.
SnapshotEmpty(a) ==
  /\ closer[a] = "snapshot"
  /\ snap' = [snap EXCEPT ![a] = {}]
  /\ CloserGoto(a, "http")
  /\ UNCHANGED <<life, open, active, pc, stats, tunnelled>>

Snapshot(a) ==
  /\ closer[a] = "snapshot"
  /\ snap' = [snap EXCEPT ![a] = active]
  /\ CloserGoto(a, "http")
  /\ UNCHANGED <<life, open, active, pc, stats, tunnelled>>

\* What net/http still owns: hijacking takes a connection away from it.
Hijacked == {"reply", "abort", "abort2", "track", "track2", "tunnel",
             "close", "close2", "untrack", "untrack2"}
Unhijacked == { Client(h) : h \in { k \in Handlers : pc[k] \notin Hijacked } }

\* Faulty variant: the listener stays open.
CloseHTTPNotListener(a) ==
  /\ closer[a] = "http"
  /\ open' = open \ Unhijacked
  /\ CloserGoto(a, "transport")
  /\ UNCHANGED <<life, active, pc, snap, stats, tunnelled>>

\* httpServer.Close: the listener, and the connections not hijacked.
CloseHTTP(a) ==
  /\ closer[a] = "http"
  /\ listening' = FALSE
  /\ open' = open \ Unhijacked
  /\ CloserGoto(a, "transport")
  /\ UNCHANGED <<server, serving, cancelled, runErr, active, pc, snap, stats,
                 tunnelled>>

\* transport.CloseIdleConnections: see Forwarding for the idle connections.
CloseTransport(a) == closer[a] = "transport" /\ CloserGoto(a, "conns")

CloseIdle(a) ==
  /\ CloseTransport(a)
  /\ UNCHANGED <<life, open, active, pc, snap, stats, tunnelled>>

CloseSnapped(a) ==
  /\ closer[a] = "conns"
  /\ \E c \in snap[a] :
       /\ Close(c)
       /\ snap' = [snap EXCEPT ![a] = @ \ {c}]
  /\ UNCHANGED <<life, active, pc, closer, totalConns, tunnelled>>

\* The watcher is through; Stop still waits for Serve.
Closed(a) ==
  /\ closer[a] = "conns" /\ snap[a] = {}
  /\ CloserGoto(a, IF a = "stopper" THEN "wait" ELSE "returned")
  /\ UNCHANGED <<life, open, active, pc, snap, stats, tunnelled>>

StopReturns ==
  /\ closer["stopper"] = "wait" /\ ~serving
  /\ CloserGoto("stopper", "returned")
  /\ UNCHANGED <<life, open, active, pc, snap, stats, tunnelled>>

-----------------------------------------------------------------------------
(***************************************************************************)
(* handleConnect                                                           *)
(***************************************************************************)
Accept(h) ==
  /\ pc[h] = "idle" /\ listening /\ serving
  /\ open' = open \cup {Client(h)}
  /\ Goto(h, "dial")
  /\ UNCHANGED <<life, active, closer, snap, stats, tunnelled>>

\* No candidate answers, or the request is cancelled: "bad gateway".
DialFails(h) ==
  /\ pc[h] = "dial"
  /\ open' = open \ {Client(h)}
  /\ Goto(h, "done")
  /\ UNCHANGED <<life, active, closer, snap, stats, tunnelled>>

\* dialWithBalancer counts the connection in the total, then as active.
DialWorks(h) ==
  /\ pc[h] = "dial"
  /\ open' = open \cup {Target(h)}
  /\ totalConns' = totalConns + 1
  /\ Goto(h, "count")
  /\ UNCHANGED <<life, active, closer, snap, activeConns, tunnelled>>

CountActive(h) ==
  /\ pc[h] = "count"
  /\ activeConns' = activeConns + 1
  /\ Goto(h, "hijack")
  /\ UNCHANGED <<life, open, active, closer, snap, totalConns, tunnelled>>

\* Faulty variant: the failed hijack closes the raw connection, uncounted.
HijackUncounted(h) ==
  /\ pc[h] = "hijack"
  /\ \/ Goto(h, "reply") /\ UNCHANGED open
     \/ Goto(h, "done") /\ open' = open \ {Client(h), Target(h)}
  /\ UNCHANGED <<life, active, closer, snap, stats, tunnelled>>

\* Without the hijack the server keeps, and closes, the client's connection.
Hijack(h) ==
  /\ pc[h] = "hijack"
  /\ \/ Goto(h, "reply") /\ UNCHANGED <<open, activeConns>>
     \/ /\ Goto(h, "done")
        /\ open' = open \ {Client(h), Target(h)}
        /\ activeConns' = activeConns - 1
  /\ UNCHANGED <<life, active, closer, snap, totalConns, tunnelled>>

\* "200 Connection Established" cannot reach a closed connection.
Reply(h) ==
  /\ pc[h] = "reply"
  /\ \/ Goto(h, "track") /\ Client(h) \in open
     \/ Goto(h, "abort")
  /\ UNCHANGED <<life, open, active, closer, snap, stats, tunnelled>>

\* Faulty variant: only the client's connection is closed.
AbortClient(h) ==
  /\ pc[h] = "abort" /\ Close(Client(h)) /\ Goto(h, "done")
  /\ UNCHANGED <<life, active, closer, snap, totalConns, tunnelled>>

Abort(h) ==
  /\ \/ pc[h] = "abort" /\ Close(Client(h)) /\ Goto(h, "abort2")
     \/ pc[h] = "abort2" /\ Close(Target(h)) /\ Goto(h, "done")
  /\ UNCHANGED <<life, active, closer, snap, totalConns, tunnelled>>

Track(h) ==
  /\ \/ /\ pc[h] = "track"
        /\ active' = active \cup {Client(h)} /\ Goto(h, "track2")
     \/ /\ pc[h] = "track2"
        /\ active' = active \cup {Target(h)} /\ Goto(h, "tunnel")
  /\ UNCHANGED <<life, open, closer, snap, stats, tunnelled>>

\* Both copies end: the peers are done, or the connections were closed.
TunnelEnds(h) ==
  /\ pc[h] = "tunnel"
  /\ Goto(h, "close")
  /\ UNCHANGED <<life, open, active, closer, snap, stats, tunnelled>>

\* The deferred calls, last one first.
CloseDeferred(h) ==
  /\ \/ pc[h] = "close" /\ Close(Target(h)) /\ Goto(h, "close2")
     \/ pc[h] = "close2" /\ Close(Client(h)) /\ Goto(h, "untrack")
  /\ UNCHANGED <<life, active, closer, snap, totalConns, tunnelled>>

Untrack(h) ==
  /\ \/ /\ pc[h] = "untrack"
        /\ active' = active \ {Target(h)} /\ Goto(h, "untrack2")
     \/ /\ pc[h] = "untrack2"
        /\ active' = active \ {Client(h)} /\ Goto(h, "done")
  /\ UNCHANGED <<life, open, closer, snap, stats, tunnelled>>

-----------------------------------------------------------------------------
Handle(h) ==
  \/ DialFails(h) \/ DialWorks(h) \/ CountActive(h) \/ Hijack(h) \/ Reply(h)
  \/ Abort(h) \/ Track(h) \/ CloseDeferred(h) \/ Untrack(h)

CloseResources(a) ==
  Snapshot(a) \/ CloseHTTP(a) \/ CloseSnapped(a) \/ Closed(a)

Next ==
  \/ Start \/ StartFails \/ ServeReturns \/ Watch \/ Stop \/ StopReturns
  \/ \E a \in Closers : CloseResources(a) \/ CloseIdle(a)
  \/ \E h \in Handlers : Accept(h) \/ Handle(h) \/ TunnelEnds(h)

\* Goroutines run on.  A tunnel ends for sure only when both ends are closed,
\* and a broken listener is never waited for.
Fairness ==
  /\ WF_vars(Watch) /\ WF_vars(StopReturns)
  /\ WF_vars(~listening /\ ServeReturns)
  /\ \A a \in Closers : WF_vars(CloseResources(a) \/ CloseIdle(a))
  /\ \A h \in Handlers :
       /\ WF_vars(Handle(h))
       /\ WF_vars({Client(h), Target(h)} \cap open = {} /\ TunnelEnds(h))

Spec == Init /\ [][Next]_vars
FairSpec == Spec /\ Fairness
-----------------------------------------------------------------------------
Stopped == closer["stopper"] = "returned"

\* The counter shown in the interface is the number of connections open to
\* targets, whoever closes them: the handler, the watcher, Stop or several.  It
\* never exceeds the total: GetStats loads it first, and the total only grows.
ActiveIsExact ==
  /\ activeConns =
       Cardinality({ h \in Handlers : Target(h) \in open /\ pc[h] # "count" })
  /\ activeConns <= totalConns

\* Every way out of a handler closes and untracks both connections.
NothingLeaks ==
  \A h \in Handlers :
    pc[h] = "done" => {Client(h), Target(h)} \cap (open \cup active) = {}

\* architecture.md: Stop "closes listeners and active HTTP tunnels".  When it
\* returns, nothing is accepted any more and both ends of every tunnel that was
\* running when it was called are closed.
StopCloses ==
  Stopped =>
    /\ ~listening /\ ~serving
    /\ \A h \in tunnelled : {Client(h), Target(h)} \cap open = {}

\* Stop does not hang: what it waits for happens once the listener is closed.
StopEnds == closer["stopper"] # "off" ~> Stopped

\* architecture.md: tunnels "are closed during session shutdown".  A client
\* that has been told its tunnel is established does not keep it after Stop.
TunnelsClosed ==
  Stopped =>
    \A h \in Handlers :
      pc[h] = "tunnel" => ~({Client(h), Target(h)} \subseteq open)
=============================================================================
