-------------------------- MODULE ForwardingProofs --------------------------
(***************************************************************************)
(* Safety of forwarded requests, for any number of them and any mix with   *)
(* CONNECT tunnels.                                                        *)
(*                                                                         *)
(* The server's own invariant goes on to hold beside the transport.  What  *)
(* the transport adds is Owned: a connection is with one request or in the *)
(* pool exactly while it is open and its dial is over.                     *)
(***************************************************************************)
EXTENDS Forwarding, ProxyServerProofs

\* A forwarded request tracks nothing: all its handler does is the dial.
Dials == \A f \in Forwards : pc[f] \in {"idle", "dial", "count", "dialled"}

ForwardShape ==
  /\ at \in [Forwards -> Stages]
  /\ using \in [Forwards -> Targets \cup {NoConn}]
  /\ pool \subseteq Targets
  /\ closeIdle \in BOOLEAN

\* The request g of Forwards or the pool has the connection dialled for f.
Held(f) == Target(f) \in pool \/ \E g \in Forwards : using[g] = Target(f)

Owned ==
  \A f \in Forwards :
    /\ Held(f) <=> Target(f) \in open /\ pc[f] = "dialled"
    /\ using[f] # NoConn =>
         /\ at[f] \in {"sent", "copy"}
         /\ using[f] \notin pool
         /\ \A g \in Forwards : using[g] = using[f] => g = f

FInv == IInv /\ Dials /\ ForwardShape /\ Owned
-----------------------------------------------------------------------------
USE ForwardAssumption DEF ForwardAssumption

LEMMA TargetFacts ==
  /\ NoConn \notin Targets /\ Targets \subseteq Conns
  /\ \A f \in Forwards : f \in Handlers /\ Target(f) \in Targets /\ Target(f) # NoConn
  /\ \A c \in Targets : \E f \in Forwards : c = Target(f)
  /\ \A h \in Handlers : Client(h) # NoConn /\ Client(h) \notin Targets
BY ConnFacts DEF Targets

\* The server's steps beside the transport are steps of ProxyServer.
LEMMA TunnellingStep == Tunnelling => Next /\ UNCHANGED fvars
BY DEF Tunnelling, Next, Handle, Tunnels

\* A connection that is held was dialled for one of the requests.
LEMMA HeldFacts ==
  ASSUME FInv
  PROVE  /\ \A c \in pool : \E k \in Forwards : c = Target(k) /\ pc[k] = "dialled"
         /\ \A f \in Forwards : using[f] # NoConn =>
              \E k \in Forwards : using[f] = Target(k) /\ pc[k] = "dialled"
         /\ pool \cup { using[f] : f \in Forwards } \subseteq open \cup {NoConn}
<1>1. \A c \in Targets : c \in pool \/ (\E f \in Forwards : using[f] = c) =>
        c \in open /\ \E k \in Forwards : c = Target(k) /\ pc[k] = "dialled"
  BY TargetFacts DEF FInv, Owned, Held
<1>2. pool \subseteq Targets /\ \A f \in Forwards : using[f] \in Targets \cup {NoConn}
  BY DEF FInv, ForwardShape
<1>3. QED
  BY <1>1, <1>2

\* Where the dial of a request may go, and what a step of the transport or of
\* handleForward does to the connections: it opens none but its client's, and
\* closes none but that and those whose dial is over.
DialMoves(f) ==
  \/ UNCHANGED pc
  \/ pc[f] = "idle" /\ Goto(f, "dial")
  \/ pc[f] \in {"dial", "count"} /\ Goto(f, "dialled")

Transported(f) ==
  /\ open' \subseteq open \cup {Client(f)}
  /\ \A c \in open \ open' :
       c = Client(f) \/ \E k \in Forwards : c = Target(k) /\ pc'[k] = "dialled"

LEMMA ForwardStep ==
  ASSUME FInv, NEW f \in Forwards, Forward(f)
  PROVE  /\ UNCHANGED <<life, active, closer, snap, tunnelled, totalConns>>
         /\ DialMoves(f)
         /\ Transported(f)
<1> USE DEF stats, vars, fvars, idle
<1>1. UNCHANGED <<life, active, closer, snap, tunnelled, totalConns>>
  BY DEF Forward, Request, Route, DialLost, Deliver, Respond, BodyRead, Finish,
         GiveUp, TargetFails, Retry, ClientLeaves, life
<1>2. DialMoves(f)
  BY DEF Forward, Request, Route, DialLost, Deliver, Respond, BodyRead, Finish,
         GiveUp, TargetFails, Retry, ClientLeaves, life, DialMoves
<1>. SUFFICES Transported(f)
  BY <1>1, <1>2
<1>3. /\ f \in Handlers /\ pc \in [Handlers -> Places]
      /\ \A k \in Forwards : k \in Handlers
  BY TargetFacts DEF FInv, IInv, Shape
<1>4. \A k \in Forwards : pc[k] = "dialled" => pc'[k] = "dialled"
  BY <1>2, <1>3 DEF DialMoves, Goto
<1>5. \A c \in open : c \in pool \/ c = using[f] =>
        \E k \in Forwards : c = Target(k) /\ pc'[k] = "dialled"
  BY <1>4, HeldFacts, TargetFacts, ConnFacts DEF FInv, IInv, Shape
<1>6. CASE Request(f) \/ Route(f) \/ DialLost(f)
  BY <1>6 DEF Request, Route, DialLost, Transported
<1>7. CASE Deliver(f)
  <2>1. pc'[f] = "dialled"
    BY <1>3, <1>7 DEF Deliver, Goto
  <2>2. QED
    BY <1>7, <2>1 DEF Deliver, PutIdle, Transported
<1>8. CASE Respond(f) \/ Finish(f) \/ ClientLeaves(f)
  BY <1>8 DEF Respond, Finish, ClientLeaves, Transported
<1>9. CASE BodyRead(f)
  BY <1>5, <1>9 DEF BodyRead, PutIdle, Transported
<1>10. CASE GiveUp(f) \/ Retry(f) \/ TargetFails(f)
  <2>1. open' = open \ {using[f], NoConn} \/ open' = open \ {using[f], Client(f)}
    BY <1>10 DEF GiveUp, Retry, TargetFails, Drop
  <2>2. NoConn \notin open
    BY DEF FInv, IInv, Shape
  <2>3. QED
    BY <1>5, <2>1, <2>2 DEF Transported
<1>11. QED
  BY <1>6, <1>7, <1>8, <1>9, <1>10 DEF Forward

\* Closing idle connections, some of them or all.
LEMMA PoolStep ==
  ASSUME FInv, \/ \E c \in Targets : IdleExpires(c)
               \/ \E a \in Closers : CloseIdleConnections(a)
  PROVE  /\ UNCHANGED <<life, active, pc, snap, tunnelled, totalConns, at, using>>
         /\ closeIdle' \in BOOLEAN
         /\ pool' \subseteq pool /\ open' = open \ (pool \ pool')
         /\ closer' = closer \/ \E a \in Closers : CloseTransport(a)
         /\ \A c \in open \ open' :
              \E k \in Forwards : c = Target(k) /\ pc[k] = "dialled"
<1>1. ASSUME NEW c \in Targets, IdleExpires(c)
      PROVE  /\ UNCHANGED <<life, active, pc, snap, tunnelled, totalConns, at, using>>
             /\ closeIdle' \in BOOLEAN /\ closer' = closer
             /\ pool' \subseteq pool /\ open' = open \ (pool \ pool')
  BY <1>1 DEF IdleExpires, Close, FInv, ForwardShape
<1>2. ASSUME NEW a \in Closers, CloseIdleConnections(a)
      PROVE  /\ UNCHANGED <<life, active, pc, snap, tunnelled, totalConns, at, using>>
             /\ closeIdle' \in BOOLEAN /\ CloseTransport(a)
             /\ pool' \subseteq pool /\ open' = open \ (pool \ pool')
  BY <1>2 DEF CloseIdleConnections
<1>3. open' = open \ (pool \ pool') =>
        \A c \in open \ open' : \E k \in Forwards : c = Target(k) /\ pc[k] = "dialled"
  BY HeldFacts
<1>4. QED
  BY <1>1, <1>2, <1>3

-----------------------------------------------------------------------------
\* The server's own invariant survives what the transport does.
LEMMA ShapeKept ==
  ASSUME FInv, [ForwardNext]_allVars
  PROVE  Shape'
<1>1. Shape
  BY DEF FInv, IInv
<1>2. CASE Tunnelling
  BY <1>1, <1>2, TunnellingStep, ShapeStep
<1>3. ASSUME NEW f \in Forwards, Forward(f) PROVE Shape'
  <2>1. f \in Handlers
    BY TargetFacts
  <2>2. pc' \in [Handlers -> Places]
    BY <1>1, <1>3, <2>1, ForwardStep DEF Shape, DialMoves, Goto, Places
  <2>3. open' \subseteq Conns
    BY <1>1, <1>3, <2>1, ForwardStep, ConnFacts DEF Shape, Transported
  <2>4. QED
    BY <1>1, <1>3, <2>2, <2>3, ForwardStep DEF Shape, life
<1>4. CASE \/ \E c \in Targets : IdleExpires(c)
           \/ \E a \in Closers : CloseIdleConnections(a)
  <2>1. closer' \in [Closers -> CloserPlaces]
    BY <1>1, <1>4, PoolStep DEF Shape, CloseTransport, CloserGoto, CloserPlaces
  <2>2. QED
    BY <1>1, <1>4, <2>1, PoolStep DEF Shape, life
<1>5. CASE UNCHANGED allVars
  BY <1>1, <1>5 DEF allVars, vars, Shape
<1>6. QED
  BY <1>2, <1>3, <1>4, <1>5 DEF ForwardNext

LEMMA DialsKept ==
  ASSUME FInv, [ForwardNext]_allVars
  PROVE  Dials'
<1>1. /\ pc \in [Handlers -> Places] /\ Dials
      /\ \A f \in Forwards : f \in Handlers
  BY TargetFacts DEF FInv, IInv, Shape
<1>2. CASE Tunnelling
  <2>1. ASSUME NEW h \in Tunnels, Accept(h) \/ Handle(h) \/ TunnelEnds(h) PROVE Dials'
    <3>1. h \in Handlers \ Forwards
      BY DEF Tunnels
    <3>2. \E place \in Places : Goto(h, place)
      BY <2>1 DEF Accept, Handle, TunnelEnds, DialFails, DialWorks, CountActive,
                  Hijack, Reply, Abort, Track, CloseDeferred, Untrack, Places
    <3>3. QED
      BY <1>1, <3>1, <3>2 DEF Goto, Dials
  <2>2. ASSUME NEW f \in Forwards, DialWorks(f) PROVE Dials'
    BY <1>1, <2>2 DEF DialWorks, Goto, Dials
  <2>3. ASSUME UNCHANGED pc PROVE Dials'
    BY <1>1, <2>3 DEF Dials
  <2>4. QED
    BY <1>2, <2>1, <2>2, <2>3
       DEF Tunnelling, Start, StartFails, ServeReturns, Watch, Stop, StopReturns,
           CloseResources, Snapshot, CloseHTTP, CloseSnapped, Closed
<1>3. ASSUME NEW f \in Forwards, Forward(f) PROVE Dials'
  BY <1>1, <1>3, ForwardStep DEF DialMoves, Goto, Dials
<1>4. CASE \/ \E c \in Targets : IdleExpires(c)
           \/ \E a \in Closers : CloseIdleConnections(a)
  BY <1>1, <1>4, PoolStep DEF Dials
<1>5. CASE UNCHANGED allVars
  BY <1>1, <1>5 DEF allVars, vars, Dials
<1>6. QED
  BY <1>2, <1>3, <1>4, <1>5 DEF ForwardNext

LEMMA SettledKept ==
  ASSUME FInv, [ForwardNext]_allVars
  PROVE  Settled'
<1>1. Shape /\ Settled /\ Dials /\ pc \in [Handlers -> Places]
  BY DEF FInv, IInv, Shape
<1>2. CASE Tunnelling
  BY <1>1, <1>2, TunnellingStep, SettledStep, ShapeKept
<1>3. ASSUME NEW f \in Forwards, Forward(f) PROVE Settled'
  <2>1. f \in Handlers /\ \A k \in Forwards : k \in Handlers
    BY TargetFacts
  <2>2. \A h \in Handlers : h # f => pc'[h] = pc[h] /\ (Client(h) \in open' => Client(h) \in open)
    BY <1>1, <1>3, <2>1, ForwardStep, ConnFacts DEF DialMoves, Goto, Transported
  <2>3. \A h \in Handlers : /\ Target(h) \in open' => Target(h) \in open
                            /\ Target(h) \in open /\ pc'[h] # "dialled" => Target(h) \in open'
    BY <1>1, <1>3, <2>1, ForwardStep, ConnFacts DEF Transported
  <2>4. /\ pc[f] \in {"idle", "dial", "count", "dialled"}
        /\ \/ pc'[f] = pc[f] \/ pc'[f] = "dialled"
           \/ pc[f] = "idle" /\ pc'[f] = "dial"
    BY <1>1, <1>3, <2>1, ForwardStep DEF DialMoves, Goto, Dials
  <2>5. active' = active /\ snap' = snap
    BY <1>3, ForwardStep
  <2>6. QED
    BY <1>1, <2>1, <2>2, <2>3, <2>4, <2>5 DEF Settled, Untracked, Tracked, BothTracked
<1>4. CASE \/ \E c \in Targets : IdleExpires(c)
           \/ \E a \in Closers : CloseIdleConnections(a)
  <2>1. /\ UNCHANGED <<active, pc, snap>>
        /\ \A h \in Handlers : /\ Client(h) \in open' => Client(h) \in open
                               /\ Target(h) \in open' => Target(h) \in open
                               /\ Target(h) \in open /\ pc[h] # "dialled" => Target(h) \in open'
    BY <1>4, PoolStep, ConnFacts, TargetFacts
  <2>2. QED
    BY <1>1, <2>1 DEF Settled
<1>5. CASE UNCHANGED allVars
  BY <1>1, <1>5 DEF allVars, vars, Settled
<1>6. QED
  BY <1>2, <1>3, <1>4, <1>5 DEF ForwardNext

LEMMA StoppingKept ==
  ASSUME FInv, [ForwardNext]_allVars
  PROVE  Stopping'
<1>1. Shape /\ Settled /\ Stopping /\ Dials /\ pc \in [Handlers -> Places]
  BY DEF FInv, IInv, Shape
<1>2. CASE Tunnelling
  BY <1>1, <1>2, TunnellingStep, StoppingStep
<1>3. tunnelled \cap Forwards = {} /\ tunnelled \subseteq Handlers
  BY <1>1, TargetFacts DEF Stopping, Dials, Shape
<1>4. ASSUME NEW f \in Forwards, Forward(f) PROVE Stopping'
  <2>1. f \in Handlers
    BY TargetFacts
  <2>2. \A h \in tunnelled : pc'[h] = pc[h] /\ Ends(h) \cap open' \subseteq Ends(h) \cap open
    BY <1>1, <1>3, <1>4, <2>1, ForwardStep, ConnFacts DEF DialMoves, Goto, Transported, Ends
  <2>3. UNCHANGED <<server, listening, serving, active, closer, snap, tunnelled>>
    BY <1>4, ForwardStep DEF life
  <2>4. QED
    BY <1>1, <2>2, <2>3 DEF Stopping
<1>5. CASE \/ \E c \in Targets : IdleExpires(c)
           \/ \E a \in Closers : CloseIdleConnections(a)
  <2>1. /\ UNCHANGED <<server, listening, serving, active, pc, snap, tunnelled>>
        /\ \A h \in tunnelled : Ends(h) \cap open' \subseteq Ends(h) \cap open
    BY <1>5, PoolStep DEF life
  <2>2. closer \in [Closers -> CloserPlaces] /\ "stopper" \in Closers
    BY <1>1 DEF Shape, Closers
  <2>3. \/ closer'["stopper"] = closer["stopper"]
        \/ closer["stopper"] = "transport" /\ closer'["stopper"] = "conns"
    BY <1>5, <2>2, PoolStep DEF CloseTransport, CloserGoto
  <2>4. QED
    BY <1>1, <2>1, <2>3 DEF Stopping
<1>6. CASE UNCHANGED allVars
  BY <1>1, <1>6 DEF allVars, vars, Stopping
<1>7. QED
  BY <1>2, <1>4, <1>5, <1>6 DEF ForwardNext

-----------------------------------------------------------------------------
\* A request that has a connection has one of its own, and no idle one.
Apart(held) ==
  \A g \in Forwards : held[g] # NoConn =>
    /\ at[g] \in {"sent", "copy"}
    /\ held[g] \notin pool
    /\ \A k \in Forwards : held[k] = held[g] => k = g

\* A connection handed on while nobody has it finds exactly one owner, or is
\* closed.
LEMMA HandedOn ==
  ASSUME FInv,
         NEW f \in Forwards, NEW n, NEW held \in [Forwards -> Targets \cup {NoConn}],
         PutIdle(Target(f), held, n), UNCHANGED closeIdle,
         Target(f) \in open, pc'[f] = "dialled",
         \A k \in Forwards : k # f => (pc'[k] = "dialled" <=> pc[k] = "dialled"),
         Target(f) \notin pool, \A g \in Forwards : held[g] # Target(f),
         Apart(held),
         \A k \in Forwards : k # f =>
           (Target(k) \in pool \/ (\E g \in Forwards : held[g] = Target(k))
              <=> Target(k) \in open /\ pc[k] = "dialled")
  PROVE  ForwardShape' /\ Owned'
<1>1. /\ at \in [Forwards -> Stages] /\ pool \subseteq Targets /\ closeIdle \in BOOLEAN
  BY DEF FInv, ForwardShape
<1>2. /\ Target(f) \in Targets /\ Target(f) # NoConn
      /\ \A k \in Forwards : k # f => Target(k) # Target(f)
  BY TargetFacts, ConnFacts
<1>3. CASE /\ \E g \in Waiting : using' = [held EXCEPT ![g] = Target(f)] /\ Stage(g, "sent")
           /\ UNCHANGED <<open, pool>>
  <2>1. PICK g \in Waiting : using' = [held EXCEPT ![g] = Target(f)] /\ Stage(g, "sent")
    BY <1>3
  <2>2. g \in Forwards /\ held[g] = NoConn
    BY <2>1 DEF Waiting, Apart
  <2>3. \A k \in Forwards : /\ at'[k] = IF k = g THEN "sent" ELSE at[k]
                            /\ using'[k] = IF k = g THEN Target(f) ELSE held[k]
    BY <1>1, <2>1, <2>2 DEF Stage
  <2>4. ForwardShape'
    BY <1>1, <1>2, <1>3, <2>1, <2>2 DEF ForwardShape, Stage, Stages
  <2>5. \A k \in Forwards :
          using'[k] # NoConn =>
            /\ at'[k] \in {"sent", "copy"}
            /\ using'[k] \notin pool'
            /\ \A j \in Forwards : using'[j] = using'[k] => j = k
    BY <1>2, <1>3, <2>2, <2>3 DEF Apart
  <2>6. \A k \in Forwards :
          Held(k)' <=> Target(k) \in open' /\ pc'[k] = "dialled"
    BY <1>2, <1>3, <2>2, <2>3, TargetFacts DEF Held
  <2>7. QED
    BY <2>4, <2>5, <2>6 DEF Owned
<1>4. CASE Waiting = {} /\ using' = held /\ open' = open \ {Target(f)} /\ UNCHANGED <<at, pool>>
  BY <1>1, <1>2, <1>4 DEF Apart, Owned, Held, ForwardShape
<1>5. CASE Waiting = {} /\ using' = held /\ pool' = pool \cup {Target(f)} /\ UNCHANGED <<at, open>>
  BY <1>1, <1>2, <1>5 DEF Apart, Owned, Held, ForwardShape
<1>6. QED
  BY <1>3, <1>4, <1>5 DEF PutIdle

\* A request gives its connection up and closes it.
LEMMA Dropped ==
  ASSUME FInv, NEW f \in Forwards, NEW gone \in {NoConn, Client(f)}, Drop(f, gone),
         NEW s \in Stages, Stage(f, s), UNCHANGED <<pc, pool, closeIdle>>
  PROVE  ForwardShape' /\ Owned'
<1>1. /\ at \in [Forwards -> Stages] /\ using \in [Forwards -> Targets \cup {NoConn}]
      /\ pool \subseteq Targets /\ closeIdle \in BOOLEAN /\ Owned
  BY DEF FInv, ForwardShape
<1>2. \A k \in Forwards : /\ using'[k] = IF k = f THEN NoConn ELSE using[k]
                          /\ k # f => at'[k] = at[k]
  BY <1>1 DEF Drop, Stage
<1>3. \A k \in Forwards : Target(k) \in open' <=> Target(k) \in open /\ using[f] # Target(k)
  BY TargetFacts DEF Drop
<1>4. ForwardShape'
  BY <1>1 DEF ForwardShape, Drop, Stage
<1>5. \A k \in Forwards : Held(k)' <=> Held(k) /\ using[f] # Target(k)
  BY <1>1, <1>2, TargetFacts DEF Held, Owned
<1>6. QED
  BY <1>1, <1>2, <1>3, <1>4, <1>5 DEF Owned

LEMMA OwnedKept ==
  ASSUME FInv, [ForwardNext]_allVars
  PROVE  ForwardShape' /\ Owned'
<1>1. /\ at \in [Forwards -> Stages] /\ using \in [Forwards -> Targets \cup {NoConn}]
      /\ pool \subseteq Targets /\ closeIdle \in BOOLEAN
      /\ Owned /\ ForwardShape /\ Dials /\ Settled /\ Shape
      /\ pc \in [Handlers -> Places]
      /\ \A k \in Forwards : k \in Handlers
  BY TargetFacts DEF FInv, IInv, Shape, ForwardShape
<1>2. CASE Tunnelling
  <2>1. UNCHANGED <<at, using, pool, closeIdle>>
    BY <1>2 DEF Tunnelling, fvars
  <2>2. \A k \in Forwards :
          Target(k) \in open' /\ pc'[k] = "dialled" <=> Target(k) \in open /\ pc[k] = "dialled"
    <3>1. ASSUME NEW h \in Tunnels, Accept(h) \/ Handle(h) \/ TunnelEnds(h),
                 NEW k \in Forwards
          PROVE  pc'[k] = pc[k] /\ (Target(k) \in open' <=> Target(k) \in open)
      <4>1. h \in Handlers /\ h # k
        BY DEF Tunnels
      <4>2. \E place \in Places : Goto(h, place)
        BY <3>1 DEF Accept, Handle, TunnelEnds, DialFails, DialWorks, CountActive,
                    Hijack, Reply, Abort, Track, CloseDeferred, Untrack, Places
      <4>3. \A c \in Conns \ Ends(h) : c \in open' <=> c \in open
        BY <3>1 DEF Accept, Handle, TunnelEnds, DialFails, DialWorks, CountActive,
                    Hijack, Reply, Abort, Track, CloseDeferred, Untrack, Close, Ends
      <4>4. QED
        BY <1>1, <4>1, <4>2, <4>3, ConnFacts DEF Goto, Ends
    <3>2. ASSUME NEW f \in Forwards, DialWorks(f), NEW k \in Forwards
          PROVE  Target(k) \in open' /\ pc'[k] = "dialled" <=> Target(k) \in open /\ pc[k] = "dialled"
      BY <1>1, <3>2, ConnFacts DEF DialWorks, Goto
    <3>3. ASSUME NEW a \in Closers, CloseResources(a), NEW k \in Forwards
          PROVE  pc' = pc /\ (Target(k) \in open' <=> Target(k) \in open)
      <4>1. CASE CloseSnapped(a)
        <5>1. Target(k) \notin snap[a]
          BY <1>1 DEF Settled, Dials, Tracked
        <5>2. QED
          BY <4>1, <5>1 DEF CloseSnapped, Close
      <4>2. CASE CloseHTTP(a)
        BY <1>1, <4>2, ConnFacts DEF CloseHTTP, Unhijacked
      <4>3. QED
        BY <3>3, <4>1, <4>2 DEF CloseResources, Snapshot, Closed
    <3>4. ASSUME Start \/ StartFails \/ ServeReturns \/ Watch \/ Stop \/ StopReturns
          PROVE  UNCHANGED <<pc, open>>
      BY <3>4 DEF Start, StartFails, ServeReturns, Watch, Stop, StopReturns
    <3>5. QED
      BY <1>2, <3>1, <3>2, <3>3, <3>4 DEF Tunnelling
  <2>3. QED
    BY <1>1, <2>1, <2>2 DEF ForwardShape, Owned, Held
<1>3. ASSUME NEW f \in Forwards, Forward(f) PROVE ForwardShape' /\ Owned'
  <2>1. CASE Request(f) \/ Respond(f) \/ Finish(f) \/ ClientLeaves(f)
    <3>1. /\ UNCHANGED <<pc, using, pool, closeIdle>>
          /\ \A k \in Forwards : Target(k) \in open' <=> Target(k) \in open
      BY <1>1, <2>1, ConnFacts
         DEF Request, Respond, Finish, ClientLeaves, vars, fvars, idle
    <3>2. /\ at' \in [Forwards -> Stages]
          /\ \A k \in Forwards : using[k] # NoConn => at'[k] \in {"sent", "copy"}
      BY <1>1, <2>1 DEF Request, Respond, Finish, ClientLeaves, fvars, Stage, Stages, Owned
    <3>3. QED
      BY <1>1, <3>1, <3>2 DEF ForwardShape, Owned, Held
  <2>2. CASE Route(f)
    <3>1. /\ UNCHANGED open /\ closeIdle' = FALSE /\ at[f] = "route" /\ using[f] = NoConn
          /\ \A k \in Forwards : pc'[k] = "dialled" <=> pc[k] = "dialled"
      BY <1>1, <2>2 DEF Route, Goto, Owned
    <3>2. CASE \E c \in pool : /\ using' = [using EXCEPT ![f] = c] /\ pool' = pool \ {c}
                              /\ Stage(f, "sent")
      <4>1. PICK c \in pool : /\ using' = [using EXCEPT ![f] = c] /\ pool' = pool \ {c}
                             /\ Stage(f, "sent")
        BY <3>2
      <4>2. c # NoConn /\ c \in Targets /\ \A g \in Forwards : using[g] # c
        BY <1>1, TargetFacts DEF Owned
      <4>3. /\ \A k \in Forwards : /\ using'[k] = IF k = f THEN c ELSE using[k]
                                   /\ at'[k] = IF k = f THEN "sent" ELSE at[k]
            /\ ForwardShape'
        BY <1>1, <3>1, <4>1, <4>2 DEF Stage, Stages, ForwardShape
      <4>4. \A k \in Forwards : Held(k)' <=> Held(k)
        BY <3>1, <4>1, <4>2, <4>3, TargetFacts DEF Held
      <4>5. QED
        BY <1>1, <3>1, <4>1, <4>2, <4>3, <4>4 DEF Owned
    <3>3. CASE Stage(f, "wait") /\ UNCHANGED <<using, pool>>
      BY <1>1, <3>1, <3>3 DEF Stage, Stages, ForwardShape, Owned, Held
    <3>4. QED
      BY <2>2, <3>2, <3>3 DEF Route
  <2>3. CASE DialLost(f)
    BY <1>1, <2>3, TargetFacts DEF DialLost, Goto, Stage, Stages, ForwardShape, Owned, Held, idle, Settled
  <2>4. CASE Deliver(f)
    <3>1. Target(f) \in open /\ pc[f] = "count" /\ ~Held(f)
      BY <1>1, <2>4 DEF Deliver, Settled, Owned
    <3>2. \A k \in Forwards : pc'[k] = IF k = f THEN "dialled" ELSE pc[k]
      BY <1>1, <2>4 DEF Deliver, Goto
    <3>3. CASE at[f] = "wait"
      <4>1. /\ using' = [using EXCEPT ![f] = Target(f)] /\ Stage(f, "sent")
            /\ UNCHANGED <<open, pool, closeIdle>>
        BY <2>4, <3>3 DEF Deliver
      <4>2. QED
        BY <1>1, <3>1, <3>2, <3>3, <4>1, TargetFacts, ConnFacts
           DEF Stage, Stages, ForwardShape, Owned, Held
    <3>4. CASE at[f] # "wait"
      <4>1. PutIdle(Target(f), using, activeConns + 1) /\ UNCHANGED closeIdle
        BY <2>4, <3>4 DEF Deliver
      <4>2. QED
        BY <1>1, <3>1, <3>2, <4>1, HandedOn DEF Apart, Owned, Held
    <3>5. QED
      BY <3>3, <3>4
  <2>5. CASE BodyRead(f)
    <3> DEFINE held == [using EXCEPT ![f] = NoConn]
    <3>1. PICK k \in Forwards : using[f] = Target(k) /\ pc[k] = "dialled" /\ Target(k) \in open
      BY <2>5, HeldFacts, TargetFacts DEF BodyRead
    <3>2. /\ PutIdle(Target(k), held, activeConns) /\ UNCHANGED <<pc, closeIdle>>
          /\ held \in [Forwards -> Targets \cup {NoConn}]
          /\ \A g \in Forwards : held[g] = IF g = f THEN NoConn ELSE using[g]
      BY <1>1, <2>5, <3>1 DEF BodyRead
    <3>3. /\ Target(k) \notin pool /\ Target(k) # NoConn
          /\ \A g \in Forwards : held[g] # Target(k)
          /\ Apart(held)
      BY <1>1, <3>1, <3>2, TargetFacts DEF Owned, Apart
    <3>4. \A j \in Forwards : j # k =>
            (Target(j) \in pool \/ (\E g \in Forwards : held[g] = Target(j))
               <=> Target(j) \in open /\ pc[j] = "dialled")
      <4>1. \A j \in Forwards : j # k => Target(j) # using[f] /\ Target(j) # NoConn
        BY <3>1, TargetFacts, ConnFacts
      <4>2. QED
        BY <1>1, <3>2, <4>1 DEF Owned, Held
    <3>5. QED
      BY <3>1, <3>2, <3>3, <3>4, HandedOn
  <2>6. CASE GiveUp(f)
    BY <2>6, Dropped DEF GiveUp, idle, Stages
  <2>7. CASE TargetFails(f)
    BY <2>7, Dropped DEF TargetFails, idle, Stages
  <2>8. CASE Retry(f)
    BY <2>8, Dropped DEF Retry, idle, Stages
  <2>9. QED
    BY <1>3, <2>1, <2>2, <2>3, <2>4, <2>5, <2>6, <2>7, <2>8 DEF Forward
<1>4. CASE \/ \E c \in Targets : IdleExpires(c)
           \/ \E a \in Closers : CloseIdleConnections(a)
  <2>1. /\ UNCHANGED <<pc, at, using>> /\ closeIdle' \in BOOLEAN
        /\ pool' \subseteq pool /\ open' = open \ (pool \ pool')
    BY <1>4, PoolStep
  <2>2. \A k \in Forwards : Target(k) \in pool \ pool' => ~Held(k)' /\ Target(k) \notin open'
    BY <1>1, <2>1, TargetFacts DEF Owned, Held
  <2>3. \A k \in Forwards : Target(k) \notin pool \ pool' =>
          /\ Held(k)' <=> Held(k)
          /\ Target(k) \in open' <=> Target(k) \in open
    BY <1>1, <2>1 DEF Held
  <2>4. ForwardShape'
    BY <1>1, <2>1 DEF ForwardShape
  <2>5. \A k \in Forwards : Held(k)' <=> Target(k) \in open' /\ pc'[k] = "dialled"
    BY <1>1, <2>1, <2>2, <2>3 DEF Owned
  <2>6. QED
    BY <1>1, <2>1, <2>4, <2>5 DEF Owned
<1>5. CASE UNCHANGED allVars
  BY <1>1, <1>5 DEF allVars, vars, fvars, ForwardShape, Owned, Held
<1>6. QED
  BY <1>2, <1>3, <1>4, <1>5 DEF ForwardNext

-----------------------------------------------------------------------------
\* The counter is right after a step that dials nothing if it is right about
\* the connections left open.
LEMMA Recount ==
  ASSUME Counting, totalConns' = totalConns, Past \subseteq Past',
         Dialled' \subseteq Dialled, activeConns' = Cardinality(Counted')
  PROVE  Counting'
<1>1. /\ Dialled \in SUBSET Handlers /\ Dialled' \in SUBSET Handlers
      /\ Past \in SUBSET Handlers /\ Past' \in SUBSET Handlers
  BY DEF Dialled, Past
<1>2. /\ Cardinality(Dialled') <= Cardinality(Dialled)
      /\ Cardinality(Past) <= Cardinality(Past')
      /\ Cardinality(Dialled) \in Nat /\ Cardinality(Dialled') \in Nat
      /\ Cardinality(Past) \in Nat /\ Cardinality(Past') \in Nat
  BY <1>1, Cards
<1>3. QED
  BY <1>2 DEF Counting

\* A connection handed on is closed, and counted down, or stays as it is.
LEMMA HandedOnCounts ==
  ASSUME NEW c, NEW held, NEW n \in Nat, PutIdle(c, held, n)
  PROVE  \/ open' = open /\ activeConns' = n
         \/ open' = open \ {c} /\ activeConns' = n - 1
BY DEF PutIdle

\* Each idle connection was counted for the request it was dialled for.
LEMMA PoolCounts ==
  ASSUME FInv
  PROVE  Cardinality({ h \in Counted : Target(h) \in pool }) = Cardinality(pool)
<1> DEFINE owners == { h \in Counted : Target(h) \in pool }
           dialled == [h \in owners |-> Target(h)]
<1>1. \A c \in pool : \E k \in owners : c = Target(k)
  <2>1. ASSUME NEW c \in pool PROVE \E k \in owners : c = Target(k)
    <3>1. PICK k \in Forwards : c = Target(k) /\ pc[k] = "dialled"
      BY HeldFacts
    <3>2. c \in open /\ k \in Handlers
      BY <3>1, TargetFacts DEF FInv, Owned, Held
    <3>3. QED
      BY <3>1, <3>2 DEF Counted
  <2>2. QED
    BY <2>1
<1>2. \A h, k \in owners : Target(h) = Target(k) => h = k
  BY ConnFacts DEF Counted
<1>3. IsFiniteSet(owners)
  BY ServerAssumption, FS_Subset DEF ServerAssumption, Counted
<1>4. dialled \in Bijection(owners, pool)
  BY <1>1, <1>2 DEF Bijection, Injection, Surjection, IsInjective
<1>5. ExistsBijection(owners, pool)
  BY <1>4 DEF ExistsBijection
<1>6. QED
  BY <1>3, <1>5, FS_Bijection

LEMMA CountingKept ==
  ASSUME FInv, [ForwardNext]_allVars
  PROVE  Counting'
<1>1. /\ Shape /\ Settled /\ Counting /\ Dials /\ Owned /\ ForwardShape
      /\ pc \in [Handlers -> Places]
      /\ Counted \in SUBSET Handlers
      /\ \A k \in Forwards : k \in Handlers
  BY TargetFacts DEF FInv, IInv, Shape, Counted
<1>2. /\ activeConns = Cardinality(Counted) /\ activeConns \in Nat
  BY <1>1, Cards DEF Counting
<1>3. CASE Tunnelling
  BY <1>1, <1>3, TunnellingStep, CountingStep
<1>4. ASSUME NEW f \in Forwards, Forward(f) PROVE Counting'
  <2>1. /\ totalConns' = totalConns /\ Past \subseteq Past' /\ Dialled' \subseteq Dialled
    BY <1>1, <1>4, ForwardStep, ConnFacts
       DEF DialMoves, Goto, Transported, Past, Dialled
  <2>2. SUFFICES activeConns' = Cardinality(Counted')
    BY <1>1, <2>1, Recount
  <2>3. CASE Request(f) \/ Respond(f) \/ Finish(f) \/ ClientLeaves(f)
    <3>1. /\ UNCHANGED <<pc, activeConns>>
          /\ \A h \in Handlers : Target(h) \in open' <=> Target(h) \in open
      BY <1>1, <2>3, ConnFacts DEF Request, Respond, Finish, ClientLeaves, vars, stats
    <3>2. Counted' = Counted
      BY <3>1 DEF Counted
    <3>3. QED
      BY <1>2, <3>1, <3>2
  <2>4. CASE Route(f) \/ DialLost(f)
    <3>1. /\ UNCHANGED activeConns
          /\ \A h \in Handlers : /\ Target(h) \in open' <=> Target(h) \in open
                                 /\ Target(h) \in open =>
                                      (pc'[h] = "count" <=> pc[h] = "count")
      BY <1>1, <2>4, ConnFacts DEF Route, DialLost, Goto, stats, Settled
    <3>2. Counted' = Counted
      BY <3>1 DEF Counted
    <3>3. QED
      BY <1>2, <3>1, <3>2
  <2>5. CASE Deliver(f)
    <3>1. Target(f) \in open /\ pc[f] = "count" /\ f \notin Counted
      BY <1>1, <2>5 DEF Deliver, Settled, Counted
    <3>2. \A h \in Handlers : pc'[h] = IF h = f THEN "dialled" ELSE pc[h]
      BY <1>1, <2>5 DEF Deliver, Goto
    <3>3. \/ open' = open /\ activeConns' = activeConns + 1
          \/ open' = open \ {Target(f)} /\ activeConns' = activeConns
      <4>1. CASE at[f] = "wait"
        BY <2>5, <4>1 DEF Deliver
      <4>2. CASE at[f] # "wait"
        <5>1. PutIdle(Target(f), using, activeConns + 1)
          BY <2>5, <4>2 DEF Deliver
        <5>2. QED
          BY <1>2, <5>1, HandedOnCounts
      <4>3. QED
        BY <4>1, <4>2
    <3>4. CASE open' = open /\ activeConns' = activeConns + 1
      <4>1. Counted' = Counted \cup {f}
        BY <1>1, <3>1, <3>2, <3>4 DEF Counted
      <4>2. Cardinality(Counted \cup {f}) = Cardinality(Counted) + 1
        BY <1>1, <3>1, Cards
      <4>3. QED
        BY <1>2, <3>4, <4>1, <4>2
    <3>5. CASE open' = open \ {Target(f)} /\ activeConns' = activeConns
      <4>1. Counted' = Counted
        BY <1>1, <3>1, <3>2, <3>5, ConnFacts DEF Counted
      <4>2. QED
        BY <1>2, <3>5, <4>1
    <3>6. QED
      BY <3>3, <3>4, <3>5
  <2>6. ASSUME NEW k \in Forwards, UNCHANGED pc, pc[k] = "dialled", Target(k) \in open,
               activeConns' = activeConns - 1,
               \A h \in Handlers : Target(h) \in open' <=> Target(h) \in open /\ h # k
        PROVE  activeConns' = Cardinality(Counted')
    <3>1. k \in Counted /\ Counted' = Counted \ {k}
      BY <1>1, <2>6 DEF Counted
    <3>2. Cardinality(Counted \ {k}) = Cardinality(Counted) - 1
      BY <1>1, <3>1, Cards
    <3>3. QED
      BY <1>2, <2>6, <3>1, <3>2
  <2>7. CASE BodyRead(f)
    <3>1. PICK k \in Forwards : using[f] = Target(k) /\ pc[k] = "dialled" /\ Target(k) \in open
      BY <2>7, HeldFacts, TargetFacts DEF BodyRead
    <3>2. /\ UNCHANGED pc
          /\ \/ open' = open /\ activeConns' = activeConns
             \/ open' = open \ {Target(k)} /\ activeConns' = activeConns - 1
      BY <1>2, <2>7, <3>1, HandedOnCounts DEF BodyRead
    <3>3. CASE open' = open /\ activeConns' = activeConns
      BY <1>2, <3>2, <3>3 DEF Counted
    <3>4. CASE open' = open \ {Target(k)} /\ activeConns' = activeConns - 1
      BY <1>1, <2>6, <3>1, <3>2, <3>4, ConnFacts
    <3>5. QED
      BY <3>2, <3>3, <3>4
  <2>8. CASE GiveUp(f) \/ TargetFails(f) \/ Retry(f)
    <3>1. PICK gone \in {NoConn, Client(f)} : Drop(f, gone) /\ UNCHANGED pc
      BY <2>8 DEF GiveUp, TargetFails, Retry
    <3>2. \A h \in Handlers : Target(h) \in open' <=> Target(h) \in open /\ using[f] # Target(h)
      BY <1>1, <3>1, ConnFacts DEF Drop
    <3>3. CASE using[f] = NoConn
      <4>1. activeConns' = activeConns
        BY <3>1, <3>3 DEF Drop
      <4>2. \A h \in Handlers : Target(h) \in open' <=> Target(h) \in open
        BY <3>2, <3>3, ConnFacts
      <4>3. QED
        BY <1>2, <3>1, <4>1, <4>2 DEF Counted
    <3>4. CASE using[f] # NoConn
      <4>1. PICK k \in Forwards : using[f] = Target(k) /\ pc[k] = "dialled" /\ Target(k) \in open
        BY <3>4, HeldFacts, TargetFacts
      <4>2. activeConns' = activeConns - 1
        BY <3>1, <3>4 DEF Drop
      <4>3. QED
        BY <1>1, <2>6, <3>1, <3>2, <4>1, <4>2, ConnFacts
    <3>5. QED
      BY <3>3, <3>4
  <2>9. QED
    BY <1>4, <2>3, <2>4, <2>5, <2>7, <2>8 DEF Forward
<1>5. ASSUME NEW c \in Targets, IdleExpires(c) PROVE Counting'
  <2>1. Close(c) /\ UNCHANGED <<pc, totalConns>>
    BY <1>5 DEF IdleExpires
  <2>2. c \in Conns /\ \A h \in Handlers : c = Target(h) => pc[h] # "count"
    BY <1>1, <1>5, HeldFacts, TargetFacts, ConnFacts DEF IdleExpires
  <2>3. Past' = Past
    BY <2>1 DEF Past
  <2>4. QED
    BY <1>1, <2>1, <2>2, <2>3, CloseCounts
<1>6. ASSUME NEW a \in Closers, CloseIdleConnections(a) PROVE Counting'
  <2> DEFINE owners == { h \in Counted : Target(h) \in pool }
  <2>1. /\ UNCHANGED <<pc, totalConns>> /\ open' = open \ pool
        /\ activeConns' = activeConns - Cardinality(pool)
    BY <1>6 DEF CloseIdleConnections
  <2>2. Past' = Past /\ Dialled' \subseteq Dialled /\ Counted' = Counted \ owners
    BY <2>1 DEF Past, Dialled, Counted
  <2>3. IsFiniteSet(Counted)
    BY ServerAssumption, FS_Subset DEF ServerAssumption, Counted
  <2>4. Cardinality(Counted \ owners) = Cardinality(Counted) - Cardinality(Counted \cap owners)
    BY <2>3, FS_Difference
  <2>5. Counted \cap owners = owners /\ Cardinality(owners) = Cardinality(pool)
    BY PoolCounts
  <2>6. activeConns' = Cardinality(Counted')
    BY <1>2, <2>1, <2>2, <2>4, <2>5
  <2>7. QED
    BY <1>1, <2>1, <2>2, <2>6, Recount
<1>7. CASE UNCHANGED allVars
  BY <1>1, <1>7 DEF allVars, vars, Counting, Counted, Dialled, Past
<1>8. QED
  BY <1>3, <1>4, <1>5, <1>6, <1>7 DEF ForwardNext

-----------------------------------------------------------------------------
THEOREM ForwardInvariance == ForwardSpec => []FInv
<1>1. ForwardInit => FInv
  <2>1. SUFFICES ASSUME ForwardInit PROVE FInv
    OBVIOUS
  <2>2. IInv
    BY <2>1, InitialState DEF ForwardInit
  <2>3. Dials /\ ForwardShape /\ Owned
    BY <2>1, TargetFacts DEF ForwardInit, Init, Dials, ForwardShape, Stages, Owned, Held
  <2>4. QED
    BY <2>2, <2>3 DEF FInv
<1>2. FInv /\ [ForwardNext]_allVars => FInv'
  BY ShapeKept, SettledKept, CountingKept, StoppingKept, DialsKept, OwnedKept
     DEF FInv, IInv
<1>3. QED
  BY <1>1, <1>2, PTL DEF ForwardSpec

\* The variables of the server and of the transport have their types, and no
\* connection is counted twice.
THEOREM ForwardTyping == ForwardSpec => []ForwardTypeOK
<1>1. FInv => ForwardTypeOK
  BY InvariantTyped DEF FInv, ForwardShape, ForwardTypeOK
<1>2. QED
  BY ForwardInvariance, <1>1, PTL

\* The counters are right with tunnels and forwarded requests side by side,
\* whoever closes a connection: a handler, the transport or a closing server.
THEOREM ForwardCounters == ForwardSpec => []ActiveIsExact
<1>1. FInv => ActiveIsExact
  BY InvariantExact DEF FInv
<1>2. QED
  BY ForwardInvariance, <1>1, PTL

\* Nobody loses a connection of the transport, and no two have the same.
THEOREM OneOwnerEach == ForwardSpec => []OneOwner
<1>1. ASSUME FInv, NEW f \in Forwards, Target(f) \in open, pc[f] # "count"
      PROVE  LET users == { g \in Forwards : using[g] = Target(f)
                                             /\ at[g] \in {"sent", "copy"} }
             IN IF Target(f) \in pool THEN users = {} ELSE Cardinality(users) = 1
  <2> DEFINE users == { g \in Forwards : using[g] = Target(f)
                                         /\ at[g] \in {"sent", "copy"} }
  <2>1. pc[f] = "dialled" /\ Owned /\ Target(f) # NoConn
    BY <1>1, TargetFacts DEF FInv, IInv, Settled, Dials
  <2>2. \A g \in Forwards : using[g] = Target(f) => at[g] \in {"sent", "copy"}
    BY <2>1 DEF Owned
  <2>3. CASE Target(f) \in pool
    BY <2>1, <2>3 DEF Owned
  <2>4. CASE Target(f) \notin pool
    <3>1. PICK g \in Forwards : using[g] = Target(f)
      BY <1>1, <2>1, <2>4 DEF Owned, Held
    <3>2. users = {g}
      BY <2>1, <2>2, <3>1 DEF Owned
    <3>3. QED
      BY <2>4, <3>2, FS_Singleton
  <2>5. QED
    BY <2>3, <2>4
<1>2. FInv => OneOwner
  BY <1>1 DEF OneOwner
<1>3. QED
  BY ForwardInvariance, <1>2, PTL

\* What the server promises of its tunnels it keeps beside forwarded requests:
\* a tunnel that has ended leaves no connection, and when Stop returns those it
\* found running are closed at both ends.
THEOREM TunnelsBesideForwards == ForwardSpec => [](NothingLeaks /\ StopCloses)
<1>1. FInv => NothingLeaks /\ StopCloses
  BY InvariantLeakFree, InvariantCloses DEF FInv
<1>2. QED
  BY ForwardInvariance, <1>1, PTL

\* closeResources ends beside forwarded requests as well: the connections that
\* these return to the pool meanwhile add nothing to it.
THEOREM ForwardClosingEnds ==
  ForwardSpec => [][\A a \in Closers : ClosingNearer(a)]_allVars
<1>1. ASSUME FInv, [ForwardNext]_allVars, NEW a \in Closers
      PROVE  ClosingNearer(a)
  <2>1. Shape /\ Shape'
    BY <1>1, ShapeKept DEF FInv, IInv
  <2>2. CASE [Next]_vars
    BY <2>1, <2>2, ClosingStep
  <2>3. CASE UNCHANGED <<closer, snap>>
    BY <2>1, <2>3, ClosingStays
  <2>4. ASSUME NEW b \in Closers, CloseIdleConnections(b) PROVE ClosingNearer(a)
    <3>1. CASE b = a
      <4>1. ClosingLeft(a)' < ClosingLeft(a)
        BY <2>1, <2>4, <3>1, ClosingAdvances DEF CloseIdleConnections
      <4>2. ClosingLeft(a) \in Nat /\ ClosingLeft(a)' \in Nat
        BY <2>1, ConnsFinite DEF Shape, ClosingLeft
      <4>3. QED
        BY <4>1, <4>2 DEF ClosingNearer
    <3>2. CASE b # a
      <4>1. closer'[a] = closer[a] /\ snap'[a] = snap[a]
        BY <2>1, <2>4, <3>2 DEF CloseIdleConnections, CloseTransport, CloserGoto, Shape
      <4>2. QED
        BY <2>1, <4>1, ClosingStays
    <3>3. QED
      BY <3>1, <3>2
  <2>5. ASSUME NEW f \in Forwards, Forward(f) PROVE UNCHANGED <<closer, snap>>
    BY <1>1, <2>5, ForwardStep
  <2>6. ASSUME NEW c \in Targets, IdleExpires(c) PROVE UNCHANGED <<closer, snap>>
    BY <2>6 DEF IdleExpires
  <2>7. QED
    BY <1>1, <2>2, <2>3, <2>4, <2>5, <2>6, TunnellingStep DEF ForwardNext, allVars, vars
<1>2. FInv /\ [ForwardNext]_allVars => \A a \in Closers : ClosingNearer(a)
  BY <1>1
<1>3. QED
  BY <1>2, ForwardInvariance, PTL DEF ForwardSpec
=============================================================================
