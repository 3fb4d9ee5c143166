-------------------------- MODULE ProxyServerProofs --------------------------
(***************************************************************************)
(* Safety of the server for any number of CONNECT handlers.                *)
(*                                                                         *)
(* A connection is opened once, by its handler, and from then on anybody   *)
(* may close it.  So everything rests on Settled: what is known of the two *)
(* connections of a handler at each of its places, whatever the others do. *)
(***************************************************************************)
EXTENDS ProxyServer, FiniteSetTheorems, TLAPS

\* Places before anything is tracked, and those after the first Track.
Untracked == {"idle", "dial", "count", "hijack", "reply", "abort", "abort2",
              "track", "done", "dialled"}
Tracked == {"track2", "tunnel", "close", "close2", "untrack", "untrack2"}
BothTracked == {"tunnel", "close", "close2", "untrack"}

Settled ==
  \A h \in Handlers :
    /\ pc[h] \in Untracked => Client(h) \notin active /\ Target(h) \notin active
    /\ pc[h] \in BothTracked => Client(h) \in active /\ Target(h) \in active
    /\ pc[h] \in {"track2", "untrack2"} => Client(h) \in active /\ Target(h) \notin active
    /\ pc[h] \in {"idle", "dial", "close2", "untrack", "untrack2", "done"}
         => Target(h) \notin open
    /\ pc[h] \in {"abort2", "untrack", "untrack2", "done"} => Client(h) \notin open
    /\ pc[h] \in {"count", "hijack"} => Target(h) \in open
    /\ \A a \in Closers : Client(h) \in snap[a] \/ Target(h) \in snap[a]
         => pc[h] \in Tracked \cup {"done"}

\* Everything TypeOK says but for the bounds of the counters.
Shape ==
  /\ server \in {"new", "up", "refused"}
  /\ listening \in BOOLEAN /\ serving \in BOOLEAN
  /\ cancelled \in BOOLEAN /\ runErr \in BOOLEAN
  /\ open \subseteq Conns /\ active \subseteq Conns
  /\ pc \in [Handlers -> Places]
  /\ closer \in [Closers -> CloserPlaces]
  /\ snap \in [Closers -> SUBSET Conns]
  /\ tunnelled \subseteq Handlers

\* Handlers whose target connection is open, and counted as active; handlers
\* past their dial.
Dialled == { h \in Handlers : Target(h) \in open }
Counted == { h \in Handlers : Target(h) \in open /\ pc[h] # "count" }
Past == { h \in Handlers : pc[h] \notin {"idle", "dial"} }

Counting ==
  /\ totalConns \in Nat /\ activeConns = Cardinality(Counted)
  /\ Cardinality(Dialled) <= totalConns
  /\ totalConns <= Cardinality(Past)

\* The connections of handler h, and how far Stop is with those it found.
Ends(h) == {Client(h), Target(h)}

Stopping ==
  /\ closer["stopper"] # "off" => server = "up"
  /\ closer["stopper"] \in {"transport", "conns", "wait", "returned"} => ~listening
  /\ closer["stopper"] = "returned" => ~serving
  /\ \A h \in tunnelled :
       /\ pc[h] \in {"tunnel", "close", "close2", "untrack", "untrack2", "done"}
       /\ closer["stopper"] = "snapshot" => Ends(h) \cap open \subseteq active
       /\ closer["stopper"] \in {"http", "transport", "conns"}
            => Ends(h) \cap open \subseteq snap["stopper"]
       /\ closer["stopper"] \in {"wait", "returned"} => Ends(h) \cap open = {}

IInv == Shape /\ Settled /\ Counting /\ Stopping
-----------------------------------------------------------------------------
LEMMA ConnFacts ==
  /\ \A h \in Handlers :
       /\ Client(h) \in Conns /\ Target(h) \in Conns
       /\ Client(h)[2] # "target" /\ Target(h)[2] = "target"
  /\ \A h, k \in Handlers :
       /\ Client(h) # Target(k)
       /\ Client(h) = Client(k) => h = k
       /\ Target(h) = Target(k) => h = k
  /\ \A c \in Conns : \E h \in Handlers : c = Client(h) \/ c = Target(h)
BY DEF Conns, Client, Target

\* What closeResources and the goroutines of Start do, apart from closing
\* connections, leaves the handlers where they are.
LEMMA ShapeStep ==
  ASSUME Shape, [Next]_vars
  PROVE  Shape'
<1> USE DEF Shape, Places, CloserPlaces, Closers, life
<1>1. ASSUME Start \/ StartFails PROVE Shape'
  BY <1>1 DEF Start, StartFails
<1>2. ASSUME ServeReturns PROVE Shape'
  <2>1. runErr' \in BOOLEAN
    BY <1>2, Zenon DEF ServeReturns
  <2>2. QED
    BY <1>2, <2>1 DEF ServeReturns
<1>3. ASSUME NEW a \in Closers, NEW place \in CloserPlaces, CloserGoto(a, place)
      PROVE  closer' \in [Closers -> CloserPlaces]
  BY <1>3 DEF CloserGoto
<1>4. ASSUME Stop \/ StopReturns \/ Watch PROVE Shape'
  <2>1. closer' \in [Closers -> CloserPlaces]
    BY <1>3, <1>4 DEF Stop, StopReturns, Watch
  <2>2. QED
    BY <1>4, <2>1 DEF Stop, StopReturns, Watch
<1>5. ASSUME NEW a \in Closers, CloseResources(a) \/ CloseIdle(a) PROVE Shape'
  <2>1. closer' \in [Closers -> CloserPlaces]
    BY <1>3, <1>5 DEF CloseResources, CloseIdle, CloseTransport, Snapshot, CloseHTTP,
                      CloseSnapped, Closed
  <2>2. snap' \in [Closers -> SUBSET Conns]
    BY <1>5 DEF CloseResources, CloseIdle, CloseTransport, Snapshot, CloseHTTP,
                CloseSnapped, Closed
  <2>3. QED
    BY <1>5, <2>1, <2>2
       DEF CloseResources, CloseIdle, CloseTransport, Snapshot, CloseHTTP,
           CloseSnapped, Closed, Close
<1>6. ASSUME NEW h \in Handlers, Accept(h) \/ TunnelEnds(h) \/ Handle(h) PROVE Shape'
  BY <1>6, ConnFacts
     DEF Accept, TunnelEnds, Handle, DialFails, DialWorks, CountActive,
         Hijack, Reply, Abort, Track, CloseDeferred, Untrack, Goto, Close
<1>7. CASE UNCHANGED vars
  BY <1>7 DEF vars
<1>8. QED
  BY <1>1, <1>2, <1>4, <1>5, <1>6, <1>7 DEF Next

\* Each handler's connections stay as its place says: nobody else opens or
\* tracks them, and what closeResources copied has been tracked.
LEMMA SettledStep ==
  ASSUME Shape, Shape', Settled, [Next]_vars
  PROVE  Settled'
<1> USE ConnFacts DEF Settled, Shape, Untracked, Tracked, BothTracked, Closers, life
<1>1. ASSUME Start \/ StartFails \/ ServeReturns \/ Watch \/ Stop \/ StopReturns
      PROVE  Settled'
  BY <1>1 DEF Start, StartFails, ServeReturns, Watch, Stop, StopReturns
<1>2. ASSUME NEW a \in Closers, Snapshot(a) PROVE Settled'
  BY <1>2 DEF Snapshot, Places
<1>3. ASSUME NEW a \in Closers, CloseHTTP(a) PROVE Settled'
  BY <1>3 DEF CloseHTTP, Unhijacked, Hijacked
<1>4. ASSUME NEW a \in Closers, CloseSnapped(a) PROVE Settled'
  BY <1>4 DEF CloseSnapped, Close
<1>5. ASSUME NEW a \in Closers, Closed(a) \/ CloseIdle(a) PROVE Settled'
  BY <1>5 DEF Closed, CloseIdle, CloseTransport
<1>6. ASSUME NEW h \in Handlers, Accept(h) PROVE Settled'
  BY <1>6 DEF Accept, Goto
<1>7. ASSUME NEW h \in Handlers, DialFails(h) \/ TunnelEnds(h) PROVE Settled'
  BY <1>7 DEF DialFails, TunnelEnds, Goto
<1>8. ASSUME NEW h \in Handlers, DialWorks(h) \/ CountActive(h) PROVE Settled'
  BY <1>8 DEF DialWorks, CountActive, Goto
<1>9. ASSUME NEW h \in Handlers, Hijack(h) \/ Reply(h) PROVE Settled'
  BY <1>9 DEF Hijack, Reply, Goto
<1>10. ASSUME NEW h \in Handlers, Abort(h) \/ CloseDeferred(h) PROVE Settled'
  BY <1>10 DEF Abort, CloseDeferred, Goto, Close
<1>11. ASSUME NEW h \in Handlers, Track(h) \/ Untrack(h) PROVE Settled'
  BY <1>11 DEF Track, Untrack, Goto
<1>12. CASE UNCHANGED vars
  BY <1>12 DEF vars
<1>13. QED
  BY <1>1, <1>2, <1>3, <1>4, <1>5, <1>6, <1>7, <1>8, <1>9, <1>10, <1>11, <1>12
     DEF Next, CloseResources, Handle

-----------------------------------------------------------------------------
\* Sets of handlers are finite.
LEMMA Cards ==
  ASSUME NEW S \in SUBSET Handlers
  PROVE  /\ Cardinality(S) \in Nat
         /\ \A T \in SUBSET S : Cardinality(T) <= Cardinality(S)
         /\ \A h \in Handlers \ S : Cardinality(S \cup {h}) = Cardinality(S) + 1
         /\ \A h \in S : Cardinality(S \ {h}) = Cardinality(S) - 1
<1>1. IsFiniteSet(S) /\ IsFiniteSet(Handlers)
  BY ServerAssumption, FS_Subset DEF ServerAssumption
<1>2. Cardinality(S) \in Nat
  BY <1>1, FS_CardinalityType
<1>3. ASSUME NEW T \in SUBSET S PROVE Cardinality(T) <= Cardinality(S)
  BY <1>1, FS_Subset
<1>4. ASSUME NEW h \in Handlers \ S PROVE Cardinality(S \cup {h}) = Cardinality(S) + 1
  BY <1>1, FS_AddElement
<1>5. ASSUME NEW h \in S PROVE Cardinality(S \ {h}) = Cardinality(S) - 1
  BY <1>1, FS_RemoveElement
<1>6. QED
  BY <1>2, <1>3, <1>4, <1>5

\* A step that opens and counts nothing may let handlers get past their dial.
LEMMA CountsKept ==
  ASSUME Counting, UNCHANGED stats, Counted' = Counted, Dialled' \subseteq Dialled,
         Past \subseteq Past'
  PROVE  Counting'
<1>1. Dialled \in SUBSET Handlers /\ Past' \in SUBSET Handlers /\ Past \in SUBSET Handlers
  BY DEF Dialled, Past
<1>2. Cardinality(Dialled') <= Cardinality(Dialled) /\ Cardinality(Past) <= Cardinality(Past')
  BY <1>1, Cards
<1>3. /\ Cardinality(Dialled') \in Nat /\ Cardinality(Dialled) \in Nat
      /\ Cardinality(Past) \in Nat /\ Cardinality(Past') \in Nat
  BY <1>1, Cards DEF Dialled
<1>4. QED
  BY <1>2, <1>3 DEF Counting, stats

\* Closing a connection counts down once.
LEMMA CloseCounts ==
  ASSUME Shape, Counting, NEW c \in Conns, Close(c), totalConns' = totalConns,
         \A h \in Handlers : c = Target(h) => pc[h] # "count",
         \A h \in Handlers : pc'[h] = "count" <=> pc[h] = "count",
         Past \subseteq Past'
  PROVE  Counting'
<1>1. CASE \E h \in Handlers : c = Target(h) /\ c \in open
  <2>1. PICK h \in Handlers : c = Target(h) /\ c \in open
    BY <1>1
  <2>2. activeConns' = activeConns - 1 /\ open' = open \ {c}
    BY <2>1, ConnFacts DEF Close
  <2>3. h \in Counted /\ Counted' = Counted \ {h}
    BY <2>1, <2>2, ConnFacts DEF Counted
  <2>4. Dialled' \subseteq Dialled
    BY <2>2 DEF Dialled
  <2>5. /\ Counted \in SUBSET Handlers /\ Dialled \in SUBSET Handlers
        /\ Dialled' \in SUBSET Handlers
        /\ Past \in SUBSET Handlers /\ Past' \in SUBSET Handlers
    BY DEF Counted, Dialled, Past
  <2>6. /\ Cardinality(Counted') = Cardinality(Counted) - 1
        /\ Cardinality(Dialled') <= Cardinality(Dialled)
        /\ Cardinality(Past) <= Cardinality(Past')
    BY <2>3, <2>4, <2>5, Cards
  <2>7. /\ Cardinality(Counted) \in Nat /\ Cardinality(Dialled) \in Nat
        /\ Cardinality(Dialled') \in Nat
        /\ Cardinality(Past) \in Nat /\ Cardinality(Past') \in Nat
    BY <2>5, Cards
  <2>8. QED
    BY <2>2, <2>6, <2>7 DEF Counting
<1>2. CASE ~\E h \in Handlers : c = Target(h) /\ c \in open
  <2>1. activeConns' = activeConns /\ open' = open \ {c}
    BY <1>2, ConnFacts DEF Close
  <2>2. Counted' = Counted /\ Dialled' = Dialled
    BY <1>2, <2>1 DEF Counted, Dialled
  <2>3. QED
    BY <2>1, <2>2, CountsKept DEF stats
<1>3. QED
  BY <1>1, <1>2

\* A connection is counted once it is open, by its handler alone, and counted
\* down when it is closed first; what closeResources closes has been counted.
LEMMA CountingStep ==
  ASSUME Shape, Settled, Counting, [Next]_vars
  PROVE  Counting'
<1> USE DEF Closers
<1>1. ASSUME UNCHANGED <<pc, open, stats>> PROVE Counting'
  BY <1>1 DEF Counting, Counted, Dialled, Past, stats
<1>2. ASSUME Start \/ StartFails \/ ServeReturns \/ Watch \/ Stop \/ StopReturns
      PROVE  Counting'
  BY <1>1, <1>2 DEF Start, StartFails, ServeReturns, Watch, Stop, StopReturns
<1>3. ASSUME NEW a \in Closers, Snapshot(a) \/ Closed(a) \/ CloseIdle(a) PROVE Counting'
  BY <1>1, <1>3 DEF Snapshot, Closed, CloseIdle
<1>4. ASSUME NEW a \in Closers, CloseHTTP(a) PROVE Counting'
  <2>1. \A h \in Handlers : Target(h) \in open' <=> Target(h) \in open
    BY <1>4, ConnFacts DEF CloseHTTP, Unhijacked
  <2>2. Counted' = Counted /\ Dialled' = Dialled /\ Past' = Past /\ UNCHANGED stats
    BY <1>4, <2>1 DEF CloseHTTP, Counted, Dialled, Past
  <2>3. QED
    BY <2>2, CountsKept
<1>5. ASSUME NEW a \in Closers, CloseSnapped(a) PROVE Counting'
  <2>1. PICK c \in snap[a] : Close(c)
    BY <1>5 DEF CloseSnapped
  <2>2. c \in Conns
    BY <2>1 DEF Shape
  <2>3. \A h \in Handlers : c = Target(h) => pc[h] # "count"
    BY <2>1 DEF Settled, Tracked
  <2>4. UNCHANGED pc /\ totalConns' = totalConns
    BY <1>5 DEF CloseSnapped
  <2>5. Past' = Past
    BY <2>4 DEF Past
  <2>6. QED
    BY <2>1, <2>2, <2>3, <2>4, <2>5, CloseCounts
<1>6. ASSUME NEW h \in Handlers, Abort(h) \/ CloseDeferred(h) PROVE Counting'
  <2>1. PICK c \in Ends(h) : Close(c)
    BY <1>6 DEF Abort, CloseDeferred, Ends
  <2>2. c \in Conns /\ \A k \in Handlers : c = Target(k) => pc[k] # "count"
    BY <1>6, <2>1, ConnFacts DEF Abort, CloseDeferred, Ends
  <2>3. /\ totalConns' = totalConns
        /\ \A k \in Handlers : /\ pc'[k] = "count" <=> pc[k] = "count"
                               /\ pc'[k] \in {"idle", "dial"} => pc[k] \in {"idle", "dial"}
    BY <1>6 DEF Abort, CloseDeferred, Goto, Shape
  <2>4. Past \subseteq Past'
    BY <2>3 DEF Past
  <2>5. QED
    BY <2>1, <2>2, <2>3, <2>4, CloseCounts
<1>7. ASSUME NEW h \in Handlers,
             Accept(h) \/ DialFails(h) \/ TunnelEnds(h) \/ Reply(h) \/ Track(h) \/ Untrack(h)
      PROVE  Counting'
  <2>1. /\ UNCHANGED stats
        /\ \A k \in Handlers :
             /\ Target(k) \in open' <=> Target(k) \in open
             /\ pc'[k] = "count" <=> pc[k] = "count"
             /\ pc'[k] \in {"idle", "dial"} => pc[k] \in {"idle", "dial"}
    BY <1>7, ConnFacts
       DEF Accept, DialFails, TunnelEnds, Reply, Track, Untrack, Goto, Shape
  <2>2. Counted' = Counted /\ Dialled' = Dialled /\ Past \subseteq Past'
    BY <2>1 DEF Counted, Dialled, Past
  <2>3. QED
    BY <2>1, <2>2, CountsKept
<1>8. ASSUME NEW h \in Handlers, DialWorks(h) PROVE Counting'
  <2>1. Target(h) \notin open /\ h \notin Past
    BY <1>8 DEF DialWorks, Settled, Past
  <2>2. /\ Counted' = Counted /\ Dialled' = Dialled \cup {h} /\ Past' = Past \cup {h}
        /\ h \notin Dialled
    BY <1>8, <2>1, ConnFacts DEF DialWorks, Goto, Shape, Counted, Dialled, Past
  <2>3. totalConns' = totalConns + 1 /\ activeConns' = activeConns
    BY <1>8 DEF DialWorks
  <2>4. Dialled \in SUBSET Handlers /\ Past \in SUBSET Handlers
    BY DEF Dialled, Past
  <2>5. /\ Cardinality(Dialled') = Cardinality(Dialled) + 1
        /\ Cardinality(Past') = Cardinality(Past) + 1
        /\ Cardinality(Dialled) \in Nat /\ Cardinality(Past) \in Nat
    BY <2>1, <2>2, <2>4, Cards
  <2>6. QED
    BY <2>2, <2>3, <2>5 DEF Counting
<1>9. ASSUME NEW h \in Handlers, CountActive(h) PROVE Counting'
  <2>1. h \notin Counted /\ Counted' = Counted \cup {h} /\ Dialled' = Dialled /\ Past' = Past
    BY <1>9, ConnFacts DEF CountActive, Settled, Shape, Goto, Counted, Dialled, Past
  <2>2. Counted \in SUBSET Handlers
    BY DEF Counted
  <2>3. Cardinality(Counted') = Cardinality(Counted) + 1
    BY <2>1, <2>2, Cards
  <2>4. activeConns' = activeConns + 1 /\ totalConns' = totalConns
    BY <1>9 DEF CountActive
  <2>5. QED
    BY <2>1, <2>3, <2>4 DEF Counting
<1>10. ASSUME NEW h \in Handlers, Hijack(h) PROVE Counting'
  <2>1. /\ totalConns' = totalConns
        /\ \A k \in Handlers : /\ pc'[k] = "count" <=> pc[k] = "count"
                               /\ pc'[k] \in {"idle", "dial"} => pc[k] \in {"idle", "dial"}
    BY <1>10 DEF Hijack, Goto, Shape
  <2>2. Past \subseteq Past'
    BY <2>1 DEF Past
  <2>3. CASE UNCHANGED <<open, activeConns>>
    <3>1. Counted' = Counted /\ Dialled' = Dialled /\ UNCHANGED stats
      BY <2>1, <2>3 DEF Counted, Dialled, stats
    <3>2. QED
      BY <2>2, <3>1, CountsKept
  <2>4. CASE open' = open \ {Client(h), Target(h)} /\ activeConns' = activeConns - 1
    <3>1. h \in Counted /\ Counted' = Counted \ {h} /\ Dialled' \subseteq Dialled
      BY <1>10, <2>1, <2>4, ConnFacts DEF Hijack, Settled, Counted, Dialled
    <3>2. /\ Counted \in SUBSET Handlers /\ Dialled \in SUBSET Handlers
          /\ Dialled' \in SUBSET Handlers /\ Past \in SUBSET Handlers
          /\ Past' \in SUBSET Handlers
      BY DEF Counted, Dialled, Past
    <3>3. /\ Cardinality(Counted') = Cardinality(Counted) - 1
          /\ Cardinality(Dialled') <= Cardinality(Dialled)
          /\ Cardinality(Past) <= Cardinality(Past')
      BY <2>2, <3>1, <3>2, Cards
    <3>4. /\ Cardinality(Counted) \in Nat /\ Cardinality(Dialled) \in Nat
          /\ Cardinality(Dialled') \in Nat
          /\ Cardinality(Past) \in Nat /\ Cardinality(Past') \in Nat
      BY <3>2, Cards
    <3>5. QED
      BY <2>1, <2>4, <3>3, <3>4 DEF Counting
  <2>5. QED
    BY <1>10, <2>3, <2>4 DEF Hijack
<1>11. CASE UNCHANGED vars
  BY <1>1, <1>11 DEF vars, stats
<1>12. QED
  BY <1>2, <1>3, <1>4, <1>5, <1>6, <1>7, <1>8, <1>9, <1>10, <1>11
     DEF Next, CloseResources, Handle

\* Stop starts from the tunnels that run, copies them, and closes the copies.
LEMMA StoppingStep ==
  ASSUME Shape, Settled, Stopping, [Next]_vars
  PROVE  Stopping'
<1> USE ConnFacts DEF Stopping, Shape, Settled, Closers, life, Ends, BothTracked
<1>1. ASSUME Start \/ StartFails \/ ServeReturns \/ Watch \/ StopReturns PROVE Stopping'
  BY <1>1 DEF Start, StartFails, ServeReturns, Watch, StopReturns, CloserGoto
<1>2. ASSUME Stop PROVE Stopping'
  BY <1>2 DEF Stop, CloserGoto
<1>3. ASSUME NEW a \in Closers, Snapshot(a) \/ Closed(a) \/ CloseIdle(a) PROVE Stopping'
  BY <1>3 DEF Snapshot, Closed, CloseIdle, CloseTransport, CloserGoto
<1>4. ASSUME NEW a \in Closers, CloseHTTP(a) PROVE Stopping'
  BY <1>4 DEF CloseHTTP, CloserGoto
<1>5. ASSUME NEW a \in Closers, CloseSnapped(a) PROVE Stopping'
  BY <1>5 DEF CloseSnapped, Close
<1>6. ASSUME NEW h \in Handlers, Accept(h) \/ DialFails(h) \/ DialWorks(h) PROVE Stopping'
  BY <1>6 DEF Accept, DialFails, DialWorks, Goto
<1>7. ASSUME NEW h \in Handlers,
             TunnelEnds(h) \/ CountActive(h) \/ Hijack(h) \/ Reply(h) \/ Abort(h)
      PROVE  Stopping'
  BY <1>7 DEF TunnelEnds, CountActive, Hijack, Reply, Abort, Goto, Close
<1>8. ASSUME NEW h \in Handlers, CloseDeferred(h) PROVE Stopping'
  BY <1>8 DEF CloseDeferred, Goto, Close
<1>9. ASSUME NEW h \in Handlers, Track(h) \/ Untrack(h) PROVE Stopping'
  BY <1>9 DEF Track, Untrack, Goto
<1>10. CASE UNCHANGED vars
  BY <1>10 DEF vars
<1>11. QED
  BY <1>1, <1>2, <1>3, <1>4, <1>5, <1>6, <1>7, <1>8, <1>9, <1>10
     DEF Next, CloseResources, Handle

-----------------------------------------------------------------------------
LEMMA InitialState == Init => IInv
<1>1. SUFFICES ASSUME Init PROVE IInv
  OBVIOUS
<1>2. Shape
  BY <1>1 DEF Init, Shape, Places, CloserPlaces
<1>3. Settled
  BY <1>1 DEF Init, Settled, Untracked, Tracked, BothTracked
<1>4. Counting
  <2>1. Counted = {} /\ Dialled = {} /\ Past = {}
    BY <1>1 DEF Init, Counted, Dialled, Past
  <2>2. QED
    BY <1>1, <2>1, FS_EmptySet DEF Init, Counting
<1>5. Stopping
  BY <1>1 DEF Init, Stopping, Closers
<1>6. QED
  BY <1>2, <1>3, <1>4, <1>5 DEF IInv

\* What the invariant says of any state, whatever steps lead there: the proofs
\* of Forwarding use it too.
LEMMA InvariantTyped == IInv => TypeOK
<1>1. SUFFICES ASSUME IInv PROVE TypeOK
  OBVIOUS
<1>2. /\ Cardinality(Counted) <= Cardinality(Handlers)
      /\ Cardinality(Past) <= Cardinality(Handlers)
      /\ Cardinality(Counted) \in Nat /\ Cardinality(Past) \in Nat
      /\ Cardinality(Handlers) \in Nat
  BY Cards DEF Counted, Past
<1>3. /\ totalConns \in 0..Cardinality(Handlers)
      /\ activeConns \in 0..Cardinality(Handlers)
  BY <1>1, <1>2 DEF IInv, Counting
<1>4. QED
  BY <1>1, <1>3 DEF IInv, Shape, TypeOK

LEMMA InvariantExact == IInv => ActiveIsExact
<1>1. SUFFICES ASSUME IInv PROVE ActiveIsExact
  OBVIOUS
<1>2. Counted \in SUBSET Dialled /\ Dialled \in SUBSET Handlers
  BY DEF Counted, Dialled
<1>3. /\ Cardinality(Counted) <= Cardinality(Dialled)
      /\ Cardinality(Counted) \in Nat /\ Cardinality(Dialled) \in Nat
  BY <1>2, Cards
<1>4. QED
  BY <1>1, <1>3 DEF IInv, Counting, ActiveIsExact, Counted

LEMMA InvariantLeakFree == IInv => NothingLeaks
BY DEF IInv, Settled, Untracked, NothingLeaks

LEMMA InvariantCloses == IInv => StopCloses
BY DEF IInv, Stopping, Ends, StopCloses, Stopped

THEOREM Invariance == Spec => []IInv
<1>1. IInv /\ [Next]_vars => IInv'
  BY ShapeStep, SettledStep, CountingStep, StoppingStep DEF IInv
<1>2. QED
  BY InitialState, <1>1, PTL DEF Spec

\* Every variable has its type, and each handler is counted once.
THEOREM Typing == Spec => []TypeOK
BY Invariance, InvariantTyped, PTL

\* The counters are right whoever closes the connections, and how often.
THEOREM ExactCounters == Spec => []ActiveIsExact
BY Invariance, InvariantExact, PTL

\* A handler that has ended leaves no connection open or tracked.
THEOREM NoLeak == Spec => []NothingLeaks
BY Invariance, InvariantLeakFree, PTL

\* When Stop returns, the tunnels it found running are closed at both ends.
THEOREM TunnelsFoundClosed == Spec => []StopCloses
BY Invariance, InvariantCloses, PTL

-----------------------------------------------------------------------------
(***************************************************************************)
(* closeResources ends: what it has left to do is bounded when it starts,  *)
(* and handlers that track connections meanwhile add nothing to it.        *)
(***************************************************************************)
ClosingLeft(a) ==
  CASE closer[a] = "snapshot" -> 4 + Cardinality(Conns)
    [] closer[a] = "http" -> 3 + Cardinality(snap[a])
    [] closer[a] = "transport" -> 2 + Cardinality(snap[a])
    [] closer[a] = "conns" -> 1 + Cardinality(snap[a])
    [] OTHER -> 0

ClosingNearer(a) ==
  /\ CloseResources(a) \/ CloseTransport(a) => ClosingLeft(a)' < ClosingLeft(a)
  /\ ClosingLeft(a)' > ClosingLeft(a) => closer[a] = "off"

LEMMA ConnsFinite ==
  /\ IsFiniteSet(Conns) /\ Cardinality(Conns) \in Nat
  /\ \A S \in SUBSET Conns :
       /\ IsFiniteSet(S) /\ Cardinality(S) \in Nat
       /\ Cardinality(S) <= Cardinality(Conns)
<1>1. IsFiniteSet({"client", "target"})
  <2>1. IsFiniteSet({"client"} \cup {"target"})
    BY FS_Singleton, FS_AddElement
  <2>2. {"client"} \cup {"target"} = {"client", "target"}
    OBVIOUS
  <2>3. QED
    BY <2>1, <2>2
<1>2. IsFiniteSet(Conns)
  BY <1>1, ServerAssumption, FS_Product DEF ServerAssumption, Conns
<1>3. QED
  BY <1>2, FS_Subset, FS_CardinalityType

\* Each step of closeResources brings its own run nearer to its end.
LEMMA ClosingAdvances ==
  ASSUME Shape, NEW a \in Closers,
         CloseResources(a) \/ (CloseTransport(a) /\ snap' = snap)
  PROVE  ClosingLeft(a)' < ClosingLeft(a)
<1>1. closer \in [Closers -> CloserPlaces] /\ snap \in [Closers -> SUBSET Conns]
  BY DEF Shape
<1>2. IsFiniteSet(snap[a]) /\ Cardinality(snap[a]) \in Nat
  BY <1>1, ConnsFinite
<1>3. CASE Snapshot(a)
  <2>1. closer[a] = "snapshot" /\ closer'[a] = "http" /\ snap'[a] = active
    BY <1>1, <1>3 DEF Snapshot, CloserGoto
  <2>2. ClosingLeft(a) = 4 + Cardinality(Conns) /\ ClosingLeft(a)' = 3 + Cardinality(active)
    BY <2>1 DEF ClosingLeft
  <2>3. active \in SUBSET Conns
    BY DEF Shape
  <2>4. QED
    BY <2>2, <2>3, ConnsFinite
<1>4. CASE CloseHTTP(a) \/ (CloseTransport(a) /\ snap' = snap)
  <2>1. /\ \/ closer[a] = "http" /\ closer'[a] = "transport"
           \/ closer[a] = "transport" /\ closer'[a] = "conns"
        /\ snap'[a] = snap[a]
    BY <1>1, <1>4 DEF CloseHTTP, CloseTransport, CloserGoto
  <2>2. QED
    BY <2>1, <1>2 DEF ClosingLeft
<1>5. CASE CloseSnapped(a)
  <2>1. PICK c \in snap[a] : snap' = [snap EXCEPT ![a] = @ \ {c}]
    BY <1>5 DEF CloseSnapped
  <2>2. closer[a] = "conns" /\ closer'[a] = "conns" /\ snap'[a] = snap[a] \ {c}
    BY <1>1, <1>5, <2>1 DEF CloseSnapped
  <2>3. Cardinality(snap[a] \ {c}) = Cardinality(snap[a]) - 1
    BY <2>1, <1>2, FS_RemoveElement
  <2>4. ClosingLeft(a) = 1 + Cardinality(snap[a]) /\ ClosingLeft(a)' = Cardinality(snap[a])
    BY <2>2, <2>3, <1>2 DEF ClosingLeft
  <2>5. QED
    BY <2>4, <1>2
<1>6. CASE Closed(a)
  <2>1. closer[a] = "conns" /\ closer'[a] \in {"wait", "returned"}
    BY <1>1, <1>6 DEF Closed, CloserGoto
  <2>2. ClosingLeft(a) = 1 + Cardinality(snap[a]) /\ ClosingLeft(a)' = 0
    BY <2>1 DEF ClosingLeft
  <2>3. QED
    BY <2>2, <1>2
<1>7. QED
  BY <1>3, <1>4, <1>5, <1>6 DEF CloseResources

\* Steps of the others leave a run of closeResources where it is.
LEMMA ClosingStays ==
  ASSUME Shape, NEW a \in Closers, snap'[a] = snap[a],
         \/ closer'[a] = closer[a]
         \/ closer[a] = "off"
         \/ closer[a] = "wait" /\ closer'[a] = "returned"
  PROVE  ClosingNearer(a)
<1>1. /\ closer \in [Closers -> CloserPlaces] /\ snap \in [Closers -> SUBSET Conns]
      /\ Cardinality(snap[a]) \in Nat
  BY ConnsFinite DEF Shape
<1>2. ~CloseResources(a) /\ ~CloseTransport(a)
  BY <1>1 DEF CloseResources, Snapshot, CloseHTTP, CloseSnapped, Closed, CloseTransport,
              CloserGoto
<1>3. ClosingLeft(a) \in Nat /\ (closer'[a] = closer[a] => ClosingLeft(a)' = ClosingLeft(a))
  BY <1>1, ConnsFinite DEF ClosingLeft
<1>4. closer[a] = "wait" /\ closer'[a] = "returned" => ClosingLeft(a)' = 0 /\ ClosingLeft(a) = 0
  BY DEF ClosingLeft
<1>5. QED
  BY <1>2, <1>3, <1>4 DEF ClosingNearer

\* What the handlers do, and what the other run of closeResources does.
LEMMA ClosingOthers ==
  ASSUME Shape, NEW a \in Closers, [Next]_vars
  PROVE  \/ CloseResources(a) \/ CloseIdle(a)
         \/ /\ snap'[a] = snap[a]
            /\ \/ closer'[a] = closer[a]
               \/ closer[a] = "off"
               \/ closer[a] = "wait" /\ closer'[a] = "returned"
<1>1. closer \in [Closers -> CloserPlaces] /\ snap \in [Closers -> SUBSET Conns]
  BY DEF Shape
<1>2. ASSUME NEW b \in Closers, b # a, CloseResources(b) \/ CloseIdle(b)
      PROVE  snap'[a] = snap[a] /\ closer'[a] = closer[a]
  BY <1>1, <1>2 DEF CloseResources, Snapshot, CloseHTTP, CloseSnapped, Closed, CloseIdle,
                    CloseTransport, CloserGoto
<1>3. CASE Watch \/ Stop \/ StopReturns
  BY <1>1, <1>3 DEF Watch, Stop, StopReturns, CloserGoto
<1>4. CASE Start \/ StartFails \/ ServeReturns \/ UNCHANGED vars
  BY <1>4 DEF Start, StartFails, ServeReturns, vars
<1>5. ASSUME NEW h \in Handlers, Accept(h) \/ Handle(h) \/ TunnelEnds(h)
      PROVE  UNCHANGED <<closer, snap>>
  BY <1>5 DEF Accept, TunnelEnds, Handle, DialFails, DialWorks, CountActive, Hijack, Reply,
              Abort, Track, CloseDeferred, Untrack
<1>6. QED
  BY <1>2, <1>3, <1>4, <1>5 DEF Next

LEMMA ClosingStep ==
  ASSUME Shape, NEW a \in Closers, [Next]_vars
  PROVE  ClosingNearer(a)
<1>1. CASE CloseResources(a) \/ CloseIdle(a)
  <2>1. ClosingLeft(a)' < ClosingLeft(a)
    BY <1>1, ClosingAdvances DEF CloseIdle
  <2>2. ClosingLeft(a) \in Nat /\ ClosingLeft(a)' \in Nat
    BY ShapeStep, ConnsFinite DEF Shape, ClosingLeft
  <2>3. QED
    BY <2>1, <2>2 DEF ClosingNearer
<1>2. QED
  BY <1>1, ClosingOthers, ClosingStays

\* Each run of closeResources takes at most 4 steps and one for each connection
\* there can be, whatever the handlers track or close in the meantime.
THEOREM ClosingEnds == Spec => [][\A a \in Closers : ClosingNearer(a)]_vars
<1>1. IInv /\ [Next]_vars => \A a \in Closers : ClosingNearer(a)
  BY ClosingStep DEF IInv
<1>2. QED
  BY <1>1, Invariance, PTL DEF Spec
=============================================================================
