------------------------------- MODULE Dialing -------------------------------
(***************************************************************************)
(* Outbound connections and interface health: Server.dialWithBalancer of   *)
(* internal/proxy, which tries the candidates of the balancer in turn, and *)
(* the monitor of internal/netif, which probes all interfaces at once and  *)
(* again after each interval.  They meet in the health flags: the balancer *)
(* reads them, a finished probe sets them, a successful dial raises them.  *)
(*                                                                         *)
(* Time is counted in attempts that ran into their timeout: an attempt has *)
(* DialAttemptTimeout, all attempts of a dial together have DialTimeout.   *)
(***************************************************************************)
EXTENDS Balancer

CONSTANTS
  Budget,      \* DialTimeout / DialAttemptTimeout, 15s / 5s by default
  Blocked,     \* interfaces that carry traffic but reach no probe address
  MaxOutages,  \* bound on the changes of the links
  Stoppable    \* may the session stop during the run?

ASSUME DialingAssumption ==
  /\ Budget \in Nat \ {0}
  /\ Blocked \subseteq Ifaces
  /\ MaxOutages \in Nat
  /\ Stoppable \in BOOLEAN

VARIABLES
  link,       \* does traffic pass through the interface?
  outages,    \* changes of the links so far
  stopped,    \* the session's context is cancelled
  probe,      \* the health check of each interface
  pc,         \* where each dial is
  cand,       \* candidates it has not tried yet, the current one included
  spent,      \* attempts of it that ran into their timeout
  cancelled   \* its request is over: the client is gone

dials == <<pc, cand, spent, cancelled>>
world == <<link, outages, stopped>>
vars == <<balancerVars, link, outages, stopped, probe, pc, cand, spent, cancelled>>

Places == {"new", "queued", "choose", "attempt", "mark", "connected", "failed"}

TypeOK ==
  /\ BalancerTypeOK
  /\ link \in [Ifaces -> BOOLEAN]
  /\ outages \in 0..MaxOutages
  /\ stopped \in BOOLEAN
  /\ probe \in [Ifaces -> {"idle", "sent", "good", "bad"}]
  /\ pc \in [Callers -> Places]
  /\ cand \in [Callers -> Seq(Ifaces)]
  /\ spent \in [Callers -> 0..Budget]
  /\ cancelled \in [Callers -> BOOLEAN]

Init ==
  /\ BalancerInit
  /\ link \in [Ifaces -> BOOLEAN]
  /\ alive = [i \in Ifaces |-> TRUE]     \* as Discover leaves them
  /\ outages = 0
  /\ stopped = FALSE
  /\ probe = [i \in Ifaces |-> "idle"]
  /\ pc = [c \in Callers |-> "new"]
  /\ cand = [c \in Callers |-> <<>>]
  /\ spent = [c \in Callers |-> 0]
  /\ cancelled = [c \in Callers |-> FALSE]

Goto(c, place) == pc' = [pc EXCEPT ![c] = place]

-----------------------------------------------------------------------------
(***************************************************************************)
(* dialWithBalancer                                                        *)
(***************************************************************************)
Call(c) ==
  /\ pc[c] = "new"
  /\ Goto(c, "queued")
  /\ UNCHANGED <<balancerVars, world, probe, cand, spent, cancelled>>

\* s.bal.Candidates(): wait for the mutex, look at the flags, return.
Ask(c) ==
  /\ pc[c] = "queued"
  /\ Enter(c)
  /\ UNCHANGED <<world, probe, dials>>

LookOnce == Look /\ UNCHANGED <<world, probe, dials>>

Receive(c) ==
  /\ Leave(c)
  /\ cand' = [cand EXCEPT ![c] = Result]
  /\ Goto(c, "choose")
  /\ UNCHANGED <<world, probe, spent, cancelled>>

\* Faulty variant: the time of the whole dial is one attempt too short.
ExpiredEarly(c) == cancelled[c] \/ spent[c] + 1 >= Budget

\* dialCtx.Err() # nil
Expired(c) == cancelled[c] \/ spent[c] = Budget

\* The loop ends with the candidates or with the time.
Choose(c) ==
  /\ pc[c] = "choose"
  /\ Goto(c, IF cand[c] = <<>> \/ Expired(c) THEN "failed" ELSE "attempt")
  /\ UNCHANGED <<balancerVars, world, probe, cand, spent, cancelled>>

Connect(c) ==
  /\ pc[c] = "attempt"
  /\ ~cancelled[c] /\ link[Head(cand[c])]
  /\ Goto(c, "mark")
  /\ UNCHANGED <<balancerVars, world, probe, cand, spent, cancelled>>

\* Faulty variant: IPv4 and IPv6 are tried in turn, each with the timeout.
AttemptFailsTwice(c) ==
  /\ pc[c] = "attempt"
  /\ \/ UNCHANGED spent
     \/ ~cancelled[c] /\ \E n \in {1, 2} : spent' = [spent EXCEPT ![c] = @ + n]
  /\ cand' = [cand EXCEPT ![c] = Tail(@)]
  /\ Goto(c, "choose")
  /\ UNCHANGED <<balancerVars, world, probe, cancelled>>

\* Refused, unreachable or cancelled at once, or silent until the timeout.
AttemptFails(c) ==
  /\ pc[c] = "attempt"
  /\ \/ UNCHANGED spent
     \/ ~cancelled[c] /\ spent' = [spent EXCEPT ![c] = @ + 1]
  /\ cand' = [cand EXCEPT ![c] = Tail(@)]
  /\ Goto(c, "choose")
  /\ UNCHANGED <<balancerVars, world, probe, cancelled>>

\* iface.SetAlive(true), whatever happened to the link since.
Mark(c) ==
  /\ pc[c] = "mark"
  /\ SetAlive(Head(cand[c]), TRUE)
  /\ Goto(c, "connected")
  /\ UNCHANGED <<roundRobin, index, scan, turns, world, probe, cand, spent, cancelled>>

\* The client goes away, or the server it was calling stops.
Cancel(c) ==
  /\ pc[c] \notin {"new", "connected", "failed"} /\ ~cancelled[c]
  /\ cancelled' = [cancelled EXCEPT ![c] = TRUE]
  /\ UNCHANGED <<balancerVars, world, probe, pc, cand, spent>>

-----------------------------------------------------------------------------
(***************************************************************************)
(* netif.Monitor                                                           *)
(***************************************************************************)

\* checkAll: all interfaces at once, when the last round is complete.  The
\* select may prefer the ticker to a context that is cancelled already.
Round ==
  /\ \A i \in Ifaces : probe[i] = "idle"
  /\ probe' = [i \in Ifaces |-> "sent"]
  /\ UNCHANGED <<balancerVars, world, dials>>

\* CheckHealthContext: cancellation makes a probe come back negative.
Answer(i) ==
  /\ probe[i] = "sent"
  /\ \/ link[i] /\ i \notin Blocked /\ probe' = [probe EXCEPT ![i] = "good"]
     \/ /\ ~link[i] \/ i \in Blocked \/ stopped
        /\ probe' = [probe EXCEPT ![i] = "bad"]
  /\ UNCHANGED <<balancerVars, world, dials>>

\* Faulty variant: a negative answer is not written to the flag.
PublishGood(i) ==
  /\ probe[i] \in {"good", "bad"}
  /\ SetAlive(i, alive[i] \/ probe[i] = "good")
  /\ probe' = [probe EXCEPT ![i] = "idle"]
  /\ UNCHANGED <<roundRobin, index, scan, turns, world, dials>>

\* The flag is set some time after the answer.
Publish(i) ==
  /\ probe[i] \in {"good", "bad"}
  /\ SetAlive(i, probe[i] = "good")
  /\ probe' = [probe EXCEPT ![i] = "idle"]
  /\ UNCHANGED <<roundRobin, index, scan, turns, world, dials>>

-----------------------------------------------------------------------------
\* The environment: a link goes down or comes back; the session stops.
LinkChange ==
  /\ outages < MaxOutages
  /\ outages' = outages + 1
  /\ \E i \in Ifaces : link' = [link EXCEPT ![i] = ~@]
  /\ UNCHANGED <<balancerVars, stopped, probe, dials>>

StopSession ==
  /\ Stoppable /\ ~stopped
  /\ stopped' = TRUE
  /\ UNCHANGED <<balancerVars, link, outages, probe, dials>>

Dial(c) ==
  \/ Ask(c) \/ Receive(c) \/ Choose(c)
  \/ Connect(c) \/ AttemptFails(c) \/ Mark(c)

Monitor == Round \/ \E i \in Ifaces : Answer(i) \/ Publish(i)

Next ==
  \/ \E c \in Callers : Call(c) \/ Dial(c) \/ Cancel(c)
  \/ LookOnce \/ Monitor
  \/ LinkChange \/ StopSession

\* The ticker keeps firing and the checks it starts come back; a dial runs on.
Fairness ==
  /\ WF_vars(~stopped /\ Round)
  /\ \A i \in Ifaces : WF_vars(Answer(i)) /\ WF_vars(Publish(i))
  /\ WF_vars(LookOnce)
  /\ \A c \in Callers : WF_vars(Dial(c))

Spec == Init /\ [][Next]_vars
FairSpec == Spec /\ Fairness
-----------------------------------------------------------------------------
\* architecture.md: interfaces marked down "remain last-resort candidates,
\* preventing a blocked health endpoint from causing a false total outage".
\* A dial that nobody cancelled has tried every interface before it fails.
NoFalseOutage ==
  \A c \in Callers :
    pc[c] = "failed" /\ ~cancelled[c] => cand[c] = <<>>

\* failover.go: "Automatically returns to primary when it recovers".  Once the
\* links are stable the flags become, and stay, what the probes find, although
\* answers and successful dials from before may still be on their way.
HealthConverges ==
  \A i \in Ifaces \ Blocked :
    <>stopped \/ <>[](alive[i] = link[i])
=============================================================================
