------------------------------ MODULE Balancer ------------------------------
(***************************************************************************)
(* internal/balancer: the two strategies that order the interfaces for one *)
(* outbound connection.  Candidates runs under the strategy's mutex and    *)
(* looks at one interface after the other; the health flag of each is      *)
(* guarded by a lock of its own, so flags change between two looks.        *)
(*                                                                         *)
(* Interfaces are numbered from 0 in the order of the list the user        *)
(* selected them from: the strategies get them in that order.              *)
(***************************************************************************)
EXTENDS Naturals, Sequences

CONSTANTS
  N,           \* number of interfaces of the session
  Callers,     \* goroutines that dial
  NoCaller     \* the mutex is free

ASSUME BalancerAssumption ==
  /\ N \in Nat \ {0}     \* Session.Start refuses an empty selection
  /\ NoCaller \notin Callers

VARIABLES
  roundRobin,  \* the strategy of the session: RoundRobin, or else Failover
  alive,    \* NetInterface.Alive of each interface
  index,    \* RoundRobin.index
  holder,   \* the goroutine inside Candidates, holding mu
  pos,      \* interfaces it has looked at
  live,     \* those seen alive, and those seen down, in the order of looking
  down,
  \* History of RoundRobin, read by no guard of the program.
  wait,     \* calls since the interface was last first, or last seen down
  due       \* due[i]: interfaces seen alive by every call since i was last
            \* first, and not first themselves since

scan == <<holder, pos, live, down>>
turns == <<wait, due>>
balancerVars == <<roundRobin, alive, index, holder, pos, live, down, wait, due>>

Ifaces == 0 .. N - 1

BalancerTypeOK ==
  /\ roundRobin \in BOOLEAN
  /\ alive \in [Ifaces -> BOOLEAN]
  /\ index \in Ifaces
  /\ holder \in Callers \cup {NoCaller}
  /\ pos \in 0..N
  /\ live \in Seq(Ifaces) /\ down \in Seq(Ifaces)
  /\ wait \in [Ifaces -> Nat]
  /\ due \in [Ifaces -> SUBSET Ifaces]

BalancerInit ==
  /\ roundRobin \in BOOLEAN
  /\ alive \in [Ifaces -> BOOLEAN]
  /\ index = 0
  /\ holder = NoCaller
  /\ pos = 0
  /\ live = <<>> /\ down = <<>>
  /\ wait = [i \in Ifaces |-> 0]
  /\ due = [i \in Ifaces |-> {}]

-----------------------------------------------------------------------------
\* The interface looked at k-th: Failover starts at the primary.
Visit(k) == IF roundRobin THEN (index + k) % N ELSE k

Enter(c) ==
  /\ holder = NoCaller
  /\ holder' = c
  /\ pos' = 0 /\ live' = <<>> /\ down' = <<>>
  /\ UNCHANGED <<roundRobin, alive, index, turns>>

Look ==
  /\ holder # NoCaller
  /\ pos < N
  /\ pos' = pos + 1
  /\ IF alive[Visit(pos)]
     THEN live' = Append(live, Visit(pos)) /\ UNCHANGED down
     ELSE down' = Append(down, Visit(pos)) /\ UNCHANGED live
  /\ UNCHANGED <<roundRobin, alive, index, holder, turns>>

\* Faulty variant: interfaces seen down are dropped while any other is left.
ResultLiveOnly == IF live # <<>> THEN live ELSE down

\* What Candidates returns: interfaces seen down are the last resort.
Result == live \o down

SeenDown == { down[k] : k \in 1..Len(down) }
First == Head(Result)

\* Faulty variants: always on by one from the old index; on to the chosen
\* interface instead of behind it.
AdvanceByOne == IF ~roundRobin THEN index ELSE (index + 1) % N

AdvanceToChosen ==
  IF ~roundRobin THEN index
  ELSE IF live # <<>> THEN Head(live) ELSE (index + 1) % N

\* RoundRobin moves on behind the first live interface, or by one.
Advance ==
  IF ~roundRobin THEN index
  ELSE IF live # <<>> THEN (Head(live) + 1) % N ELSE (index + 1) % N

Leave(c) ==
  /\ holder = c /\ pos = N
  /\ holder' = NoCaller
  /\ index' = Advance
  /\ wait' = [i \in Ifaces |->
                IF ~roundRobin \/ i \in SeenDown \/ i = First
                THEN 0 ELSE wait[i] + 1]
  /\ due' = [i \in Ifaces |->
               IF ~roundRobin THEN {}
               ELSE IF i = First THEN Ifaces \ (SeenDown \cup {i})
               ELSE due[i] \ (SeenDown \cup {First})]
  /\ UNCHANGED <<roundRobin, alive, pos, live, down>>

\* NetInterface.SetAlive
SetAlive(i, b) == alive' = [alive EXCEPT ![i] = b]

Flip == /\ \E i \in Ifaces : SetAlive(i, ~alive[i])
        /\ UNCHANGED <<roundRobin, index, scan, turns>>

BalancerNext ==
  \/ \E c \in Callers : Enter(c) \/ Leave(c)
  \/ Look
  \/ Flip

BalancerSpec == BalancerInit /\ [][BalancerNext]_balancerVars
-----------------------------------------------------------------------------
\* roundrobin.go: connections go "across interfaces in a cyclic manner".  An
\* interface that no call sees down is first at least once in any N calls in
\* a row, however the health of the others changes during the calls.
TurnComes == \A i \in Ifaces : wait[i] < N

\* The share is even: an interface is not first again before every other that
\* was seen alive ever since has been first too.
EvenTurns ==
  [][ \A i \in Ifaces :
        holder # NoCaller /\ holder' = NoCaller /\ First = i /\ live # <<>>
          => due[i] \ SeenDown = {} ]_balancerVars

\* architecture.md: failover "prefers the highest-priority healthy interface"
\* and one marked down stays a last resort.  By either strategy every interface
\* is a candidate exactly once, wherever round robin starts and whatever flag
\* changes during the call; and in failover only one seen down comes behind a
\* lower-priority one.
PriorityKept ==
  holder # NoCaller /\ pos = N =>
    /\ Len(Result) = N
    /\ { Result[k] : k \in 1..N } = Ifaces
    /\ ~roundRobin =>
         \A j, k \in 1..N :
           j < k /\ Result[j] >= Result[k]
             => Result[k] \in SeenDown /\ Result[j] \notin SeenDown
=============================================================================
