--------------------------- MODULE BalancerProofs ---------------------------
(***************************************************************************)
(* What the strategies promise, for any number of interfaces and callers.  *)
(*                                                                         *)
(* The measure is Ahead(i), how many interfaces round robin looks at       *)
(* before i.  A call that passes i over has moved index towards it, so     *)
(* the calls i has waited and the interfaces ahead of it are together      *)
(* fewer than N; and those that are due before i's next turn are ahead     *)
(* of it.                                                                  *)
(***************************************************************************)
EXTENDS Balancer, TLAPS

Ahead(i) == IF index <= i THEN i - index ELSE i + N - index

\* What a call in progress knows of the interfaces it has looked at.
Scanned ==
  holder # NoCaller =>
    /\ Len(live) + Len(down) = pos
    /\ live # <<>> =>
         \E j \in 0 .. pos - 1 :
           Head(live) = Visit(j) /\ \A k \in 0 .. j - 1 : Visit(k) \in SeenDown
    /\ live = <<>> => \A k \in 0 .. pos - 1 : Visit(k) \in SeenDown
    /\ live = <<>> /\ pos > 0 => Head(down) = Visit(0)

\* No interface it has looked at is left out.
SeenLive == { live[k] : k \in 1..Len(live) }

NoneLost ==
  holder # NoCaller => \A k \in 0 .. pos - 1 : Visit(k) \in SeenLive \cup SeenDown

\* Failover looks in order, and sees each interface once.
Ascending(s) == \A j, k \in 1..Len(s) : j < k => s[j] < s[k]

InOrder ==
  holder # NoCaller /\ ~roundRobin =>
    /\ Ascending(live) /\ Ascending(down)
    /\ \A k \in 1..Len(live) : live[k] < pos /\ live[k] \notin SeenDown
    /\ \A k \in 1..Len(down) : down[k] < pos

Turns ==
  \A i \in Ifaces :
    /\ roundRobin => wait[i] + Ahead(i) <= N - 1 /\ \A j \in due[i] : Ahead(j) < Ahead(i)
    /\ ~roundRobin => wait[i] = 0 /\ due[i] = {}

IInv == BalancerTypeOK /\ Scanned /\ NoneLost /\ InOrder /\ Turns
-----------------------------------------------------------------------------
USE BalancerAssumption
USE DEF BalancerAssumption, Ifaces

\* The remainder of a sum of two positions.
LEMMA Wrap ==
  ASSUME NEW a \in Nat, a < 2 * N
  PROVE  a % N = IF a < N THEN a ELSE a - N
BY SMTT(30)

\* Round robin looks at i when it has looked at those ahead of it.
LEMMA VisitAhead ==
  ASSUME index \in Ifaces, roundRobin, NEW i \in Ifaces
  PROVE  Ahead(i) \in 0 .. N - 1 /\ Visit(Ahead(i)) = i
<1>1. Ahead(i) \in 0 .. N - 1
  BY DEF Ahead
<1>2. index + Ahead(i) \in Nat /\ index + Ahead(i) < 2 * N
  BY <1>1
<1>3. (index + Ahead(i)) % N = i
  BY <1>2, Wrap DEF Ahead
<1>4. QED
  BY <1>1, <1>3 DEF Visit

\* Each look is at another interface.
LEMMA AheadVisit ==
  ASSUME index \in Ifaces, roundRobin, NEW k \in 0 .. N - 1
  PROVE  Visit(k) \in Ifaces /\ Ahead(Visit(k)) = k
<1>1. index + k \in Nat /\ index + k < 2 * N
  OBVIOUS
<1>2. (index + k) % N = IF index + k < N THEN index + k ELSE index + k - N
  BY <1>1, Wrap
<1>3. QED
  BY <1>2 DEF Visit, Ahead

\* So is every interface looked at.
LEMMA VisitType ==
  ASSUME index \in Ifaces, NEW k \in 0 .. N - 1
  PROVE  Visit(k) \in Ifaces
BY AheadVisit DEF Visit

\* The outcome of a call, once it has looked at all interfaces.
LEMMA Chosen ==
  ASSUME BalancerTypeOK, Scanned, holder # NoCaller, pos = N
  PROVE  /\ First \in Ifaces
         /\ live = <<>> =>
              First = Visit(0) /\ \A k \in 0 .. N - 1 : Visit(k) \in SeenDown
         /\ live # <<>> => First = Head(live)
<1> USE DEF BalancerTypeOK
<1>1. CASE live = <<>>
  <2>1. Result = down /\ down # <<>> /\ Head(down) = Visit(0)
    BY <1>1 DEF Scanned, Result
  <2>2. \A k \in 0 .. N - 1 : Visit(k) \in SeenDown
    BY <1>1 DEF Scanned
  <2>3. Visit(0) \in Ifaces
    BY VisitType
  <2>4. QED
    BY <1>1, <2>1, <2>2, <2>3 DEF First
<1>2. CASE live # <<>>
  <2>1. Head(live) = live[1] /\ (live \o down)[1] = live[1] /\ live[1] \in Ifaces
    BY <1>2
  <2>2. Result # <<>>
    BY <1>2 DEF Result
  <2>3. QED
    BY <1>2, <2>1, <2>2 DEF First, Result
<1>3. QED
  BY <1>1, <1>2

\* The interface chosen is ahead of every other that was seen alive.
LEMMA ChosenFirst ==
  ASSUME BalancerTypeOK, Scanned, holder # NoCaller, pos = N, roundRobin,
         NEW i \in Ifaces \ SeenDown
  PROVE  live # <<>> /\ (i # First => Ahead(First) < Ahead(i))
<1> USE DEF BalancerTypeOK
<1>1. Ahead(i) \in 0 .. N - 1 /\ Visit(Ahead(i)) = i
  BY VisitAhead
<1>2. live # <<>> /\ First = Head(live)
  BY <1>1, Chosen
<1>3. PICK j \in 0 .. N - 1 :
        Head(live) = Visit(j) /\ \A k \in 0 .. j - 1 : Visit(k) \in SeenDown
  BY <1>2 DEF Scanned
<1>4. j <= Ahead(i)
  BY <1>1, <1>3
<1>5. Ahead(First) = j
  BY <1>2, <1>3, AheadVisit
<1>6. i # First => j # Ahead(i)
  BY <1>1, <1>2, <1>3
<1>7. QED
  BY <1>1, <1>2, <1>4, <1>5, <1>6

\* Behind the chosen interface, it has all others ahead of it, and those that
\* were behind it have come nearer.
LEMMA Shift ==
  ASSUME BalancerTypeOK, NEW f \in Ifaces, index' = (f + 1) % N, NEW i \in Ifaces
  PROVE  /\ Ahead(i)' \in 0 .. N - 1
         /\ i = f => Ahead(i)' = N - 1
         /\ i # f => Ahead(i)' < N - 1
         /\ Ahead(f) < Ahead(i) => Ahead(i)' = Ahead(i) - Ahead(f) - 1
<1> index \in Ifaces
  BY DEF BalancerTypeOK
<1>1. f + 1 \in Nat /\ f + 1 < 2 * N
  OBVIOUS
<1>2. (f + 1) % N = IF f + 1 < N THEN f + 1 ELSE f + 1 - N
  BY <1>1, Wrap
<1>3. CASE f + 1 < N
  <2>1. index' = f + 1
    BY <1>2, <1>3
  <2>2. QED
    BY <1>3, <2>1 DEF Ahead
<1>4. CASE ~(f + 1 < N)
  <2>1. index' = 0 /\ f = N - 1
    BY <1>2, <1>4
  <2>2. QED
    BY <2>1 DEF Ahead
<1>5. QED
  BY <1>3, <1>4

\* RoundRobin moves on behind the interface it chose.
LEMMA Advanced ==
  ASSUME BalancerTypeOK, Scanned, holder # NoCaller, pos = N, roundRobin
  PROVE  Advance = (First + 1) % N
<1>1. CASE live = <<>>
  <2>1. Visit(0) = index
    <3>1. index + 0 \in Nat /\ index + 0 < 2 * N /\ index + 0 < N /\ index + 0 = index
      BY DEF BalancerTypeOK
    <3>2. QED
      BY <3>1, Wrap DEF Visit
  <2>2. QED
    BY <1>1, <2>1, Chosen DEF Advance
<1>2. CASE live # <<>>
  BY <1>2, Chosen DEF Advance
<1>3. QED
  BY <1>1, <1>2

\* A call that returns keeps the turns: this is where the share is decided.
LEMMA LeaveTurns ==
  ASSUME BalancerTypeOK, Scanned, Turns, NEW c \in Callers, Leave(c)
  PROVE  Turns'
<1>1. /\ holder # NoCaller /\ pos = N /\ roundRobin' = roundRobin
      /\ index' = Advance
      /\ SeenDown' = SeenDown
  BY DEF Leave, SeenDown
<1>2. CASE ~roundRobin
  BY <1>1, <1>2 DEF Leave, Turns
<1>3. CASE roundRobin
  <2>1. SUFFICES ASSUME NEW i \in Ifaces
                 PROVE  /\ wait'[i] + Ahead(i)' <= N - 1
                        /\ \A j \in due'[i] : Ahead(j)' < Ahead(i)'
    BY <1>1, <1>3 DEF Turns
  <2>2. First \in Ifaces /\ index' = (First + 1) % N
    BY <1>1, <1>3, Chosen, Advanced
  <2>3. Ahead(i)' \in 0 .. N - 1
    BY <2>2, Shift
  <2>4. wait[i] \in Nat /\ wait[i] + Ahead(i) <= N - 1 /\ Ahead(i) \in 0 .. N - 1
    BY <1>3, VisitAhead DEF Turns, BalancerTypeOK
  <2>5. wait'[i] + Ahead(i)' <= N - 1
    <3>1. CASE i \in SeenDown \/ i = First
      <4>1. wait'[i] = 0
        BY <1>3, <3>1 DEF Leave
      <4>2. QED
        BY <2>3, <4>1
    <3>2. CASE ~(i \in SeenDown \/ i = First)
      <4>1. wait'[i] = wait[i] + 1
        BY <1>3, <3>2 DEF Leave
      <4>2. Ahead(First) < Ahead(i) /\ Ahead(First) \in 0 .. N - 1
        BY <1>1, <1>3, <2>2, <3>2, ChosenFirst, VisitAhead DEF BalancerTypeOK
      <4>3. Ahead(i)' = Ahead(i) - Ahead(First) - 1
        BY <2>2, <4>2, Shift
      <4>4. QED
        BY <2>4, <4>1, <4>2, <4>3
    <3>3. QED
      BY <3>1, <3>2
  <2>6. ASSUME NEW j \in due'[i] PROVE Ahead(j)' < Ahead(i)'
    <3>1. CASE i = First
      <4>1. j \in Ifaces /\ j # First
        BY <1>3, <2>6, <3>1 DEF Leave
      <4>2. QED
        BY <2>2, <3>1, <4>1, Shift
    <3>2. CASE i # First
      <4>1. j \in due[i] /\ j \in Ifaces \ SeenDown /\ j # First
        BY <1>3, <2>6, <3>2 DEF Leave, BalancerTypeOK
      <4>2. Ahead(j) < Ahead(i)
        BY <1>3, <4>1 DEF Turns
      <4>3. Ahead(First) < Ahead(j)
        BY <1>1, <1>3, <4>1, ChosenFirst
      <4>4. /\ Ahead(j) \in 0 .. N - 1 /\ Ahead(i) \in 0 .. N - 1
            /\ Ahead(First) \in 0 .. N - 1
        BY <1>3, <2>2, <4>1, VisitAhead DEF BalancerTypeOK
      <4>5. /\ Ahead(j)' = Ahead(j) - Ahead(First) - 1
            /\ Ahead(i)' = Ahead(i) - Ahead(First) - 1
        BY <2>2, <4>1, <4>2, <4>3, <4>4, Shift
      <4>6. QED
        BY <4>2, <4>4, <4>5
    <3>3. QED
      BY <3>1, <3>2
  <2>7. QED
    BY <2>5, <2>6
<1>4. QED
  BY <1>2, <1>3

-----------------------------------------------------------------------------
\* The next start is an interface.
LEMMA AdvanceType ==
  ASSUME BalancerTypeOK
  PROVE  Advance \in Ifaces
<1>1. \A a \in Nat : a % N \in Ifaces
  OBVIOUS
<1>2. index + 1 \in Nat
  BY DEF BalancerTypeOK
<1>3. live # <<>> => Head(live) + 1 \in Nat
  BY DEF BalancerTypeOK
<1>4. index \in Ifaces
  BY DEF BalancerTypeOK
<1>5. QED
  BY <1>1, <1>2, <1>3, <1>4 DEF Advance

\* What appending does to a list of interfaces.
LEMMA AppendType ==
  ASSUME NEW s \in Seq(Ifaces), NEW v \in Ifaces
  PROVE  /\ Append(s, v) \in Seq(Ifaces)
         /\ Len(Append(s, v)) = Len(s) + 1 /\ Len(s) \in Nat
         /\ Append(s, v) # <<>>
         /\ \A k \in 1 .. Len(s) + 1 : Append(s, v)[k] = IF k <= Len(s) THEN s[k] ELSE v
         /\ Head(Append(s, v)) = IF s = <<>> THEN v ELSE Head(s)
<1>1. Append(s, v) \in Seq(Ifaces) /\ Len(Append(s, v)) = Len(s) + 1 /\ Len(s) \in Nat
  OBVIOUS
<1>2. \A k \in 1 .. Len(s) + 1 : Append(s, v)[k] = IF k <= Len(s) THEN s[k] ELSE v
  OBVIOUS
<1>3. Append(s, v) # <<>>
  BY <1>1
<1>4. Head(Append(s, v)) = Append(s, v)[1]
  BY <1>1, <1>3
<1>5. s # <<>> => Head(s) = s[1] /\ Len(s) >= 1
  OBVIOUS
<1>6. s = <<>> => Len(s) = 0
  OBVIOUS
<1>7. QED
  BY <1>1, <1>2, <1>3, <1>4, <1>5, <1>6

\* Every step keeps the types.
LEMMA TypeStep ==
  ASSUME BalancerTypeOK, [BalancerNext]_balancerVars
  PROVE  BalancerTypeOK'
<1>1. ASSUME NEW c \in Callers, Enter(c) PROVE BalancerTypeOK'
  BY <1>1 DEF BalancerTypeOK, Enter, turns
<1>2. ASSUME NEW c \in Callers, Leave(c) PROVE BalancerTypeOK'
  <2>1. index' \in Ifaces
    BY <1>2, AdvanceType DEF Leave
  <2>2. wait' \in [Ifaces -> Nat]
    BY <1>2 DEF BalancerTypeOK, Leave
  <2>3. due' \in [Ifaces -> SUBSET Ifaces]
    BY <1>2 DEF BalancerTypeOK, Leave
  <2>4. QED
    BY <1>2, <2>1, <2>2, <2>3 DEF BalancerTypeOK, Leave
<1>3. ASSUME Look PROVE BalancerTypeOK'
  <2>1. index \in Ifaces /\ pos \in 0 .. N - 1 /\ pos' = pos + 1
    BY <1>3 DEF BalancerTypeOK, Look
  <2>2. Visit(pos) \in Ifaces
    BY <2>1, VisitType
  <2>3. live \in Seq(Ifaces) /\ down \in Seq(Ifaces)
    BY DEF BalancerTypeOK
  <2>4. live' \in Seq(Ifaces) /\ down' \in Seq(Ifaces)
    <3>1. /\ Append(live, Visit(pos)) \in Seq(Ifaces)
          /\ Append(down, Visit(pos)) \in Seq(Ifaces)
      BY <2>2, <2>3, AppendType
    <3>2. /\ live' = Append(live, Visit(pos)) \/ live' = live
          /\ down' = Append(down, Visit(pos)) \/ down' = down
      BY <1>3 DEF Look
    <3>3. QED
      BY <2>3, <3>1, <3>2
  <2>5. pos' \in 0 .. N
    BY <2>1
  <2>6. QED
    BY <1>3, <2>4, <2>5 DEF BalancerTypeOK, Look, turns
<1>4. ASSUME Flip PROVE BalancerTypeOK'
  BY <1>4 DEF BalancerTypeOK, Flip, SetAlive, scan, turns
<1>5. CASE UNCHANGED balancerVars
  BY <1>5 DEF BalancerTypeOK, balancerVars
<1>6. QED
  BY <1>1, <1>2, <1>3, <1>4, <1>5 DEF BalancerNext

\* One more look, at interface v.
LEMMA LookSeen ==
  ASSUME BalancerTypeOK, Look, NEW v, v = Visit(pos)
  PROVE  /\ v \in Ifaces
         /\ \/ live' = Append(live, v) /\ down' = down /\ SeenDown' = SeenDown
            \/ down' = Append(down, v) /\ live' = live /\ SeenDown' = SeenDown \cup {v}
<1>1. index \in Ifaces /\ pos \in 0 .. N - 1 /\ down \in Seq(Ifaces)
  BY DEF BalancerTypeOK, Look
<1>2. v \in Ifaces
  BY <1>1, VisitType
<1>3. \/ live' = Append(live, v) /\ down' = down
      \/ down' = Append(down, v) /\ live' = live
  BY DEF Look
<1>4. down' = down => SeenDown' = SeenDown
  BY DEF SeenDown
<1>5. ASSUME down' = Append(down, v) PROVE SeenDown' = SeenDown \cup {v}
  <2>1. SeenDown' = { Append(down, v)[k] : k \in 1 .. Len(down) + 1 }
    BY <1>1, <1>2, <1>5, AppendType DEF SeenDown
  <2>2. /\ Len(down) \in Nat
        /\ \A k \in 1 .. Len(down) : Append(down, v)[k] = down[k]
        /\ Append(down, v)[Len(down) + 1] = v
    BY <1>1, <1>2, AppendType
  <2>3. SeenDown' = { Append(down, v)[k] : k \in 1 .. Len(down) } \cup {v}
    BY <2>1, <2>2
  <2>4. { Append(down, v)[k] : k \in 1 .. Len(down) } = SeenDown
    BY <2>2 DEF SeenDown
  <2>5. QED
    BY <2>3, <2>4
<1>6. QED
  BY <1>2, <1>3, <1>4, <1>5

\* Every step keeps what a call knows.
LEMMA ScannedStep ==
  ASSUME BalancerTypeOK, Scanned, [BalancerNext]_balancerVars
  PROVE  Scanned'
<1>1. ASSUME NEW c \in Callers, Enter(c) PROVE Scanned'
  BY <1>1 DEF Enter, Scanned
<1>2. ASSUME NEW c \in Callers, Leave(c) PROVE Scanned'
  BY <1>2 DEF Leave, Scanned
<1>3. ASSUME UNCHANGED <<roundRobin, index, holder, pos, live, down>> PROVE Scanned'
  BY <1>3 DEF Scanned, SeenDown, Visit
<1>4. ASSUME Look PROVE Scanned'
  <2> DEFINE v == Visit(pos)
  <2>1. /\ holder # NoCaller /\ holder' = holder /\ pos' = pos + 1 /\ pos \in 0 .. N - 1
        /\ \A k : Visit(k)' = Visit(k)
    BY <1>4 DEF Look, BalancerTypeOK, Visit
  <2>0. /\ live \in Seq(Ifaces) /\ Len(live) \in Nat
        /\ down \in Seq(Ifaces) /\ Len(down) \in Nat /\ v \in Ifaces
        /\ Len(live) + Len(down) = pos
    <3>1. live \in Seq(Ifaces) /\ down \in Seq(Ifaces)
      BY DEF BalancerTypeOK
    <3>2. Len(live) \in Nat /\ Len(down) \in Nat
      BY <3>1
    <3>3. v \in Ifaces
      BY <1>4, LookSeen
    <3>4. Len(live) + Len(down) = pos
      BY <2>1 DEF Scanned
    <3>5. QED
      BY <3>1, <3>2, <3>3, <3>4
  <2>2. CASE live' = Append(live, v) /\ down' = down /\ SeenDown' = SeenDown
    <3>1. /\ live' # <<>> /\ Len(live') = Len(live) + 1
          /\ Head(live') = IF live = <<>> THEN v ELSE Head(live)
      BY <2>0, <2>2, AppendType
    <3>2. Len(live') + Len(down') = pos'
      BY <2>0, <2>1, <2>2, <3>1
    <3>3. \E j \in 0 .. pos :
            Head(live') = Visit(j) /\ \A k \in 0 .. j - 1 : Visit(k) \in SeenDown
      <4>1. CASE live = <<>>
        BY <2>1, <2>2, <3>1, <4>1 DEF Scanned
      <4>2. CASE live # <<>>
        BY <2>1, <2>2, <3>1, <4>2 DEF Scanned
      <4>3. QED
        BY <4>1, <4>2
    <3>4. QED
      BY <2>1, <2>2, <3>1, <3>2, <3>3 DEF Scanned
  <2>3. CASE down' = Append(down, v) /\ live' = live /\ SeenDown' = SeenDown \cup {v}
    <3>1. /\ down' # <<>> /\ Len(down') = Len(down) + 1
          /\ Head(down') = IF down = <<>> THEN v ELSE Head(down)
      BY <2>0, <2>3, AppendType
    <3>2. Len(live') + Len(down') = pos'
      BY <2>0, <2>1, <2>3, <3>1
    <3>3. ASSUME live # <<>>
          PROVE  \E j \in 0 .. pos :
                   Head(live) = Visit(j) /\ \A k \in 0 .. j - 1 : Visit(k) \in SeenDown'
      BY <2>1, <2>3, <3>3 DEF Scanned
    <3>4. ASSUME live = <<>>
          PROVE  Head(down') = Visit(0) /\ \A k \in 0 .. pos : Visit(k) \in SeenDown'
      <4>1. \A k \in 0 .. pos - 1 : Visit(k) \in SeenDown
        BY <2>1, <3>4 DEF Scanned
      <4>2. \A k \in 0 .. pos : Visit(k) \in SeenDown'
        BY <2>1, <2>3, <4>1
      <4>3. Head(down') = Visit(0)
        <5>1. CASE down = <<>>
          BY <2>0, <2>1, <3>1, <3>4, <5>1
        <5>2. CASE down # <<>>
          <6>1. pos > 0
            BY <2>0, <2>1, <5>2
          <6>2. QED
            BY <2>1, <3>1, <3>4, <5>2, <6>1 DEF Scanned
        <5>3. QED
          BY <5>1, <5>2
      <4>4. QED
        BY <4>2, <4>3
    <3>5. QED
      BY <2>1, <2>3, <3>2, <3>3, <3>4 DEF Scanned
  <2>4. QED
    BY <1>4, <2>2, <2>3, LookSeen
<1>5. QED
  BY <1>1, <1>2, <1>3, <1>4 DEF BalancerNext, Flip, scan, balancerVars

\* An interface looked at stays in the list it went to.
LEMMA NoneLostStep ==
  ASSUME BalancerTypeOK, NoneLost, [BalancerNext]_balancerVars
  PROVE  NoneLost'
<1>1. ASSUME NEW c \in Callers, Enter(c) PROVE NoneLost'
  BY <1>1 DEF Enter, NoneLost
<1>2. ASSUME NEW c \in Callers, Leave(c) PROVE NoneLost'
  BY <1>2 DEF Leave, NoneLost
<1>3. ASSUME UNCHANGED <<roundRobin, index, holder, pos, live, down>> PROVE NoneLost'
  BY <1>3 DEF NoneLost, SeenLive, SeenDown, Visit
<1>4. ASSUME Look PROVE NoneLost'
  <2> DEFINE v == Visit(pos)
  <2>1. /\ holder # NoCaller /\ holder' = holder /\ pos' = pos + 1 /\ pos \in 0 .. N - 1
        /\ \A k : Visit(k)' = Visit(k)
    BY <1>4 DEF Look, BalancerTypeOK, Visit
  <2>2. live \in Seq(Ifaces) /\ v \in Ifaces
    BY <1>4, LookSeen DEF BalancerTypeOK
  <2>3. SeenLive \cup SeenDown \cup {v} \subseteq (SeenLive \cup SeenDown)'
    <3>1. CASE live' = Append(live, v) /\ SeenDown' = SeenDown
      <4>1. /\ Len(live') = Len(live) + 1 /\ Len(live) \in Nat
            /\ \A k \in 1 .. Len(live) + 1 :
                 live'[k] = IF k <= Len(live) THEN live[k] ELSE v
        BY <2>2, <3>1, AppendType
      <4>2. SeenLive \cup {v} \subseteq SeenLive'
        BY <4>1 DEF SeenLive
      <4>3. QED
        BY <3>1, <4>2
    <3>2. CASE live' = live /\ SeenDown' = SeenDown \cup {v}
      BY <3>2 DEF SeenLive
    <3>3. QED
      BY <1>4, <3>1, <3>2, LookSeen
  <2>4. ASSUME NEW k \in 0 .. pos PROVE Visit(k) \in (SeenLive \cup SeenDown)'
    <3>1. CASE k = pos
      BY <2>3, <3>1
    <3>2. CASE k \in 0 .. pos - 1
      BY <2>1, <2>3, <3>2 DEF NoneLost
    <3>3. QED
      BY <2>1, <3>1, <3>2
  <2>5. QED
    BY <2>1, <2>4 DEF NoneLost
<1>5. QED
  BY <1>1, <1>2, <1>3, <1>4 DEF BalancerNext, Flip, scan, balancerVars

\* A list that ascends still does with a greater interface at its end.
LEMMA AppendAscending ==
  ASSUME NEW s \in Seq(Ifaces), NEW v \in Ifaces, Ascending(s),
         \A k \in 1 .. Len(s) : s[k] < v
  PROVE  /\ Ascending(Append(s, v))
         /\ \A k \in 1 .. Len(Append(s, v)) : Append(s, v)[k] <= v
<1>1. /\ Len(Append(s, v)) = Len(s) + 1 /\ Len(s) \in Nat
      /\ \A k \in 1 .. Len(s) + 1 : Append(s, v)[k] = IF k <= Len(s) THEN s[k] ELSE v
  BY AppendType
<1>2. \A k \in 1 .. Len(s) : s[k] \in Ifaces
  OBVIOUS
<1>3. \A k \in 1 .. Len(Append(s, v)) : Append(s, v)[k] <= v
  BY <1>1, <1>2
<1>4. ASSUME NEW j \in 1 .. Len(s) + 1, NEW k \in 1 .. Len(s) + 1, j < k
      PROVE  Append(s, v)[j] < Append(s, v)[k]
  <2>1. CASE k <= Len(s)
    BY <1>1, <1>4, <2>1 DEF Ascending
  <2>2. CASE k = Len(s) + 1
    BY <1>1, <1>4, <2>2
  <2>3. QED
    BY <1>1, <2>1, <2>2
<1>5. QED
  BY <1>1, <1>3, <1>4 DEF Ascending

\* Failover keeps the order of the list.
LEMMA InOrderStep ==
  ASSUME BalancerTypeOK, Scanned, InOrder, [BalancerNext]_balancerVars
  PROVE  InOrder'
<1>1. ASSUME NEW c \in Callers, Enter(c) PROVE InOrder'
  BY <1>1 DEF Enter, InOrder, Ascending
<1>2. ASSUME NEW c \in Callers, Leave(c) PROVE InOrder'
  BY <1>2 DEF Leave, InOrder
<1>3. ASSUME UNCHANGED <<roundRobin, index, holder, pos, live, down>> PROVE InOrder'
  BY <1>3 DEF InOrder, Ascending, SeenDown
<1>4. ASSUME Look, ~roundRobin PROVE InOrder'
  <2>1. /\ holder # NoCaller /\ holder' = holder /\ pos' = pos + 1 /\ pos \in 0 .. N - 1
        /\ Visit(pos) = pos /\ roundRobin' = roundRobin
    BY <1>4 DEF Look, BalancerTypeOK, Visit
  <2>2. live \in Seq(Ifaces) /\ down \in Seq(Ifaces) /\ pos \in Ifaces
    BY <2>1 DEF BalancerTypeOK
  <2>3. /\ Ascending(live) /\ Ascending(down)
        /\ \A k \in 1..Len(live) : live[k] < pos /\ live[k] \notin SeenDown
        /\ \A k \in 1..Len(down) : down[k] < pos
    BY <1>4, <2>1 DEF InOrder
  <2>4. /\ Ascending(Append(live, pos))
        /\ \A k \in 1..Len(Append(live, pos)) : Append(live, pos)[k] <= pos
    BY <2>2, <2>3, AppendAscending
  <2>5. /\ Ascending(Append(down, pos))
        /\ \A k \in 1..Len(Append(down, pos)) : Append(down, pos)[k] <= pos
    BY <2>2, <2>3, AppendAscending
  <2>6. CASE live' = Append(live, pos) /\ down' = down /\ SeenDown' = SeenDown
    <3>1. pos \notin SeenDown
      BY <2>1, <2>3 DEF SeenDown
    <3>2. \A k \in 1 .. Len(live') : live'[k] \in Ifaces /\ live'[k] <= pos /\ live'[k] \notin SeenDown
      BY <2>2, <2>3, <2>4, <2>6, <3>1, AppendType
    <3>3. \A k \in 1 .. Len(down') : down'[k] \in Ifaces /\ down'[k] <= pos
      BY <2>1, <2>2, <2>3, <2>6
    <3>4. QED
      BY <2>1, <2>3, <2>4, <2>6, <3>2, <3>3 DEF InOrder, Ascending
  <2>7. CASE down' = Append(down, pos) /\ live' = live /\ SeenDown' = SeenDown \cup {pos}
    <3>1. \A k \in 1 .. Len(live') : live'[k] \in Ifaces /\ live'[k] < pos /\ live'[k] \notin SeenDown'
      BY <2>1, <2>2, <2>3, <2>7
    <3>2. \A k \in 1 .. Len(down') : down'[k] \in Ifaces /\ down'[k] <= pos
      BY <2>2, <2>5, <2>7, AppendType
    <3>3. QED
      BY <2>1, <2>3, <2>5, <2>7, <3>1, <3>2 DEF InOrder, Ascending
  <2>8. QED
    BY <1>4, <2>1, <2>6, <2>7, LookSeen
<1>5. ASSUME Look, roundRobin PROVE InOrder'
  BY <1>5 DEF Look, InOrder
<1>6. QED
  BY <1>1, <1>2, <1>3, <1>4, <1>5 DEF BalancerNext, Flip, scan, balancerVars

-----------------------------------------------------------------------------
\* A session starts with the invariant.
LEMMA Start == BalancerInit => IInv
<1>1. ASSUME BalancerInit PROVE BalancerTypeOK
  BY <1>1 DEF BalancerInit, BalancerTypeOK
<1>2. ASSUME BalancerInit PROVE Scanned /\ NoneLost /\ InOrder
  BY <1>2 DEF BalancerInit, Scanned, NoneLost, InOrder
<1>3. ASSUME BalancerInit PROVE Turns
  <2>1. index = 0 /\ \A i \in Ifaces : wait[i] = 0 /\ due[i] = {}
    BY <1>3 DEF BalancerInit
  <2>2. \A i \in Ifaces : Ahead(i) = i
    BY <2>1 DEF Ahead
  <2>3. QED
    BY <2>1, <2>2 DEF Turns
<1>4. QED
  BY <1>1, <1>2, <1>3 DEF IInv

\* The invariant is inductive.  Turns is the part that needs Scanned: a call
\* chooses the first live interface of its order only because it has looked
\* at every interface ahead of it.
LEMMA Inductive ==
  ASSUME IInv, [BalancerNext]_balancerVars
  PROVE  IInv'
<1>1. BalancerTypeOK /\ Scanned /\ NoneLost /\ InOrder /\ Turns
  BY DEF IInv
<1>2. BalancerTypeOK' /\ Scanned' /\ NoneLost' /\ InOrder'
  BY <1>1, TypeStep, ScannedStep, NoneLostStep, InOrderStep
<1>3. ASSUME NEW c \in Callers, Leave(c) PROVE Turns'
  BY <1>1, <1>3, LeaveTurns
<1>4. ASSUME UNCHANGED <<roundRobin, index, turns>> PROVE Turns'
  BY <1>1, <1>4 DEF Turns, Ahead, turns
<1>5. Turns'
  BY <1>3, <1>4 DEF BalancerNext, Enter, Look, Flip, balancerVars, turns
<1>6. QED
  BY <1>2, <1>5 DEF IInv

\* What calls know and what turns are left holds in every state.
THEOREM Invariance == BalancerSpec => []IInv
BY Start, Inductive, PTL DEF BalancerSpec

\* The variables keep their types, index among the interfaces included: a
\* selection is never empty, so the remainder is always defined.
THEOREM Typing == BalancerSpec => []BalancerTypeOK
<1>1. IInv => BalancerTypeOK
  BY DEF IInv
<1>2. QED
  BY <1>1, Invariance, PTL

\* Round robin passes no live interface over N calls in a row, however many
\* interfaces there are and whatever their health does meanwhile: the calls
\* it has waited and the interfaces still ahead of it stay below N.
THEOREM Turn == BalancerSpec => []TurnComes
<1>1. IInv => TurnComes
  <2> SUFFICES ASSUME IInv, NEW i \in Ifaces PROVE wait[i] < N
    BY DEF TurnComes
  <2>1. index \in Ifaces /\ wait[i] \in Nat
    BY DEF IInv, BalancerTypeOK
  <2>2. CASE roundRobin
    BY <2>1, <2>2, VisitAhead DEF IInv, Turns
  <2>3. CASE ~roundRobin
    BY <2>3 DEF IInv, Turns
  <2>4. QED
    BY <2>2, <2>3 DEF IInv, BalancerTypeOK
<1>2. QED
  BY <1>1, Invariance, PTL

\* The share is even: those still due before i's next turn are ahead of i,
\* and the one chosen has no live interface ahead of it.
THEOREM Even == BalancerSpec => EvenTurns
<1>1. ASSUME IInv, NEW i \in Ifaces, BalancerNext,
             holder # NoCaller, holder' = NoCaller, First = i
      PROVE  due[i] \ SeenDown = {}
  <2>1. pos = N
    BY <1>1 DEF BalancerNext, Enter, Leave, Look, Flip, scan
  <2>2. BalancerTypeOK /\ Scanned /\ Turns
    BY <1>1 DEF IInv
  <2>3. CASE ~roundRobin
    BY <2>2, <2>3 DEF Turns
  <2>4. CASE roundRobin
    <3>1. SUFFICES ASSUME NEW j \in due[i], j \notin SeenDown PROVE FALSE
      OBVIOUS
    <3>2. j \in Ifaces \ SeenDown /\ index \in Ifaces
      BY <2>2, <3>1 DEF BalancerTypeOK
    <3>3. Ahead(j) < Ahead(i)
      BY <2>2, <2>4 DEF Turns
    <3>4. Ahead(i) \in 0 .. N - 1 /\ Ahead(j) \in 0 .. N - 1
      BY <2>4, <3>2, VisitAhead
    <3>5. j # First => Ahead(First) < Ahead(j)
      BY <1>1, <2>1, <2>2, <2>4, <3>2, ChosenFirst
    <3>6. QED
      BY <1>1, <3>3, <3>4, <3>5
  <2>5. QED
    BY <2>3, <2>4
<1>2. IInv /\ [BalancerNext]_balancerVars =>
        [ \A i \in Ifaces :
            holder # NoCaller /\ holder' = NoCaller /\ First = i /\ live # <<>>
              => due[i] \ SeenDown = {} ]_balancerVars
  BY <1>1
<1>3. QED
  BY <1>2, Invariance, PTL DEF BalancerSpec, EvenTurns

\* By either strategy each interface is looked at by the end of a call: round
\* robin comes to i at its Ahead(i)-th look.
LEMMA AllLooked ==
  ASSUME BalancerTypeOK, NoneLost, holder # NoCaller, pos = N
  PROVE  SeenLive \cup SeenDown = Ifaces
<1>1. SeenLive \cup SeenDown \subseteq Ifaces
  <2>1. live \in Seq(Ifaces) /\ down \in Seq(Ifaces)
    BY DEF BalancerTypeOK
  <2>2. \A k \in 1..Len(live) : live[k] \in Ifaces
    BY <2>1
  <2>3. \A k \in 1..Len(down) : down[k] \in Ifaces
    BY <2>1
  <2>4. QED
    BY <2>2, <2>3, Zenon DEF SeenLive, SeenDown
<1>2. ASSUME NEW i \in Ifaces PROVE \E k \in 0 .. N - 1 : Visit(k) = i
  <2>1. CASE roundRobin
    BY <2>1, VisitAhead DEF BalancerTypeOK
  <2>2. CASE ~roundRobin
    BY <2>2 DEF Visit
  <2>3. QED
    BY <2>1, <2>2
<1>3. QED
  BY <1>1, <1>2 DEF NoneLost

\* Candidates lists every interface once, and failover puts a lower-priority
\* one first only when the other was seen down: both lists ascend and only
\* the second holds interfaces seen down.
THEOREM Priority == BalancerSpec => []PriorityKept
<1>1. IInv => PriorityKept
  <2> SUFFICES ASSUME IInv, holder # NoCaller, pos = N PROVE
        /\ Len(Result) = N
        /\ { Result[k] : k \in 1..N } = Ifaces
        /\ ~roundRobin =>
             \A j, k \in 1..N :
               j < k /\ Result[j] >= Result[k]
                 => Result[k] \in SeenDown /\ Result[j] \notin SeenDown
    BY DEF PriorityKept
  <2>1. live \in Seq(Ifaces) /\ down \in Seq(Ifaces)
    BY DEF IInv, BalancerTypeOK
  <2>2. Len(live) + Len(down) = N /\ Len(live) \in Nat /\ Len(down) \in Nat
    BY <2>1 DEF IInv, Scanned
  <2>3. /\ Len(Result) = N
        /\ \A k \in 1 .. Len(live) : Result[k] = live[k]
        /\ \A k \in Len(live) + 1 .. N : Result[k] = down[k - Len(live)]
    BY <2>1, <2>2 DEF Result
  <2>4. ASSUME ~roundRobin, NEW j \in 1 .. N, NEW k \in 1 .. N,
               j < k, Result[j] >= Result[k]
        PROVE  Result[k] \in SeenDown /\ Result[j] \notin SeenDown
    <3>1. /\ Ascending(live) /\ Ascending(down)
          /\ \A m \in 1..Len(live) : live[m] \in Ifaces /\ live[m] \notin SeenDown
          /\ \A m \in 1..Len(down) : down[m] \in Ifaces /\ down[m] \in SeenDown
      <4>1. /\ \A m \in 1..Len(live) : live[m] \in Ifaces
            /\ \A m \in 1..Len(down) : down[m] \in Ifaces
        BY <2>1
      <4>2. \A m \in 1..Len(down) : down[m] \in SeenDown
        BY DEF SeenDown
      <4>3. /\ Ascending(live) /\ Ascending(down)
            /\ \A m \in 1..Len(live) : live[m] \notin SeenDown
        BY <2>4 DEF IInv, InOrder
      <4>4. QED
        BY <4>1, <4>2, <4>3
    <3>2. CASE k <= Len(live)
      <4>1. live[j] < live[k] /\ live[j] \in Ifaces /\ live[k] \in Ifaces
        BY <2>2, <2>4, <3>1, <3>2 DEF Ascending
      <4>2. QED
        BY <2>2, <2>3, <2>4, <3>2, <4>1
    <3>3. CASE j > Len(live)
      <4>1. j - Len(live) \in 1 .. Len(down) /\ k - Len(live) \in 1 .. Len(down)
        BY <2>2, <2>4, <3>3
      <4>2. /\ down[j - Len(live)] < down[k - Len(live)]
            /\ down[j - Len(live)] \in Ifaces /\ down[k - Len(live)] \in Ifaces
        BY <2>2, <2>4, <3>1, <4>1 DEF Ascending
      <4>3. QED
        <5>1. Result[j] = down[j - Len(live)] /\ Result[k] = down[k - Len(live)]
          <6>1. j \in Len(live) + 1 .. N /\ k \in Len(live) + 1 .. N
            BY <2>2, <2>4, <3>3
          <6>2. \A m \in Len(live) + 1 .. N : Result[m] = down[m - Len(live)]
            BY <2>3
          <6>3. QED
            BY <6>1, <6>2
        <5>2. QED
          BY <2>4, <4>2, <5>1
    <3>4. CASE j <= Len(live) /\ k > Len(live)
      <4>1. k - Len(live) \in 1 .. Len(down)
        BY <2>2, <3>4
      <4>2. QED
        BY <2>2, <2>3, <3>1, <3>4, <4>1
    <3>5. QED
      BY <2>2, <3>2, <3>3, <3>4
  <2>5. { Result[k] : k \in 1..N } = SeenLive \cup SeenDown
    <3>1. SeenLive \subseteq { Result[k] : k \in 1..N }
      BY <2>2, <2>3 DEF SeenLive
    <3>2. SeenDown \subseteq { Result[k] : k \in 1..N }
      <4>1. SUFFICES ASSUME NEW m \in 1 .. Len(down)
                     PROVE  \E k \in 1 .. N : Result[k] = down[m]
        BY DEF SeenDown
      <4>2. /\ Len(live) + m \in Len(live) + 1 .. N
            /\ Len(live) + m \in 1 .. N
            /\ (Len(live) + m) - Len(live) = m
        BY <2>2
      <4>3. QED
        BY <2>3, <4>2
    <3>3. ASSUME NEW k \in 1 .. N PROVE Result[k] \in SeenLive \cup SeenDown
      <4>1. CASE k <= Len(live)
        BY <2>2, <2>3, <4>1 DEF SeenLive
      <4>2. CASE k > Len(live)
        <5>1. k \in Len(live) + 1 .. N /\ k - Len(live) \in 1 .. Len(down)
          BY <2>2, <4>2
        <5>2. QED
          BY <2>3, <5>1 DEF SeenDown
      <4>3. QED
        BY <2>2, <4>1, <4>2
    <3>4. QED
      BY <3>1, <3>2, <3>3
  <2>6. { Result[k] : k \in 1..N } = Ifaces
    BY <2>5, AllLooked DEF IInv
  <2>7. QED
    BY <2>3, <2>4, <2>6
<1>2. QED
  BY <1>1, Invariance, PTL
=============================================================================
