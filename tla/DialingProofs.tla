--------------------------- MODULE DialingProofs ---------------------------
(***************************************************************************)
(* Dials and probes use the balancer as its module says: Dialing           *)
(* implements the specification of Balancer, so what is proved of the      *)
(* strategies holds in the composition, for any number of interfaces and   *)
(* dials.  And a dial has time for all its candidates, as long as one      *)
(* attempt at each fits into the time of the dial.                         *)
(***************************************************************************)
EXTENDS Dialing, BalancerProofs

\* A goroutine that holds the mutex of the balancer is still waiting for it.
Inside == \A c \in Callers : holder = c => pc[c] = "queued"

\* A dial that tries an interface still has one, and time left.
Trying ==
  \A c \in Callers :
    pc[c] \in {"attempt", "mark"} => cand[c] # <<>> /\ spent[c] < Budget

\* It loses a candidate with every timeout.
Used ==
  \A c \in Callers :
    IF pc[c] \in {"new", "queued"} THEN spent[c] = 0 ELSE spent[c] + Len(cand[c]) <= N

Failed == \A c \in Callers : pc[c] = "failed" => cand[c] = <<>> \/ Expired(c)

DialInv == IInv /\ TypeOK /\ Trying /\ Inside /\ Used /\ Failed
-----------------------------------------------------------------------------
USE BalancerAssumption, DialingAssumption
USE DEF BalancerAssumption, DialingAssumption

\* The steps of dials, probes and links leave the balancer alone, call it, or
\* set a flag.
LEMMA Balances ==
  ASSUME TypeOK, Trying, [Next]_vars
  PROVE  [BalancerNext]_balancerVars
<1>1. ASSUME NEW c \in Callers, Ask(c) PROVE BalancerNext
  BY <1>1 DEF Ask, BalancerNext
<1>2. ASSUME NEW c \in Callers, Receive(c) PROVE BalancerNext
  BY <1>2 DEF Receive, BalancerNext
<1>3. ASSUME LookOnce PROVE BalancerNext
  BY <1>3 DEF LookOnce, BalancerNext
<1>4. ASSUME NEW i \in Ifaces, NEW b \in BOOLEAN, SetAlive(i, b),
             UNCHANGED <<roundRobin, index, scan, turns>>
      PROVE  [BalancerNext]_balancerVars
  <2>1. alive \in [Ifaces -> BOOLEAN]
    BY DEF TypeOK, BalancerTypeOK
  <2>2. CASE b = alive[i]
    <3>1. alive' = alive
      BY <1>4, <2>1, <2>2 DEF SetAlive
    <3>2. QED
      BY <1>4, <3>1 DEF balancerVars, scan, turns
  <2>3. CASE b # alive[i]
    <3>1. b = ~alive[i]
      BY <1>4, <2>1, <2>3
    <3>2. Flip
      BY <1>4, <3>1 DEF Flip
    <3>3. QED
      BY <3>2 DEF BalancerNext
  <2>4. QED
    BY <2>2, <2>3
<1>5. ASSUME NEW c \in Callers, Mark(c) PROVE [BalancerNext]_balancerVars
  <2>1. cand[c] \in Seq(Ifaces) /\ cand[c] # <<>>
    BY <1>5 DEF Mark, TypeOK, Trying
  <2>2. Head(cand[c]) \in Ifaces
    BY <2>1
  <2>3. QED
    BY <1>4, <1>5, <2>2 DEF Mark
<1>6. ASSUME NEW i \in Ifaces, Publish(i) PROVE [BalancerNext]_balancerVars
  BY <1>4, <1>6 DEF Publish
<1>7. QED
  BY <1>1, <1>2, <1>3, <1>5, <1>6
     DEF Next, Dial, Call, Choose, Connect, AttemptFails, Cancel, Monitor, Round,
         Answer, LinkChange, StopSession, vars

\* Every step keeps the types, and a dial that tries an interface keeps one.
LEMMA DialTypeStep ==
  ASSUME IInv, TypeOK, Trying, [Next]_vars, BalancerTypeOK'
  PROVE  TypeOK' /\ Trying'
<1>1. ASSUME NEW c \in Callers, Call(c) \/ Ask(c) \/ Cancel(c) PROVE TypeOK' /\ Trying'
  BY <1>1 DEF TypeOK, Trying, Call, Ask, Cancel, Goto, Places, world, dials
<1>2. ASSUME NEW c \in Callers, Receive(c) PROVE TypeOK' /\ Trying'
  <2>1. live \in Seq(Ifaces) /\ down \in Seq(Ifaces)
    BY DEF TypeOK, BalancerTypeOK
  <2>2. Result \in Seq(Ifaces)
    BY <2>1 DEF Result
  <2>3. cand' \in [Callers -> Seq(Ifaces)]
    BY <1>2, <2>2 DEF Receive, TypeOK
  <2>4. QED
    BY <1>2, <2>3 DEF TypeOK, Trying, Receive, Goto, Places, world
<1>3. ASSUME NEW c \in Callers, Choose(c) PROVE TypeOK' /\ Trying'
  BY <1>3 DEF TypeOK, Trying, Choose, Goto, Places, world, Expired
<1>4. ASSUME NEW c \in Callers, Connect(c) \/ Mark(c) PROVE TypeOK' /\ Trying'
  BY <1>4 DEF TypeOK, Trying, Connect, Mark, Goto, Places, world
<1>5. ASSUME NEW c \in Callers, AttemptFails(c) PROVE TypeOK' /\ Trying'
  <2>1. cand[c] \in Seq(Ifaces) /\ cand[c] # <<>> /\ spent[c] \in 0 .. Budget - 1
    BY <1>5 DEF AttemptFails, TypeOK, Trying
  <2>2. Tail(cand[c]) \in Seq(Ifaces)
    BY <2>1
  <2>3. cand' \in [Callers -> Seq(Ifaces)]
    BY <1>5, <2>2 DEF AttemptFails, TypeOK
  <2>4. spent' \in [Callers -> 0 .. Budget]
    <3>1. spent[c] + 1 \in 0 .. Budget
      BY <2>1
    <3>2. spent' = spent \/ spent' = [spent EXCEPT ![c] = spent[c] + 1]
      BY <1>5 DEF AttemptFails
    <3>3. QED
      BY <3>1, <3>2 DEF TypeOK
  <2>5. QED
    BY <1>5, <2>3, <2>4 DEF TypeOK, Trying, AttemptFails, Goto, Places, world
<1>6. ASSUME Monitor PROVE TypeOK' /\ Trying'
  BY <1>6 DEF TypeOK, Trying, Monitor, Round, Answer, Publish, world, dials
<1>7. ASSUME LookOnce \/ StopSession PROVE TypeOK' /\ Trying'
  BY <1>7 DEF TypeOK, Trying, LookOnce, StopSession, world, dials
<1>8. ASSUME LinkChange PROVE TypeOK' /\ Trying'
  <2>1. outages' \in 0 .. MaxOutages
    BY <1>8 DEF LinkChange, TypeOK
  <2>2. link' \in [Ifaces -> BOOLEAN]
    BY <1>8 DEF LinkChange, TypeOK
  <2>3. QED
    BY <1>8, <2>1, <2>2 DEF TypeOK, Trying, LinkChange, dials
<1>9. CASE UNCHANGED vars
  BY <1>9 DEF TypeOK, Trying, vars
<1>10. QED
  BY <1>1, <1>2, <1>3, <1>4, <1>5, <1>6, <1>7, <1>8, <1>9 DEF Next, Dial

\* Whoever holds the mutex waits for Candidates to return.
LEMMA InsideStep ==
  ASSUME TypeOK, Inside, [Next]_vars
  PROVE  Inside'
<1>1. ASSUME NEW c \in Callers, Ask(c) PROVE Inside'
  BY <1>1 DEF Inside, Ask, Enter, dials
<1>2. ASSUME NEW c \in Callers, Receive(c) PROVE Inside'
  BY <1>2 DEF Inside, Receive, Leave
<1>3. ASSUME NEW c \in Callers, pc[c] # "queued", UNCHANGED holder,
             \E place : Goto(c, place) \/ UNCHANGED pc
      PROVE  Inside'
  BY <1>3 DEF Inside, Goto, TypeOK
<1>4. ASSUME UNCHANGED <<holder, pc>> PROVE Inside'
  BY <1>4 DEF Inside
<1>5. ASSUME NEW c \in Callers, Call(c) \/ Choose(c) \/ Connect(c) \/ AttemptFails(c) \/ Mark(c)
      PROVE  Inside'
  BY <1>3, <1>5 DEF Call, Choose, Connect, AttemptFails, Mark, balancerVars, scan
<1>6. QED
  BY <1>1, <1>2, <1>4, <1>5
     DEF Next, Dial, LookOnce, Look, Cancel, Monitor, Round, Answer, Publish,
         LinkChange, StopSession, vars, balancerVars, scan, dials

\* A dial gets N candidates and gives one up with every timeout, and it fails
\* when it has none or no time.
LEMMA UsedStep ==
  ASSUME IInv, TypeOK, Trying, Inside, Used, Failed, [Next]_vars
  PROVE  Used' /\ Failed'
<1> DEFINE Ok(c) ==
      /\ IF pc[c] \in {"new", "queued"} THEN spent[c] = 0 ELSE spent[c] + Len(cand[c]) <= N
      /\ pc[c] = "failed" => cand[c] = <<>> \/ Expired(c)
<1>1. SUFFICES ASSUME NEW d \in Callers PROVE Ok(d)'
  BY DEF Used, Failed
<1>2. Ok(d) /\ cand[d] \in Seq(Ifaces) /\ spent[d] \in Nat
  BY DEF Used, Failed, TypeOK
<1>3. ASSUME pc'[d] = pc[d], cand'[d] = cand[d], spent'[d] = spent[d],
             cancelled[d] => cancelled'[d]
      PROVE  Ok(d)'
  BY <1>2, <1>3 DEF Expired
<1>4. ASSUME NEW c \in Callers, c # d, Call(c) \/ Dial(c) \/ Cancel(c) PROVE Ok(d)'
  BY <1>3, <1>4 DEF TypeOK, Call, Dial, Ask, Receive, Choose, Connect, AttemptFails,
                    Mark, Cancel, Goto, dials
<1>5. ASSUME Call(d) PROVE Ok(d)'
  BY <1>2, <1>5 DEF Call, Goto, TypeOK
<1>6. ASSUME Receive(d) PROVE Ok(d)'
  <2>1. Len(Result) = N
    <3>1. live \in Seq(Ifaces) /\ down \in Seq(Ifaces)
      BY DEF TypeOK, BalancerTypeOK
    <3>2. Len(live) + Len(down) = N
      BY <1>6 DEF IInv, Scanned, Receive, Leave
    <3>3. QED
      BY <3>1, <3>2 DEF Result
  <2>2. pc[d] = "queued"
    BY <1>6 DEF Inside, Receive, Leave
  <2>3. pc'[d] = "choose" /\ cand'[d] = Result /\ spent'[d] = 0
    BY <1>2, <1>6, <2>2 DEF Receive, Goto, TypeOK
  <2>4. QED
    BY <2>1, <2>3
<1>7. ASSUME Choose(d) PROVE Ok(d)'
  <2>1. /\ pc'[d] = IF cand[d] = <<>> \/ Expired(d) THEN "failed" ELSE "attempt"
        /\ UNCHANGED <<cand, spent, cancelled>> /\ pc[d] = "choose"
    BY <1>7 DEF Choose, Goto, TypeOK
  <2>2. QED
    BY <1>2, <2>1 DEF Expired
<1>8. ASSUME Connect(d) \/ Mark(d) PROVE Ok(d)'
  BY <1>2, <1>8 DEF Connect, Mark, Goto, TypeOK
<1>9. ASSUME AttemptFails(d) PROVE Ok(d)'
  <2>1. pc[d] = "attempt" /\ pc'[d] = "choose" /\ cand'[d] = Tail(cand[d])
    BY <1>9 DEF AttemptFails, Goto, TypeOK
  <2>2. spent'[d] = spent[d] \/ spent'[d] = spent[d] + 1
    BY <1>9 DEF AttemptFails, TypeOK
  <2>3. cand[d] # <<>>
    BY <2>1 DEF Trying
  <2>4. Len(Tail(cand[d])) = Len(cand[d]) - 1 /\ Len(cand[d]) \in Nat
    BY <1>2, <2>3
  <2>5. spent[d] + Len(cand[d]) <= N
    BY <1>2, <2>1
  <2>6. spent'[d] + Len(cand'[d]) <= N
    BY <1>2, <2>1, <2>2, <2>4, <2>5
  <2>7. QED
    BY <2>1, <2>6
<1>10. ASSUME Ask(d) \/ Cancel(d) PROVE Ok(d)'
  BY <1>3, <1>10 DEF Ask, Cancel, dials, TypeOK
<1>11. ASSUME LookOnce \/ Monitor \/ LinkChange \/ StopSession \/ UNCHANGED vars
       PROVE  Ok(d)'
  BY <1>3, <1>11 DEF LookOnce, Monitor, Round, Answer, Publish, LinkChange,
                     StopSession, vars, dials
<1>12. QED
  BY <1>4, <1>5, <1>6, <1>7, <1>8, <1>9, <1>10, <1>11 DEF Next, Dial

-----------------------------------------------------------------------------
\* What is known of dials, and of the calls they make, holds in every state.
THEOREM DialInvariance == Spec => []DialInv
<1>1. Init => DialInv
  <2> SUFFICES ASSUME Init PROVE DialInv
    OBVIOUS
  <2>1. IInv
    BY Start DEF Init
  <2>2. TypeOK
    <3>1. BalancerTypeOK
      BY <2>1 DEF IInv
    <3>2. /\ link \in [Ifaces -> BOOLEAN] /\ outages \in 0..MaxOutages
          /\ stopped \in BOOLEAN /\ probe \in [Ifaces -> {"idle", "sent", "good", "bad"}]
      <4>1. outages \in 0..MaxOutages /\ link \in [Ifaces -> BOOLEAN]
        BY DEF Init
      <4>2. stopped \in BOOLEAN
        BY Zenon DEF Init
      <4>3. probe = [i \in Ifaces |-> "idle"]
        BY DEF Init
      <4>4. probe \in [Ifaces -> {"idle", "sent", "good", "bad"}]
        BY <4>3
      <4>5. QED
        BY Zenon, <4>1, <4>2, <4>4
    <3>3. /\ pc \in [Callers -> Places] /\ cand \in [Callers -> Seq(Ifaces)]
          /\ spent \in [Callers -> 0..Budget] /\ cancelled \in [Callers -> BOOLEAN]
      BY DEF Init, Places
    <3>4. QED
      BY <3>1, <3>2, <3>3 DEF TypeOK
  <2>3. Trying /\ Inside /\ Used /\ Failed
    BY DEF Init, BalancerInit, Trying, Inside, Used, Failed
  <2>4. QED
    BY <2>1, <2>2, <2>3 DEF DialInv
<1>2. DialInv /\ [Next]_vars => DialInv'
  <2> SUFFICES ASSUME DialInv, [Next]_vars PROVE DialInv'
    OBVIOUS
  <2>1. IInv /\ TypeOK /\ Trying /\ Inside /\ Used /\ Failed
    BY DEF DialInv
  <2>2. IInv'
    BY <2>1, Balances, Inductive
  <2>3. TypeOK' /\ Trying'
    BY <2>1, <2>2, DialTypeStep DEF IInv
  <2>4. Inside' /\ Used' /\ Failed'
    BY <2>1, InsideStep, UsedStep
  <2>5. QED
    BY <2>2, <2>3, <2>4 DEF DialInv
<1>3. QED
  BY <1>1, <1>2, PTL DEF Spec

\* Dials keep their types: an attempt always has a candidate, and no dial
\* spends more than its time.
THEOREM DialTyping == Spec => []TypeOK
<1>1. DialInv => TypeOK
  BY DEF DialInv
<1>2. QED
  BY <1>1, DialInvariance, PTL

\* Dials and probes together use the balancer as its specification says, so
\* its theorems hold whatever they do to the flags in between.
THEOREM DialsBalance == Spec => BalancerSpec
<1>1. Init => BalancerInit
  BY DEF Init
<1>2. DialInv /\ [Next]_vars => [BalancerNext]_balancerVars
  BY Balances DEF DialInv
<1>3. QED
  BY <1>1, <1>2, DialInvariance, PTL DEF Spec, BalancerSpec

\* A dial that nobody cancelled fails only after every interface was tried,
\* marked down or not, if its time is enough for one attempt at each.
THEOREM NoFalse ==
  ASSUME N <= Budget
  PROVE  Spec => []NoFalseOutage
<1>1. DialInv => NoFalseOutage
  <2> SUFFICES ASSUME DialInv, NEW c \in Callers, pc[c] = "failed", ~cancelled[c]
               PROVE  cand[c] = <<>>
    BY DEF NoFalseOutage
  <2>1. cand[c] \in Seq(Ifaces) /\ spent[c] \in Nat
    BY DEF DialInv, TypeOK
  <2>2. spent[c] + Len(cand[c]) <= N
    BY DEF DialInv, Used
  <2>3. cand[c] = <<>> \/ spent[c] = Budget
    BY DEF DialInv, Failed, Expired
  <2>4. CASE spent[c] = Budget
    <3>1. Len(cand[c]) = 0
      BY <2>1, <2>2, <2>4
    <3>2. QED
      BY <2>1, <3>1
  <2>5. QED
    BY <2>3, <2>4
<1>2. QED
  BY <1>1, DialInvariance, PTL

\* The strategies keep their promises in use: dials that race for the mutex,
\* probes and successful dials that flip flags while a list is being made.
THEOREM DialsTakeTurns == Spec => [](TurnComes /\ PriorityKept) /\ EvenTurns
BY DialsBalance, Turn, Priority, Even, PTL

-----------------------------------------------------------------------------
(***************************************************************************)
(* Dials end.  What is left of one is bounded when it begins: a look at    *)
(* each interface under the mutex, and two steps for each candidate.       *)
(***************************************************************************)
DialLeft(c) ==
  CASE pc[c] = "new" -> 3 * N + 5
    [] pc[c] = "queued" /\ holder # c -> 3 * N + 4
    [] pc[c] = "queued" /\ holder = c -> 3 * N + 3 - pos
    [] pc[c] = "choose" -> 2 * Len(cand[c]) + 2
    [] pc[c] = "attempt" -> 2 * Len(cand[c]) + 1
    [] pc[c] = "mark" -> 1
    [] OTHER -> 0

DialNearer(c) ==
  /\ Call(c) \/ Dial(c) \/ (holder = c /\ LookOnce) => DialLeft(c)' < DialLeft(c)
  /\ DialLeft(c)' <= DialLeft(c)

\* The steps of the dial itself.
LEMMA DialAdvances ==
  ASSUME DialInv, NEW c \in Callers,
         Call(c) \/ Dial(c) \/ (holder = c /\ LookOnce)
  PROVE  DialLeft(c)' < DialLeft(c)
<1>1. /\ pc \in [Callers -> Places] /\ cand \in [Callers -> Seq(Ifaces)]
      /\ cand[c] \in Seq(Ifaces) /\ Len(cand[c]) \in Nat
      /\ pos \in 0..N /\ live \in Seq(Ifaces) /\ down \in Seq(Ifaces)
  BY DEF DialInv, TypeOK, BalancerTypeOK
<1>2. /\ pc[c] \in {"attempt", "mark"} => cand[c] # <<>>
      /\ holder = c => pc[c] = "queued"
  BY DEF DialInv, Trying, Inside
<1>3. CASE Call(c)
  <2>1. pc[c] = "new" /\ pc'[c] = "queued" /\ holder' = holder /\ pos' = pos
    BY <1>1, <1>3 DEF Call, Goto, balancerVars
  <2>2. QED
    BY <1>1, <2>1 DEF DialLeft
<1>4. CASE Ask(c)
  <2>1. pc[c] = "queued" /\ pc' = pc /\ holder # c /\ holder' = c /\ pos' = 0
    BY <1>4 DEF Ask, Enter, dials
  <2>2. QED
    BY <2>1 DEF DialLeft
<1>5. CASE holder = c /\ LookOnce
  <2>1. pc[c] = "queued" /\ pc' = pc /\ holder' = c /\ pos' = pos + 1
    BY <1>2, <1>5 DEF LookOnce, Look, dials
  <2>2. QED
    BY <1>1, <1>5, <2>1 DEF DialLeft
<1>6. CASE Receive(c)
  <2>1. pc[c] = "queued" /\ holder = c /\ pos = N /\ pc'[c] = "choose" /\ cand'[c] = Result
    BY <1>1, <1>2, <1>6 DEF Receive, Leave, Goto
  <2>2. Len(Result) = N
    <3>1. Len(live) + Len(down) = N
      BY <2>1 DEF DialInv, IInv, Scanned
    <3>2. QED
      BY <1>1, <3>1 DEF Result
  <2>3. DialLeft(c) = 3 * N + 3 - N /\ DialLeft(c)' = 2 * N + 2
    BY <2>1, <2>2 DEF DialLeft
  <2>4. QED
    BY <2>3
<1>7. CASE Choose(c)
  <2>1. pc[c] = "choose" /\ pc'[c] \in {"failed", "attempt"} /\ cand'[c] = cand[c]
    BY <1>1, <1>7 DEF Choose, Goto
  <2>2. QED
    BY <1>1, <2>1 DEF DialLeft
<1>8. CASE Connect(c) \/ Mark(c)
  <2>1. \/ pc[c] = "attempt" /\ pc'[c] = "mark"
        \/ pc[c] = "mark" /\ pc'[c] = "connected"
    BY <1>1, <1>8 DEF Connect, Mark, Goto
  <2>2. pc[c] = "attempt" => Len(cand[c]) > 0
    BY <1>1, <1>2
  <2>3. QED
    BY <1>1, <2>1, <2>2 DEF DialLeft
<1>9. CASE AttemptFails(c)
  <2>1. pc[c] = "attempt" /\ pc'[c] = "choose" /\ cand'[c] = Tail(cand[c])
    BY <1>1, <1>9 DEF AttemptFails, Goto
  <2>2. Len(Tail(cand[c])) = Len(cand[c]) - 1
    BY <1>1, <1>2, <2>1
  <2>3. DialLeft(c) = 2 * Len(cand[c]) + 1 /\ DialLeft(c)' = 2 * (Len(cand[c]) - 1) + 2
    BY <2>1, <2>2 DEF DialLeft
  <2>4. QED
    BY <1>1, <2>3
<1>10. QED
  BY <1>3, <1>4, <1>5, <1>6, <1>7, <1>8, <1>9 DEF Dial

\* What another dial, a probe, a link or the session does.
LEMMA DialStays ==
  ASSUME DialInv, NEW c \in Callers, [Next]_vars,
         ~(Call(c) \/ Dial(c) \/ (holder = c /\ LookOnce))
  PROVE  DialLeft(c)' = DialLeft(c)
<1>1. /\ pc \in [Callers -> Places] /\ cand \in [Callers -> Seq(Ifaces)]
      /\ c # NoCaller
  BY DEF DialInv, TypeOK
<1>2. SUFFICES /\ pc'[c] = pc[c] /\ cand'[c] = cand[c]
               /\ holder' = c <=> holder = c
               /\ holder = c => pos' = pos
  BY DEF DialLeft
<1>3. ASSUME NEW d \in Callers, d # c, Call(d) \/ Dial(d)
      PROVE  /\ pc'[c] = pc[c] /\ cand'[c] = cand[c]
             /\ holder' = c <=> holder = c
             /\ holder = c => pos' = pos
  <2>1. pc'[c] = pc[c]
    BY <1>1, <1>3 DEF Call, Dial, Ask, Receive, Choose, Connect, AttemptFails, Mark, Goto, dials
  <2>2. cand'[c] = cand[c]
    BY <1>1, <1>3 DEF Call, Dial, Ask, Receive, Choose, Connect, AttemptFails, Mark, dials
  <2>3. CASE Ask(d) \/ Receive(d)
    BY <1>1, <1>3, <2>1, <2>2, <2>3 DEF Ask, Receive, Enter, Leave
  <2>4. CASE Call(d) \/ Choose(d) \/ Connect(d) \/ AttemptFails(d) \/ Mark(d)
    <3>1. UNCHANGED <<holder, pos>>
      BY <2>4 DEF Call, Choose, Connect, AttemptFails, Mark, balancerVars, scan
    <3>2. QED
      BY <2>1, <2>2, <3>1
  <2>5. QED
    BY <1>3, <2>3, <2>4 DEF Dial
<1>4. ASSUME NEW d \in Callers, Cancel(d)
      PROVE  UNCHANGED <<pc, cand, holder, pos>>
  BY <1>4 DEF Cancel, balancerVars
<1>5. CASE LookOnce
  BY <1>5 DEF LookOnce, Look, dials
<1>6. CASE Monitor \/ LinkChange \/ StopSession \/ UNCHANGED vars
  BY <1>6 DEF Monitor, Round, Answer, Publish, LinkChange, StopSession, vars, dials,
              balancerVars, scan
<1>7. QED
  BY <1>3, <1>4, <1>5, <1>6 DEF Next

\* A dial ends after 3 N + 5 steps of its own at most: no outage, probe or other
\* dial makes its list longer or has it look at an interface again.
THEOREM DialsEnd == Spec => [][\A c \in Callers : DialNearer(c)]_vars
<1>1. ASSUME DialInv, DialInv', [Next]_vars, NEW c \in Callers PROVE DialNearer(c)
  <2>1. DialLeft(c) \in Nat /\ DialLeft(c)' \in Nat
    <3>1. cand[c] \in Seq(Ifaces) /\ cand'[c] \in Seq(Ifaces) /\ pos \in 0..N /\ pos' \in 0..N
      BY <1>1 DEF DialInv, TypeOK, BalancerTypeOK
    <3>2. Len(cand[c]) \in Nat /\ Len(cand'[c]) \in Nat
      BY <3>1
    <3>3. /\ 3 * N + 5 \in Nat /\ 3 * N + 4 \in Nat
          /\ 3 * N + 3 - pos \in Nat /\ 3 * N + 3 - pos' \in Nat
      <4>1. \A k \in 0..N : 3 * N + 3 - k \in Nat
        OBVIOUS
      <4>2. 3 * N + 3 - pos \in Nat /\ 3 * N + 3 - pos' \in Nat
        BY <3>1, <4>1, Zenon
      <4>3. 3 * N + 5 \in Nat /\ 3 * N + 4 \in Nat
        OBVIOUS
      <4>4. QED
        BY <4>2, <4>3
    <3>4. DialLeft(c) \in Nat
      BY <3>2, <3>3 DEF DialLeft
    <3>5. DialLeft(c)' \in Nat
      BY <3>2, <3>3 DEF DialLeft
    <3>6. QED
      BY <3>4, <3>5
  <2>2. QED
    BY <1>1, <2>1, DialAdvances, DialStays DEF DialNearer
<1>2. DialInv /\ DialInv' /\ [Next]_vars => \A c \in Callers : DialNearer(c)
  BY <1>1
<1>3. QED
  BY <1>2, DialInvariance, PTL DEF Spec

-----------------------------------------------------------------------------
(***************************************************************************)
(* Health, once found, is kept.                                            *)
(***************************************************************************)
\* The flag of i says what its link does, and neither an answer on its way nor
\* a dial about to mark the interface says anything else.
Agreed(i) ==
  /\ alive[i] = link[i]
  /\ probe[i] = "good" => link[i]
  /\ probe[i] = "bad" => ~link[i]
  /\ \A c \in Callers : pc[c] = "mark" /\ Head(cand[c]) = i => link[i]

LinkStays(i) == link'[i] = link[i] /\ ~stopped'

LEMMA AgreedMark ==
  ASSUME TypeOK, [Next]_vars, NEW i \in Ifaces, Agreed(i), LinkStays(i)
  PROVE  \A c \in Callers : pc'[c] = "mark" /\ Head(cand'[c]) = i => link'[i]
<1>1. SUFFICES ASSUME NEW c \in Callers, pc'[c] = "mark", Head(cand'[c]) = i
               PROVE  link[i]
  BY DEF LinkStays
<1>2. pc \in [Callers -> Places] /\ cand \in [Callers -> Seq(Ifaces)]
  BY DEF TypeOK
<1>3. ASSUME NEW d \in Callers, Call(d) \/ Dial(d) \/ Cancel(d)
      PROVE  \/ pc[c] = "mark" /\ cand'[c] = cand[c]
             \/ link[Head(cand[c])] /\ cand'[c] = cand[c]
  <2>1. CASE d = c
    BY <1>1, <1>2, <1>3, <2>1
       DEF Call, Dial, Ask, Receive, Choose, Connect, AttemptFails, Mark, Cancel, Goto, dials
  <2>2. CASE d # c
    BY <1>1, <1>2, <1>3, <2>2
       DEF Call, Dial, Ask, Receive, Choose, Connect, AttemptFails, Mark, Cancel, Goto, dials
  <2>3. QED
    BY <2>1, <2>2
<1>4. CASE LookOnce \/ Monitor \/ LinkChange \/ StopSession \/ UNCHANGED vars
  <2>1. UNCHANGED <<pc, cand>>
    BY <1>4 DEF LookOnce, Monitor, Round, Answer, Publish, LinkChange, StopSession, vars, dials
  <2>2. QED
    BY <1>1, <2>1 DEF Agreed
<1>5. QED
  BY <1>1, <1>3, <1>4 DEF Next, Agreed

LEMMA AgreedFlag ==
  ASSUME TypeOK, Trying, [Next]_vars, NEW i \in Ifaces \ Blocked, Agreed(i), LinkStays(i)
  PROVE  /\ alive'[i] = link'[i]
         /\ probe'[i] = "good" => link'[i]
         /\ probe'[i] = "bad" => ~link'[i]
<1>1. /\ alive \in [Ifaces -> BOOLEAN] /\ link \in [Ifaces -> BOOLEAN]
      /\ probe \in [Ifaces -> {"idle", "sent", "good", "bad"}]
      /\ cand \in [Callers -> Seq(Ifaces)] /\ i \in Ifaces
  BY DEF TypeOK, BalancerTypeOK
<1>2. link'[i] = link[i] /\ ~stopped'
  BY DEF LinkStays
<1>3. CASE UNCHANGED <<alive, probe>>
  BY <1>2, <1>3 DEF Agreed
<1>4. ASSUME NEW j \in Ifaces, Answer(j)
      PROVE  /\ alive' = alive
             /\ probe'[i] = "good" => link[i]
             /\ probe'[i] = "bad" => ~link[i]
  <2>1. alive' = alive /\ ~stopped
    BY <1>2, <1>4 DEF Answer, balancerVars, world
  <2>2. CASE j = i
    BY <1>1, <1>4, <2>1, <2>2 DEF Answer
  <2>3. CASE j # i
    BY <1>1, <1>4, <2>1, <2>3 DEF Answer, Agreed
  <2>4. QED
    BY <2>2, <2>3
<1>5. ASSUME NEW j \in Ifaces, Publish(j)
      PROVE  /\ alive'[i] = link[i]
             /\ probe'[i] = "good" => link[i]
             /\ probe'[i] = "bad" => ~link[i]
  <2>1. CASE j = i
    <3>1. alive'[i] = (probe[i] = "good") /\ probe[i] \in {"good", "bad"} /\ probe'[i] = "idle"
      BY <1>1, <1>5, <2>1 DEF Publish, SetAlive
    <3>2. alive'[i] = link[i]
      BY <1>1, <3>1 DEF Agreed
    <3>3. QED
      BY <3>1, <3>2
  <2>2. CASE j # i
    <3>1. alive'[i] = alive[i] /\ probe'[i] = probe[i]
      BY <1>1, <1>5, <2>2 DEF Publish, SetAlive
    <3>2. QED
      BY <3>1 DEF Agreed
  <2>3. QED
    BY <2>1, <2>2
<1>6. ASSUME NEW c \in Callers, Mark(c)
      PROVE  alive'[i] = link[i] /\ probe' = probe
  <2>1. pc[c] = "mark" /\ alive' = [alive EXCEPT ![Head(cand[c])] = TRUE] /\ probe' = probe
    BY <1>6 DEF Mark, SetAlive
  <2>2. CASE Head(cand[c]) = i
    <3>1. alive'[i] = TRUE /\ link[i]
      BY <1>1, <2>1, <2>2 DEF Agreed
    <3>2. link[i] = TRUE
      BY <1>1, <3>1, Zenon
    <3>3. QED
      BY <2>1, <3>1, <3>2
  <2>3. CASE Head(cand[c]) # i
    BY <1>1, <2>1, <2>3 DEF Agreed
  <2>4. QED
    BY <2>2, <2>3
<1>7. CASE Round
  BY <1>1, <1>2, <1>7 DEF Round, balancerVars, Agreed
<1>8. ASSUME NEW c \in Callers, \/ Call(c) \/ Ask(c) \/ Receive(c) \/ Choose(c)
                               \/ Connect(c) \/ AttemptFails(c) \/ Cancel(c)
      PROVE  UNCHANGED <<alive, probe>>
  BY <1>8 DEF Call, Ask, Receive, Choose, Connect, AttemptFails, Cancel, Enter, Leave,
              balancerVars
<1>9. CASE LookOnce \/ LinkChange \/ StopSession \/ UNCHANGED vars
  <2>1. UNCHANGED <<alive, probe>>
    BY <1>9 DEF LookOnce, Look, LinkChange, StopSession, vars, balancerVars
  <2>2. QED
    BY <1>3, <2>1
<1>10. QED
  BY <1>2, <1>3, <1>4, <1>5, <1>6, <1>7, <1>8, <1>9 DEF Next, Dial, Monitor, Agreed

\* The balancer's flag of an interface that can be probed, once it agrees with a
\* link that stays as it is, agrees with it for as long as the session lasts: no
\* probe and no dial that was on its way can turn it back.
HealthKept == \A i \in Ifaces \ Blocked : Agreed(i) /\ LinkStays(i) => Agreed(i)'

THEOREM HealthStays == Spec => [][HealthKept]_vars
<1>1. ASSUME DialInv, [Next]_vars, NEW i \in Ifaces \ Blocked, Agreed(i), LinkStays(i)
      PROVE  Agreed(i)'
  BY <1>1, AgreedMark, AgreedFlag DEF DialInv, Agreed
<1>2. DialInv /\ [Next]_vars => HealthKept
  BY <1>1 DEF HealthKept
<1>3. QED
  BY <1>2, DialInvariance, PTL DEF Spec
=============================================================================
