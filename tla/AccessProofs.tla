---------------------------- MODULE AccessProofs ----------------------------
(***************************************************************************)
(* Who is served, for any texts, any addresses and any field length.  The  *)
(* texts are taken apart twice, by main and by authorized; that neither    *)
(* lets a wrong login through rests on the first colon being one place:    *)
(* a text is its part before, the colon, and its part after (CutApart).    *)
(***************************************************************************)
EXTENDS Access, TLAPS, SequenceTheorems, WellFoundedInduction

\* What a configured server holds, from Configure on.
Configured ==
  stage \in {"configured", "listening"} =>
    \/ Credentials = <<>> /\ user = <<>> /\ password = <<>>
    \/ /\ WellFormed(Credentials)
       /\ user = Before(Credentials) /\ password = After(Credentials)

Inputs ==
  /\ file \in Texts \cup {None} /\ env \in Texts
  /\ stage \in {"start", "configured", "listening", "ended"}

AInv ==
  /\ Inputs /\ Configured
  /\ stage = "listening" => Permitted
  /\ OwnClientsOnly
  /\ stage \in {"start", "configured"} => ~served /\ sent = None
  /\ stage = "start" => user = <<>> /\ password = <<>>
-----------------------------------------------------------------------------
\* A set of numbers has a least element, and a bounded one a greatest.
LEMMA Least ==
  ASSUME NEW C \in SUBSET Nat, C # {}
  PROVE  \E n \in C : \A m \in C : n <= m
<1> DEFINE R == { ss \in Nat \X Nat : ss[1] < ss[2] }
<1>1. IsWellFoundedOn(R, Nat)
  BY NatLessThanWellFounded DEF OpToRel
<1>2. \A m, n \in Nat : <<m, n>> \notin R => n <= m
  OBVIOUS
<1> HIDE DEF R
<1>3. \E n \in C : \A m \in C : <<m, n>> \notin R
  BY <1>1, WFMin
<1>4. QED
  BY <1>2, <1>3

LEMMA Greatest ==
  ASSUME NEW k \in Nat, NEW C \in SUBSET (1..k), C # {}
  PROVE  \E n \in C : \A m \in C : m <= n
<1> DEFINE D == { k - c : c \in C }
<1>1. D \in SUBSET Nat /\ D # {}
  <2>1. \A c \in C : k - c \in Nat
    OBVIOUS
  <2>2. QED
    BY <2>1
<1>2. PICK d \in D : \A e \in D : d <= e
  BY <1>1, Least
<1>3. PICK c \in C : d = k - c
  BY <1>2
<1>4. \A m \in C : m <= c
  <2>1. SUFFICES ASSUME NEW m \in C PROVE m <= c
    OBVIOUS
  <2>2. k - m \in D
    OBVIOUS
  <2>3. QED
    BY <1>2, <1>3, <2>2
<1>5. QED
  BY <1>4

\* What is trimmed is still a text.
LEMMA TrimType ==
  ASSUME NEW t \in Seq(Chars)
  PROVE  Trim(t) \in Seq(Chars)
<1> DEFINE Solid == { i \in DOMAIN t : t[i] # Blank }
           first == CHOOSE i \in Solid : \A j \in Solid : i <= j
           last  == CHOOSE i \in Solid : \A j \in Solid : j <= i
<1>1. CASE Solid = {}
  BY <1>1 DEF Trim
<1>2. CASE Solid # {}
  <2>1. Len(t) \in Nat /\ Solid \in SUBSET (1..Len(t)) /\ Solid \in SUBSET Nat
    OBVIOUS
  <2> HIDE DEF Solid
  <2>2. first \in Solid
    BY <1>2, <2>1, Least
  <2>3. last \in Solid
    BY <1>2, <2>1, Greatest
  <2> HIDE DEF first, last
  <2>4. \A i \in first..last : t[i] \in Chars
    BY <2>1, <2>2, <2>3
  <2>5. SubSeq(t, first, last) \in Seq(Chars)
    BY <2>1, <2>2, <2>3, <2>4, SubSeqProperties
  <2>6. QED
    BY <1>2, <2>5 DEF Trim, first, last, Solid
<1>3. QED
  BY <1>1, <1>2

\* The colon Cut looks for exists, if there is a colon.
LEMMA ColonFound ==
  ASSUME NEW t \in Seq(Chars), HasColon(t)
  PROVE  /\ FirstColon(t) \in 1..Len(t)
         /\ t[FirstColon(t)] = Colon
         /\ \A j \in 1..(FirstColon(t) - 1) : t[j] # Colon
<1> DEFINE C == { i \in 1..Len(t) : t[i] = Colon }
<1>1. C \in SUBSET Nat /\ C # {}
  BY DEF HasColon
<1>2. PICK i \in C : \A j \in C : i <= j
  BY <1>1, Least
<1>3. i \in DOMAIN t /\ t[i] = Colon /\ \A j \in 1..(i - 1) : t[j] # Colon
  BY <1>2
<1>4. QED
  BY <1>3 DEF FirstColon

\* What stands before the first colon.
LEMMA BeforeColon ==
  ASSUME NEW t \in Seq(Chars), HasColon(t)
  PROVE  /\ Before(t) \in Seq(Chars) /\ Len(Before(t)) = FirstColon(t) - 1
         /\ \A j \in 1..(FirstColon(t) - 1) : Before(t)[j] = t[j]
<1> DEFINE i == FirstColon(t)
<1>1. i \in 1..Len(t) /\ Len(t) \in Nat
  BY ColonFound
<1>2. \A j \in 1..Len(t) : t[j] \in Chars
  OBVIOUS
<1> HIDE DEF i
<1>3. QED
  BY <1>1, <1>2, SubSeqProperties DEF Before, i

\* Cut loses nothing but the colon.
LEMMA CutApart ==
  ASSUME NEW t \in Seq(Chars), HasColon(t)
  PROVE  /\ Before(t) \in Seq(Chars) /\ After(t) \in Seq(Chars)
         /\ t = Before(t) \o <<Colon>> \o After(t)
<1> DEFINE i == FirstColon(t)
           w == Before(t) \o <<Colon>>
<1>1. i \in 1..Len(t) /\ t[i] = Colon /\ Len(t) \in Nat
  BY ColonFound
<1>2. \A j \in 1..Len(t) : t[j] \in Chars
  OBVIOUS
<1> HIDE DEF i
<1>3. /\ Before(t) \in Seq(Chars) /\ Len(Before(t)) = i - 1
      /\ \A j \in 1..(i - 1) : Before(t)[j] = t[j]
  BY BeforeColon DEF i
<1>4. /\ After(t) \in Seq(Chars) /\ Len(After(t)) = Len(t) - i
      /\ \A j \in 1..(Len(t) - i) : After(t)[j] = t[i + j]
  BY <1>1, <1>2, SubSeqProperties DEF After, i
<1>5. /\ w \in Seq(Chars) /\ Len(w) = i
      /\ \A j \in 1..i : w[j] = t[j]
  BY <1>1, <1>3, AccessAssumption, ConcatProperties DEF AccessAssumption
<1> HIDE DEF w
<1>6. /\ w \o After(t) \in Seq(Chars) /\ Len(w \o After(t)) = Len(t)
      /\ \A j \in 1..Len(t) : (w \o After(t))[j] = t[j]
  <2> DEFINE v == After(t)
             k == Len(t) - i
  <2>1. v \in Seq(Chars) /\ Len(v) = k /\ \A j \in 1..k : v[j] = t[i + j]
    BY <1>4
  <2>2. i \in Nat /\ k \in Nat /\ i + k = Len(t)
    BY <1>1
  <2> HIDE DEF v, k
  <2>3. /\ w \o v \in Seq(Chars) /\ Len(w \o v) = i + k
        /\ \A j \in 1..(i + k) : (w \o v)[j] = IF j <= i THEN w[j] ELSE v[j - i]
    BY <1>5, <2>1, ConcatProperties
  <2>4. ASSUME NEW j \in 1..(i + k) PROVE (w \o v)[j] = t[j]
    <3>1. CASE j <= i
      BY <1>5, <2>2, <2>3, <3>1
    <3>2. CASE ~(j <= i)
      <4>1. j - i \in 1..k /\ i + (j - i) = j
        BY <2>2, <3>2
      <4>2. QED
        BY <2>1, <2>3, <3>2, <4>1
    <3>3. QED
      BY <3>1, <3>2
  <2>5. QED
    BY <2>2, <2>3, <2>4 DEF v
<1>7. w \o After(t) = t
  BY <1>6, SeqEqual
<1>8. QED
  BY <1>3, <1>4, <1>7 DEF w

\* A user without a colon comes back out of the text it was put in.
LEMMA CutJoined ==
  ASSUME NEW u \in Seq(Chars), NEW p \in Seq(Chars), NEW t \in Seq(Chars),
         t = u \o <<Colon>> \o p, ~HasColon(u)
  PROVE  HasColon(t) /\ Before(t) = u /\ After(t) = p
<1> DEFINE w == u \o <<Colon>>
           n == Len(u)
           i == FirstColon(t)
<1>1. /\ w \in Seq(Chars) /\ Len(w) = n + 1 /\ n \in Nat
      /\ \A j \in 1..n : w[j] = u[j]
      /\ w[n + 1] = Colon
  BY AccessAssumption, ConcatProperties DEF AccessAssumption
<1> HIDE DEF w
<1>2. /\ Len(w \o p) = Len(w) + Len(p)
      /\ \A j \in 1..(Len(w) + Len(p)) :
           (w \o p)[j] = IF j <= Len(w) THEN w[j] ELSE p[j - Len(w)]
  BY <1>1, ConcatProperties
<1>3. /\ Len(t) = n + 1 + Len(p) /\ Len(p) \in Nat
      /\ \A j \in 1..n : t[j] = u[j] /\ u[j] # Colon
      /\ t[n + 1] = Colon
  <2>1. t = w \o p
    BY DEF w
  <2>2. \A j \in 1..n : u[j] # Colon
    BY DEF HasColon
  <2>3. QED
    BY <1>1, <1>2, <2>1, <2>2
<1> HIDE DEF n
<1>4. HasColon(t)
  <2>1. n + 1 \in DOMAIN t
    BY <1>1, <1>3
  <2>2. QED
    BY <1>3, <2>1 DEF HasColon
<1>5. i = n + 1
  <2>1. /\ i \in 1..Len(t) /\ t[i] = Colon
        /\ \A j \in 1..(i - 1) : t[j] # Colon
    BY <1>4, ColonFound
  <2> HIDE DEF i
  <2>2. QED
    BY <1>1, <1>3, <2>1
<1>6. /\ Before(t) \in Seq(Chars) /\ After(t) \in Seq(Chars)
      /\ t = Before(t) \o <<Colon>> \o After(t)
  BY <1>4, CutApart
<1>7. Before(t) = u
  <2>1. n \in Nat
    BY <1>1
  <2>2. FirstColon(t) - 1 = n
    BY <1>5, <2>1
  <2>3. Len(Before(t)) = n /\ \A j \in 1..n : Before(t)[j] = u[j]
    BY <1>3, <1>4, <2>2, BeforeColon
  <2>4. Len(u) = n
    BY DEF n
  <2>5. QED
    BY <1>6, <2>3, <2>4, SeqEqual
<1>8. After(t) = p
  BY <1>1, <1>6, <1>7, ConcatSimplifications DEF w
<1>9. QED
  BY <1>4, <1>7, <1>8
-----------------------------------------------------------------------------
\* What the operator wrote is a text.
LEMMA CredentialsType ==
  ASSUME Inputs
  PROVE  Credentials \in Seq(Chars)
BY TrimType, AccessAssumption DEF Inputs, Credentials, AccessAssumption

\* An HTTP client passes only with the operator's text.
LEMMA HTTPMatch ==
  ASSUME Inputs, Configured, stage = "listening", NEW t \in Texts, Authorized(t)
  PROVE  Credentials = <<>> \/ t = Credentials
<1>1. SUFFICES ASSUME Credentials # <<>> PROVE t = Credentials
  OBVIOUS
<1>2. /\ WellFormed(Credentials)
      /\ user = Before(Credentials) /\ password = After(Credentials)
  BY <1>1 DEF Configured
<1>3. HasColon(t) /\ Before(t) = user /\ After(t) = password
  BY <1>2 DEF Authorized, Open, WellFormed
<1>4. t \in Seq(Chars)
  BY AccessAssumption DEF AccessAssumption
<1>5. t = user \o <<Colon>> \o password
  BY <1>3, <1>4, CutApart
<1>6. Credentials = user \o <<Colon>> \o password
  BY <1>2, CredentialsType, CutApart DEF WellFormed
<1>7. QED
  BY <1>5, <1>6

\* So does a SOCKS5 client, whose fields are compared one by one.
LEMMA SOCKS5Match ==
  ASSUME Inputs, Configured, stage = "listening", Credentials # <<>>
  PROVE  ~Open /\ user \o <<Colon>> \o password = Credentials
BY CredentialsType, CutApart DEF Configured, WellFormed, Open

\* Configure gives the server the two parts of what was written.
LEMMA InvStep ==
  ASSUME AInv, [Next]_vars
  PROVE  AInv'
<1> USE DEF AInv, Inputs
<1>1. ASSUME Configure PROVE AInv'
  <2>1. Credentials' = Credentials /\ Inputs' /\ ~served' /\ sent' = None
    BY <1>1 DEF Configure, Credentials, arguments
  <2>2. Configured'
    <3>1. CASE Credentials = <<>> /\ UNCHANGED config
      BY <1>1, <2>1, <3>1 DEF Configure, Configured, config
    <3>2. CASE Credentials # <<>> \/ ~UNCHANGED config
      BY <1>1, <2>1, <3>2 DEF Configure, Configured
    <3>3. QED
      BY <3>1, <3>2
  <2>3. QED
    BY <1>1, <2>1, <2>2 DEF Configure, OwnClientsOnly
<1>2. ASSUME Refuse \/ StartFails PROVE AInv'
  BY <1>2 DEF Refuse, StartFails, Configured, OwnClientsOnly, Credentials,
              arguments, config, Presented
<1>3. ASSUME Start PROVE AInv'
  BY <1>3 DEF Start, Configured, OwnClientsOnly, Credentials, Permitted,
              arguments, config
<1>4. ASSUME NEW t \in Texts \cup {None}, HTTPRequest(t) PROVE AInv'
  <2>1. /\ Inputs' /\ Configured' /\ Permitted' /\ stage' = "listening"
        /\ Credentials' = Credentials /\ host' = host /\ allowRemote' = allowRemote
    BY <1>4 DEF HTTPRequest, Configured, Credentials, Permitted, arguments, config
  <2>2. SUFFICES ASSUME served' PROVE OwnClientsOnly'
    BY <2>1 DEF OwnClientsOnly
  <2>3. Authorized(t) /\ Permitted /\ stage = "listening"
    BY <1>4, <2>2 DEF HTTPRequest
  <2>4. CASE Credentials = <<>>
    BY <2>1, <2>3, <2>4 DEF Configured, Permitted, OwnClientsOnly, WellFormed, HasColon
  <2>5. CASE Credentials # <<>>
    <3>1. t \in Texts
      BY <2>3, <2>5, SOCKS5Match DEF Authorized
    <3>2. t = Credentials
      BY <2>3, <2>5, <3>1, HTTPMatch
    <3>3. Presented' = t
      BY <1>4, <3>1, AccessAssumption DEF HTTPRequest, Presented, AccessAssumption
    <3>4. QED
      BY <2>1, <2>3, <2>5, <3>2, <3>3 DEF Permitted, OwnClientsOnly
  <2>6. QED
    BY <2>4, <2>5
<1>5. ASSUME NEW u \in Fields, NEW p \in Fields, SOCKS5Request(u, p) PROVE AInv'
  <2>1. /\ Inputs' /\ Configured' /\ Permitted' /\ stage' = "listening"
        /\ Credentials' = Credentials /\ host' = host /\ allowRemote' = allowRemote
    BY <1>5 DEF SOCKS5Request, Configured, Credentials, Permitted, arguments, config
  <2>2. SUFFICES ASSUME served' PROVE OwnClientsOnly'
    BY <2>1 DEF OwnClientsOnly
  <2>3. /\ Open \/ (u = user /\ p = password)
        /\ Permitted /\ stage = "listening"
    BY <1>5, <2>2 DEF SOCKS5Request
  <2>4. CASE Credentials = <<>>
    BY <2>1, <2>3, <2>4 DEF Configured, Permitted, OwnClientsOnly, WellFormed, HasColon
  <2>5. CASE Credentials # <<>>
    <3>1. u \o <<Colon>> \o p = Credentials
      BY <2>3, <2>5, SOCKS5Match
    <3>2. Presented' = u \o <<Colon>> \o p
      BY <1>5 DEF SOCKS5Request, Presented
    <3>3. QED
      BY <2>1, <2>3, <2>5, <3>1, <3>2 DEF Permitted, OwnClientsOnly
  <2>6. QED
    BY <2>4, <2>5
<1>6. CASE UNCHANGED vars
  BY <1>6 DEF vars, arguments, config, Configured, OwnClientsOnly, Credentials,
              Permitted, Presented
<1>7. QED
  BY <1>1, <1>2, <1>3, <1>4, <1>5, <1>6 DEF Next

\* Both listeners serve the operator's own clients.
LEMMA ServedStep ==
  ASSUME AInv, OwnClientsServed, [Next]_vars
  PROVE  OwnClientsServed'
<1> USE DEF AInv, Inputs
<1>1. ASSUME Configure \/ Refuse \/ Start \/ StartFails PROVE OwnClientsServed'
  BY <1>1 DEF Configure, Refuse, Start, StartFails, OwnClientsServed
<1>2. ASSUME stage = "listening", ~Open
      PROVE  /\ WellFormed(Credentials) /\ Credentials \in Seq(Chars)
             /\ user = Before(Credentials) /\ password = After(Credentials)
  BY <1>2, CredentialsType DEF Configured, Open
<1>3. ASSUME NEW t \in Texts \cup {None}, HTTPRequest(t) PROVE OwnClientsServed'
  <2>1. CASE t = None
    BY <1>3, <2>1 DEF HTTPRequest, OwnClientsServed
  <2>2. CASE t # None
    <3>1. SUFFICES ASSUME Presented' = Credentials', ~served' PROVE FALSE
      BY DEF OwnClientsServed
    <3>2. Presented' = t /\ Credentials' = Credentials
      BY <1>3, <2>2 DEF HTTPRequest, Presented, Credentials, arguments
    <3>3. ~Authorized(Credentials) /\ stage = "listening" /\ Credentials # None
      BY <1>3, <2>2, <3>1, <3>2 DEF HTTPRequest
    <3>4. QED
      BY <1>2, <3>3 DEF Authorized, WellFormed
  <2>3. QED
    BY <2>1, <2>2
<1>4. ASSUME NEW u \in Fields, NEW p \in Fields, SOCKS5Request(u, p)
      PROVE  OwnClientsServed'
  <2>1. SUFFICES ASSUME Presented' = Credentials', ~served', ~HasColon(u) PROVE FALSE
    BY <1>4 DEF OwnClientsServed, SOCKS5Request
  <2>2. Presented' = u \o <<Colon>> \o p /\ Credentials' = Credentials
    BY <1>4 DEF SOCKS5Request, Presented, Credentials, arguments
  <2>3. stage = "listening" /\ ~Open /\ ~(u = user /\ p = password)
    BY <1>4, <2>1 DEF SOCKS5Request
  <2>4. u \in Seq(Chars) /\ p \in Seq(Chars)
    BY AccessAssumption DEF AccessAssumption, Fields
  <2>5. u = Before(Credentials) /\ p = After(Credentials)
    BY <1>2, <2>1, <2>2, <2>3, <2>4, CutJoined
  <2>6. QED
    BY <1>2, <2>3, <2>5
<1>5. CASE UNCHANGED vars
  BY <1>5 DEF vars, arguments, OwnClientsServed, Presented, Credentials
<1>6. QED
  BY <1>1, <1>3, <1>4, <1>5 DEF Next

\* Whatever the operator writes and clients send, nobody else is served.
THEOREM OthersRefused == Spec => []OwnClientsOnly
<1>1. Init => AInv
  BY DEF Init, AInv, Inputs, Configured, OwnClientsOnly
<1>2. AInv /\ [Next]_vars => AInv'
  BY InvStep
<1>3. AInv => OwnClientsOnly
  BY DEF AInv
<1>4. QED
  BY <1>1, <1>2, <1>3, PTL DEF Spec

\* The operator's own clients always are, colons in the password included.
THEOREM OwnersServed == Spec => []OwnClientsServed
<1>1. Init => AInv /\ OwnClientsServed
  BY DEF Init, AInv, Inputs, Configured, OwnClientsOnly, OwnClientsServed
<1>2. AInv /\ OwnClientsServed /\ [Next]_vars => AInv' /\ OwnClientsServed'
  BY InvStep, ServedStep
<1>3. QED
  BY <1>1, <1>2, PTL DEF Spec
=============================================================================
