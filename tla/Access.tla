------------------------------- MODULE Access -------------------------------
(***************************************************************************)
(* Who may use the proxy.  The operator names an address and, in a file or *)
(* in the environment, "username:password".  main splits that once; Start  *)
(* accepts or refuses the listeners; HTTP clients send the two parts as    *)
(* one text, which authorized splits again, and SOCKS5 clients send them   *)
(* as two fields of at most 255 bytes to the library.                      *)
(*                                                                         *)
(* A text is a sequence of characters.  Base64 and the name of the Basic   *)
(* scheme are left out: an HTTP client sends a text, or none.              *)
(***************************************************************************)
EXTENDS Naturals, Sequences

CONSTANTS
  Chars, Colon, Blank,
  Texts,      \* what the operator and the clients can write
  None,       \* no file, or no credentials that can be read
  Hosts,      \* hosts of the listen address
  Loopback,   \* those that are a loopback address, or "localhost"
  FieldMax    \* the longest field of a SOCKS5 login, 255

ASSUME AccessAssumption ==
  /\ Colon \in Chars /\ Blank \in Chars /\ Colon # Blank
  /\ \A t \in Texts : t \in Seq(Chars)
  /\ None \notin Texts
  /\ Loopback \subseteq Hosts
  /\ FieldMax \in Nat

VARIABLES
  host, allowRemote, file, env,  \* what the operator asks for
  stage,                         \* how far run is
  user, password,                \* Config.Username and Config.Password
  socks,                         \* is the SOCKS5 listener up?
  sent,                          \* the last client's login
  served                         \* was the client served?

arguments == <<host, allowRemote, file, env>>
config == <<user, password>>
vars == <<arguments, stage, config, socks, sent, served>>

Init ==
  /\ host \in Hosts /\ allowRemote \in BOOLEAN
  /\ file \in Texts \cup {None} /\ env \in Texts
  /\ stage = "start"
  /\ user = <<>> /\ password = <<>>
  /\ socks = FALSE /\ sent = None /\ served = FALSE

-----------------------------------------------------------------------------
\* strings.TrimSpace
Trim(t) ==
  LET Solid == { i \in DOMAIN t : t[i] # Blank }
      first == CHOOSE i \in Solid : \A j \in Solid : i <= j
      last  == CHOOSE i \in Solid : \A j \in Solid : j <= i
  IN  IF Solid = {} THEN <<>> ELSE SubSeq(t, first, last)

\* strings.Cut at the first colon
HasColon(t) == \E i \in DOMAIN t : t[i] = Colon
FirstColon(t) ==
  CHOOSE i \in DOMAIN t : t[i] = Colon /\ \A j \in 1..(i - 1) : t[j] # Colon

Before(t) == SubSeq(t, 1, FirstColon(t) - 1)

\* Faulty variant: the last colon ends the text that is kept.
AfterLast(t) ==
  LET last == CHOOSE i \in DOMAIN t :
                t[i] = Colon /\ \A j \in (i + 1)..Len(t) : t[j] # Colon
  IN  SubSeq(t, last + 1, Len(t))

After(t) == SubSeq(t, FirstColon(t) + 1, Len(t))

\* loadCredentials, when file and environment do not contradict each other
Credentials == IF file = None THEN env ELSE Trim(file)
Contradiction == file # None /\ env # <<>>

\* parseCredentials
WellFormed(t) == HasColon(t) /\ Before(t) # <<>> /\ After(t) # <<>>

Configure ==
  /\ stage = "start" /\ ~Contradiction
  /\ \/ Credentials = <<>> /\ UNCHANGED config
     \/ /\ WellFormed(Credentials)
        /\ user' = Before(Credentials) /\ password' = After(Credentials)
  /\ stage' = "configured"
  /\ UNCHANGED <<arguments, socks, sent, served>>

\* run returns 2, also when the file cannot be read.
Refuse ==
  /\ stage = "start"
  /\ \/ file # None
     \/ env # <<>> /\ ~WellFormed(env)
  /\ stage' = "ended"
  /\ UNCHANGED <<arguments, config, socks, sent, served>>

-----------------------------------------------------------------------------
\* Faulty variant: opting in is enough.
PermittedByFlag == host \in Loopback \/ allowRemote

\* validateListenerSecurity
Permitted ==
  host \in Loopback \/ (allowRemote /\ user # <<>> /\ password # <<>>)

\* The HTTP listener is bound.  There may be no SOCKS5 listener: the port
\* above is taken, or there is none.
Start ==
  /\ stage = "configured" /\ Permitted
  /\ stage' = "listening"
  /\ socks' \in BOOLEAN
  /\ UNCHANGED <<arguments, config, sent, served>>

StartFails ==
  /\ stage = "configured"
  /\ stage' = "ended"
  /\ UNCHANGED <<arguments, config, socks, sent, served>>

Open == user = <<>> /\ password = <<>>

\* authorized
Authorized(t) ==
  Open \/ (t # None /\ HasColon(t) /\ Before(t) = user /\ After(t) = password)

HTTPRequest(t) ==
  /\ stage = "listening"
  /\ sent' = IF t = None THEN None ELSE [via |-> "HTTP", text |-> t]
  /\ served' = Authorized(t)
  /\ UNCHANGED <<arguments, stage, config, socks>>

\* The library compares the fields, if it was given credentials; otherwise it
\* serves a client that, whatever else it offers, offers to go without.
SOCKS5Request(u, p) ==
  /\ stage = "listening" /\ socks
  /\ sent' = [via |-> "SOCKS5", user |-> u, password |-> p]
  /\ served' = (Open \/ (u = user /\ p = password))
  /\ UNCHANGED <<arguments, stage, config, socks>>

Fields == { t \in Texts : Len(t) <= FieldMax }

Next ==
  \/ Configure \/ Refuse \/ Start \/ StartFails
  \/ \E t \in Texts \cup {None} : HTTPRequest(t)
  \/ \E u, p \in Fields : SOCKS5Request(u, p)

Spec == Init /\ [][Next]_vars
-----------------------------------------------------------------------------
\* What the client sent, put together as the operator wrote it.
Presented ==
  IF sent.via = "HTTP" THEN sent.text ELSE sent.user \o <<Colon>> \o sent.password

\* README: "Remote mode also requires non-empty credentials, shared by HTTP
\* Basic proxy authentication and SOCKS5".  A client is served, by whichever
\* listener, only if it sent exactly what the operator wrote, or if nothing
\* was written and the listener is loopback; and only on loopback unless the
\* operator opted in.
OwnClientsOnly ==
  served =>
    /\ host \in Loopback \/ allowRemote
    /\ IF Credentials = <<>> THEN host \in Loopback ELSE Presented = Credentials

\* A client that sends what the operator wrote is served, colons in the
\* password and blanks around the file's text included.  A SOCKS5 client
\* takes everything up to the first colon for the user.
OwnClientsServed ==
  sent # None /\ Presented = Credentials
    => served \/ (sent.via = "SOCKS5" /\ HasColon(sent.user))
=============================================================================
