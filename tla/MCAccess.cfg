\* A loopback and a remote address, and logins longer than SOCKS5 can carry.
CONSTANTS
  a = a
  b = b
  Colon = Colon
  Blank = Blank
  Chars <- MCChars
  Texts <- MCTexts
  None = None
  Hosts = {local, lan}
  Loopback = {local}
  FieldMax = 2
SPECIFICATION Spec
\* A start that is refused ends the program.
CHECK_DEADLOCK FALSE
INVARIANTS
  OwnClientsOnly
  OwnClientsServed
