# A formal model of multi-isp-proxy

These TLA+ modules model multi-isp-proxy, a local HTTP/SOCKS5 proxy that spreads
outbound connections over several network interfaces and, on Windows, points the
user's system proxy at itself while it runs. TLC checks the modules on small
instances; TLAPS proves their safety for every instance. Paths
below are relative to the repository.

## The system

| Component | State | Operations | Talks to |
|---|---|---|---|
| `internal/sysproxy` manager | `active`, `backup`, the journal file, the registry values | `Recover`, `Begin`, `Restore`, `Active` | registry, file system; called by session and main |
| `internal/instance` | the lock file | `Acquire`, `Release` | other launches, through the file only |
| `internal/balancer` | round-robin `index` | `Candidates`, `Next` | health flags of the interfaces |
| `internal/netif` | health flag and byte counters of each interface | `Discover`, `SetAlive`, `MonitorWithChecker` | flags are read by the balancer, set by dials and probes |
| `internal/proxy` server | listeners, context, `active`, counters, `runErr`, idle connections of the transport, credentials | `Start`, `Stop`, `Wait`, CONNECT, forwarding, `authorized`, `GetStats` | balancer, `net/http`, a SOCKS5 library |
| `internal/app` session | `started`, `serverStopped`, `stopped` | `Start`, `Stop`, `Wait` | server, sysproxy, monitor |
| `internal/tui` | phase, error, `cleanupPending`, the shared `lifecycleState` | key handlers, `startProxy`, `Cleanup` | session |
| `cmd/multi-isp-proxy` | exit code, log file, credentials | `run`, `loadCredentials` | all of the above, in order |

What is hard in this program:

- *Crashes.* The system-proxy settings are three registry values written one at a
  time, with a journal on disk. The process may die, and each call may fail,
  between any two writes; the next launch has to make sense of what it finds.
  The lock file has the same problem on a smaller scale.
- *Other actors.* The user and other programs edit the same registry values.
  Several launches share one lock file, with system calls interleaved.
- *Concurrency.* Handlers, dials, the transport, the goroutine watching the
  context, `Stop` and the goroutine serving HTTP all act on the server's
  connections; probes, dials and the balancer act on the health flags.
- *The same thing said twice.* Credentials are cut at a colon by main, again for
  each HTTP request, and compared as two fields by SOCKS5; what one check relies
  on, another has refused earlier.
- *Retries.* A failed start, rollback or restore is retried by the session, by a
  cleanup and by main, and each of them decides who still owns the settings.

`PROJECT.json` lists the components, the hazards with their lines, and what each
definition models.

## The modules

| Module | Models | State |
|---|---|---|
| `SystemProxy` | the settings transaction: `Manager`, `Enable`, `Restore` | registry `reg`, `journal`, `active`, `backup`, the routine in progress `op` and its write number `step` |
| `BackupLog` | abstract: one slot that remembers settings | `inForce`, `saved` |
| `InstanceLock` | `Acquire` and `Release` of many launches | the `file`, and `pc`, `pid`, `seen`, `attempt` of each launch |
| `Launches` | extends `InstanceLock` with what `run` does under the lease: recover, begin, restore, clean up, for many launches sharing one set of settings | `stage`, `owns` of each launch, the `journal` |
| `Balancer` | `RoundRobin` and `Failover` | flags `alive`, `index`, and the call of `Candidates` in progress |
| `Dialing` | extends `Balancer` with `dialWithBalancer` and the monitor | links, probes, and each dial's remaining candidates and spent time |
| `ProxyServer` | `Start`, CONNECT, `closeResources`, `Stop`, the counters | open and tracked connections, counters, where each goroutine is |
| `Forwarding` | extends `ProxyServer` with `handleForward` and the `http.Transport` it uses | each request's stage and connection, the pool of idle ones |
| `Access` | credentials from `loadCredentials` to `authorized` and the SOCKS5 library, `validateListenerSecurity` | what the operator wrote, `user`, `password`, the last login and its outcome |
| `Application` | extends `SystemProxy` with session, interface and main | phase, session, cleanup state, server, exit code |

Theorems are in modules of their own: `SystemProxyProofs`, `LeaseProofs` (of
`InstanceLock` and `Launches`), `BalancerProofs`, `DialingProofs`,
`ProxyServerProofs`, `ForwardingProofs`, `AccessProofs` and `ApplicationProofs`.

Every module `M` with runs has an `MCM` module and `MCM*.cfg` files. Operators
whose comment calls them a *faulty variant* stand before the definition they
vary. No specification uses them: each is a bug the code could plausibly have,
and the property `PROJECT.json` pairs it with fails once it takes the
definition's place. They show that the property depends on that line of code.

### SystemProxy

`Manager.mu` serialises the calls and main runs `Recover` first, so one routine
is in progress at a time. Each registry write, the notification, the
installation of the journal and its removal are steps of their own. Between any
two of them the process may be killed (`Crash`), the operation may fail, and
other programs may edit (`ExternalEdit`). Strings are members of `Servers` and
`Overrides`; a missing value is `Absent`. `orig` remembers what the user chose
last, `interfered` whether somebody edited during an open transaction, `edited`
which fields were edited while the process was down. No guard of the program
reads them. `Exit` assumes that main never returns with a transaction open
unless `Restore` failed; `Application` checks that assumption
(`ExitOnlyAfterFailure`).

### InstanceLock

Every launch is a process; the launch also stands for the token in its record,
so a recycled process ID does not make two records equal. All interleavings of
the launches' system calls are allowed. `overlapped` is history: it records
whether a launch ever started while another was inside `Acquire`, since the code
keeps its promises up to that moment (and, by `SimultaneousExclusion`, after it
too, until a launch has left a stale lease behind). Reading is atomic: the record
is one short write.

### Launches

The proxy settings have no lock: only the lease, and the order of `run`, keep two
processes from undoing each other's transaction. `Launches` puts the two
together. `SystemProxy` has the single writes; here `Begin`, `Restore` and
`Recover` are one step each, with their failures, and the journal is known by the
launch whose settings it undoes. A launch may crash anywhere, with the journal on
disk and the lease in the file.

### Balancer and Dialing

`Look` reads one health flag per step, so flags change during a call of
`Candidates`. `roundRobin` is the strategy the session was started with; it is
chosen in the initial state and one run covers both. `wait` and `due` are history
for the fairness statements. In `Dialing`, time is the number of attempts that ran
into their own timeout; the dial's budget is `DialTimeout / DialAttemptTimeout`,
three by default.

### ProxyServer

A handler has a client and a target connection. `closer` follows the two runs of
`closeResources`, by the watcher of the context and by `Stop`. The copy of the
tracked connections, the closing of the listener and the closing of each copied
connection are separate steps, since the lock is released in between. The HTTP
listener stands for both listeners.

`http.Server.Close` leaves hijacked connections alone, which is what `Hijacked`
is about. `closeResources` also closes the transport's idle connections, of which
`ProxyServer` has none.

### Forwarding

Forwarded requests are never in the server's active set. Their connections belong
to `http.Transport`, which is not in the repository and is modelled from how the
server uses it: a dial runs in a goroutine of its own and survives the request
that asked for it, a connection goes to a waiting request or to the pool, and
`CloseIdleConnections` closes the pool and what becomes idle later, until the
next request asks for a connection. `PutIdle` is that choice. The module adds its
steps to those of `ProxyServer`, whose handlers outside `Forwards` still run
tunnels.

### Access

Texts are sequences of characters; all that matters of a character is whether it
is a colon or a blank. `Trim`, `Before` and `After` are `strings.TrimSpace` and
`strings.Cut`. Base64 and the name of the scheme are left out. The SOCKS5 library
is external: given credentials it compares two fields, each as long as the
protocol can carry (`FieldMax`).

### Application

Bubble Tea delivers messages one after the other, so one handler runs at a time
(`task`). A handler that calls `Begin` or `Restore` waits for the steps of
`SystemProxy`. `tea.Quit` is a message: keys before it are still handled. The
server may die on its own at any moment, before or after somebody waits for it.
Cursor movement, the selection and the mode are left out, as they change nothing
outside the interface.

## The runs

All runs use at most four processes, three interfaces or two handlers.

| Run | Result | Distinct states | Shows |
|---|---|---|---|
| `MCSystemProxy` | passes | 645,978 | crashes or failures and edits at any point: the user's settings stay recoverable, ownership and journal agree, return values are honest, foreign edits survive recovery |
| `MCSystemProxy_fair` | passes | 31,110 | the transaction implements `BackupLog`; once faults are over, recovery completes |
| `MCLaunches` | passes | 236,525 | exclusion through crashes, failures and recycled IDs until launches overlap; a free path after the removal of a stale lease; and with the exclusion that no launch touches the settings another one works with; exclusion of overlapping launches until one has ended |
| `MCBalancer` | passes | 4,832 | turns and even shares of round robin, every interface a candidate once, priority order of failover |
| `MCDialing` | passes | 105,632 | no false outage with as many interfaces as timeouts fit; flags converge |
| `MCProxyServer` | passes | 381,444 | exact counters, no leaked connection, `Stop` closes what ran |
| `MCForwarding` | passes | 49,942 | every connection of the transport has one owner and is counted once; `Stop` returns, and what it did not close is closed later |
| `MCAccess` | passes | 124,278 | both listeners serve those who send what the operator wrote, and nobody else |
| `MCApplication` | passes | 351,670 | ownership across retries, true exit code, the listener open before the settings point at it and closed before they go back, no dead server left in force |
| `MCSystemProxy_refused` | violation | | recovery refuses its own half-finished restore when the user's proxy was on |
| `MCInstanceLock_race` | violation | | two launches that judged the same lease stale both hold it |
| `MCProxyServer_tunnels` | violation | | a tunnel registered after the last copy survives `Stop` |

The violations are statements of the repository's documents or comments that the
code does not keep; `PROJECT.json` quotes each. The models show more limits
of the code, which the properties above are stated around:

- The time of a dial allows for three timeouts, by default. With a fourth
  interface the last candidate is not tried when the first three time out, as
  `docs/architecture.md` allows ("bounded overall timeout"); `NoFalseOutage` is
  about dials whose time is enough for one attempt at each.
- A SOCKS5 login carries fields of at most 255 bytes, so a client of that
  listener cannot send longer credentials, which `loadCredentials` accepts. And
  it must take everything up to the first colon for the user.
- When the user's own proxy is on, the first write of `Enable` redirects traffic
  already, with the user's bypass list still in place (`OnMeansComplete` is about
  users whose proxy was off).
- Recovery compares field by field, so an edit after a crash that happens to equal
  the saved or the managed value of its field is taken for the transaction's own
  (`ForeignEditSpared` is about other values).
- A launch killed between creating the lock file and writing its record leaves a
  file no later `Acquire` can judge or remove, as does one whose `create` could
  neither write the record nor remove the file; and a process that was given the
  dead holder's ID makes a stale lease look held. Therefore `OneRemovalSuffices`
  promises nothing to a launch that has not yet found a stale lease: it says that
  after its one removal only a failing call or its own death can keep the lease
  from it.
- A journal that could not be removed after a successful restore is forgotten: the
  next cleanup finds nothing active and the exit code is 0. The next launch
  removes the journal.

### Bounds

- `MaxFaults` bounds crashes and failed operations together. Two suffice for the
  transaction's safety (a failed write whose rollback is cut short); the fair run
  has three, so that the recovery of that failure can fail as well.
  `MCApplication` has four: a failed enable, a failed rollback and the two failed
  retries of one start are needed before `cleanupPending` is set.
- `MaxEdits` bounds edits by other programs, two in the runs of the transaction;
  one in `MCApplication`. One edit is any change of any fields.
- Servers and overrides have two or three values: the managed one, the user's,
  and the missing value. More strings would only rename the user's.
- Four launches with three process IDs give a recycled ID, a stale lease and two
  live launches at the same time, one of them in the middle of a transaction.
- Two handlers give a handler in every stage next to one that is being closed;
  two forwarded requests give one that gets the connection the other's dial made.
  Each makes one request and at most one dial.
- Two interfaces with time for two attempts reach the boundary of the dial's
  time. Three interfaces are the fewest among which round robin can skip a turn.
  `MaxOutages` bounds changes of the links, not of the flags. `Turn`, `Even` and
  `NoFalse` show that more interfaces add nothing.
- `MCAccess` has every text of up to three characters, which is enough for a user,
  a colon and a password with blanks or colons around and in them, and five longer
  ones. `FieldMax` is 2, so that some logins are too long for SOCKS5.
- `attempt` and `step` are bounded by the code.

### Fairness

Fairness is assumed where the code keeps running without anybody's help: a call
in progress takes its next step, a goroutine runs on, probes come back (each has
dial timeouts), dials end and idle connections expire (both have timeouts), the
ticker fires while the session is not stopped, `tea.Quit`
and the server's error message are delivered. It is never assumed of the user,
of crashes and edits, of a client or target, which may say nothing for ever, or
of a broken listener. `MCSystemProxy_fair` also assumes that the program is launched again.

## The proofs

The proof modules prove, for all values of the constants allowed by the
assumptions in the modules, what the runs check on instances. The only
assumptions are those on the constants, which TLC evaluates in every run, and the
conditions of `Refinement` and `NoFalse` named below.

*System proxy.* `IInv` is inductive. `Control` says what each routine may rely
on where it stands (in `enable` a journal exists, its backup is the one in
memory, and so on). `Claim` says that the journal's backup is what the user
chose unless somebody interfered, and that without a journal the registry is
the user's. `Enabled` says that a proxy which the application switched on has
both managed values. `Progress` says which fields already have their final
value after each write. `JournalCovers` alone is not inductive: it says nothing
about `backup` or about how far a routine has come, which is what makes the last
write of a restore return to the user's settings. There is one lemma per part,
with one step per action, and the theorems follow from `Invariance`.
`Refinement` shows that without edits during a transaction (`~Interference`)
every step is a step of `BackupLog` or leaves its variables unchanged.
`OthersEditsSpared` rests on `Recognised`: what recovery has still to overwrite it
has compared, and a field edited since, or written by it, is no longer one that
was edited while the process was down. `RecoversFirst` follows `Recover` itself:
it lets the program go on only without a journal, with the user's settings.

`CallsEnd` is the safety half of "every call ends". `Left` is the number of steps
a call may still take: at most 11 for a `Begin` that rolls back, 7 for a recovery,
6 for a restore. Each step of the call lowers it, a failed operation included, and
nothing that happens meanwhile raises it. That a step is taken at all is fairness,
and stays with TLC.

*Instance lock.* `IInv` is the type invariant, a bound on the rounds, and, as long
as no launches have overlapped, `Lease`: at most one launch is in `Acquire`, an
owner's file is on disk, a record's author has started, a launch about to remove a
lease found nobody alive behind it, and the round after a removal finds no file,
which is `OneRemovalSuffices`. Mutual
exclusion needs the verdict part: without it nothing links the record read earlier
to the file removed later. The condition `~overlapped` is necessary:
`MCInstanceLock_race` shows that without it the exclusion fails. `Simultaneous`
needs no such condition but ends with the first launch that ends; its invariant is
`Together`: nobody removes a file while every author of one is alive.

*Launches.* `WorkImplementsLease` shows that every step of `Launches` is a step of
`InstanceLock` or leaves its variables alone, so that the theorems about the lease
hold of it (`WorkKeepsLease`). `WithLease` says that a launch which works with the settings holds
the lease. A second launch at work would contradict `MutualExclusion`, which
leaves the steps of one launch to check for `TransactionSpared`.

*Balancer.* The measure is `Ahead(i)`, the number of interfaces round robin looks
at before `i`. A call that passes `i` over chooses an interface ahead of `i` and
moves `index` behind it, so `wait[i] + Ahead(i)` never grows beyond `N - 1`
(`Turn`), and the interfaces that are due before `i`'s next turn are ahead of it
(`Even`). That the chosen interface is the first live one of the order needs
`Scanned`, what a call in progress knows of the flags it has read, since the flags
themselves have changed meanwhile. For `Priority`, `NoneLost` says that what was
looked at is in one of the two lists, and round robin comes to every interface by
its `Ahead`-th look; in failover both lists ascend (`InOrder`).

*Dialing.* `DialsBalance` shows that the composition with dials and probes
implements `Balancer`: a flag set to what it was is a stutter, any other change is
a `Flip`. So the theorems above hold while dials and probes set flags. `NoFalse`
assumes `N <= Budget`; its invariant `Used` says that a dial gives up a candidate
with every timeout. It needs the composition: that a dial gets `N` candidates
is `Scanned` of the balancer. `DialsTakeTurns` restates the balancer's theorems
for the composition.

`DialsEnd` bounds a dial: `3N + 5` steps at most, for the looks under the mutex and
two for each candidate. `HealthStays` is the lasting part of `HealthConverges`: once
the flag agrees with the link, with the answer on its way and with the dials about
to mark the interface (`Agreed`), it keeps agreeing while the link and the session
last. All parts of `Agreed` are needed: a dial connected before the link went down
may mark the interface afterwards. That this state is reached is liveness.

*Proxy server.* A connection is opened by its handler only, and anybody may close
it. `Settled` says, for each place of a handler, which of its two connections
are surely closed or surely tracked, and that only connections once tracked are in
a closer's copy. `ExactCounters` follows from `Counting`, by the cardinality of
the set of handlers whose target is open. `Stopping` follows `Stop` through its
steps: whatever was a tunnel when it was called is tracked, then in its copy, then
closed. `ClosingEnds` shows that a run of `closeResources` has a bounded number of
steps (`ClosingLeft`): those of the copy count once, and what handlers track after
it was taken is not added.

*Forwarding.* The server's `IInv` goes on to hold beside the transport, because a
forwarded request tracks nothing and never closes the connection of a tunnel:
`ForwardStep` and `PoolStep` say what each step of the transport may do to the
connections. So the theorems about tunnels and counters hold of both together
(`TunnelsBesideForwards`, `ForwardCounters`, `ForwardClosingEnds`). The transport
adds `Owned`: a connection is in the pool or with a request exactly while it is
open and its dial is over, and no two requests have the same. `Held`, the left side
of that, is what makes `OneOwner` inductive. The counter needs one more argument,
for `CloseIdleConnections` subtracts the size of the pool at once: every connection
of the pool is counted.

*Access.* Both directions rest on what a cut is: a text with a colon is its part
before the first colon, a colon, and the rest, and it is the only such pair whose
first part has no colon. Then two texts that are cut into the same parts are the
same text (`OthersRefused`), and the same text is cut into the same parts
(`OwnersServed`).

*Application.* `AppImplementsTransaction`: handlers, session and main only call the
operations of `SystemProxy`, so the theorems above hold of the program, whatever
it calls and when. `AInv` adds what they promise: `Calls` says which routine can be
in progress for the handler that waits for it, `Owned` that what is open has a
session to close it, and `Phase` that the interface cannot start another one
meanwhile. The last needs `pending`: after a failed rollback the interface is back
in the confirmation phase, and only `cleanupPending` keeps it from starting again.
`AppKeepsTransaction` states what the program inherits from the transaction.
`BoundFirst` is about single registry writes: those of `Enable` happen in the
handler of a session whose listener was bound, those of the session's `Restore`
in two places, behind the closing of the listener.

`RunsAsLaunch` joins the two compositions. `Launches` gives a launch single steps
`Recover`, `Begin`, `Restore` and `Leave`; under the mapping `AsLaunch` every step
of `Application`, with each registry write and each failure, is one of them, the end
of the process, or invisible. A run counts as owner until the attempt to remove its
journal is over: that is where `Launches` has its one step `Restore`. So what
`TransactionsApart` says of launches it says of what a launch really does.

Only model-checked are the liveness properties (`EventuallyRecovered`, `StopEnds`,
`StopDrains`, `HealthConverges`, `DeadServerReleased`): liveness under fairness is
out of the prover's reach. `CallsEnd`, `ClosingEnds` and `DialsEnd` prove the part of
them that is safety, a measure that each step lowers; that some step is enabled and
taken is what TLC adds.

## Not modelled

- What survives a power loss: the journal's directory is not synced, and the
  registry is flushed by the system when it likes. `Crash` keeps both.
- `Current` reads three values one after the other; an edit in between mixes old
  and new values in one backup.
- Deleting a file that another process has open, which Windows may refuse; a
  refused delete is covered as a failure, its cause is not.
- The transport's limits on how many idle connections it keeps: they close some
  connections earlier than `IdleExpires`. When `Serve` returns, the cancellation
  and the closing of `done` are one step of `ProxyServer`.
- SOCKS5 sessions: they belong to a library and are in no state of the
  repository. Their dials are those of `Dialing`, their logins are in `Access`.
- What `removeHopByHopHeaders` and `normalizeTarget` do to one request: pure
  string functions without state. (`removeHopByHopHeaders` reads only the first
  `Connection` line of a request that has several.)
- The defaults of the server's timeouts, of which `Dialing` keeps the ratio that
  matters; the byte counters, which are atomic additions for the view to read.
- Rotation of the log file: nothing in the program reads it. It happens before the
  lease is taken, so two launches may rotate it together and lose the older log.
- Discovery of interfaces, which is one pass over what the system lists, and
  rendering. Two details of the view differ from what it shows: while stopping, the
  settings are displayed as restored even if `Cleanup` failed, and a count just
  under a unit is printed as 1024.0 of the smaller one.

## Plan

1. `SystemProxy`, `BackupLog`, `InstanceLock`, `Balancer`, `Dialing`,
   `ProxyServer`, `Application`, and proofs for the first three (done).
2. `Launches`, `Forwarding`, `Access`; proofs for the rest (done).
3. `Application` as a launch of `Launches`; measures for calls, dials and
   `closeResources` (done).
4. A measure for a forwarded request, for the safety half of `StopDrains`.
5. A torn `Current`, and a crash that loses what was not yet on disk.
