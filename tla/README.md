# CamoFox: formal models

TLA+ models of CamoFox, a tethering kit made of three programs that never share
a process: an OpenWrt **router plugin** (shell scripts around iptables,
redsocks, UCI and procd), a SOCKS5/HTTP **proxy on the phone** (Python, asyncio
and threads) and a **Mac command line tool** (bash, with a Python helper).  The
proxy resolves names with a copy of **dnspython** in `src/dns`, most of the
repository's code.  TLC checks the models on small instances; TLAPS proves the
most important facts for every instance.

## 1. Inventory

### Router plugin (`src/camofox-router/files`)

| Part | State it keeps | Operations | Talks to |
|---|---|---|---|
| `etc/camofox/firewall.rules` | iptables rules and chains | `apply`, `remove`, `kill_on`, `kill_off` | called by init script and monitors; reads UCI |
| `etc/camofox/health_check.sh` | `fail_count`; `/tmp/camofox_proxy_state`; `/var/run/camofox_health.pid` | monitor loop, `stop` | probes the phone; runs `kill_on`/`kill_off` and waits |
| `etc/init.d/camofox` | `/tmp/camofox_redsocks.conf`, the procd instance, dnsmasq's servers | `start`, `stop`, `restart`, `reload` | runs both scripts above |
| `usr/bin/camofox` | UCI | `start`, `stop`, `restart`, `enable`, `disable`, `setup` | init script |
| `etc/hotplug.d/iface/99-camofox` | UCI `proxy_ip` | one script per `ifup` | init script `restart` |
| `scripts/setup-wizard.sh` | UCI | commit, start | command line tool |

What is hard: several shell processes work at once on one packet filter, one
configuration, one state file and one PID file, and take no lock of their own
(procd's lock covers the init script only).  Each loads its own snapshot of UCI.
Scripts are sequences of iptables commands that can be interleaved with those of
another process, and that go on after a command has failed.  A killed monitor
leaves its child running.  Correct means: the redirect never loops and never
outlives redsocks; the kill switch blocks after the threshold, and only then, and
opens again; all parts end up with the same configuration; stop leaves the LAN open.

### Phone (`src/camofox-ios`, `src/lib`)

| Part | State it keeps | Operations |
|---|---|---|
| `camofox_proxy.py` `CamoFoxProxy` | `_running`, `_shutdown_event`, failure count, back-off delay, the WPAD server | `run`, `stop`, restart loop |
| `keepalive.py` | per loop a thread and a stop event; the heartbeat file | `start`, `stop` of six strategies |
| `lib/proxy_server.py` | connections, two forwarders each | connect (IPv6 and IPv4 raced), forward, resolve |
| `lib/socks5_server.py` | handshake state; the UDP relay's map from target to client | `CONNECT`, `UDP ASSOCIATE` |
| `lib/http_proxy_server.py` | request being parsed | `CONNECT`, plain requests |
| `lib/status.py` | counters of traffic and connections | add, remove, render |

What is hard: state used after an `await`, half-closed connections, threads whose
join times out, a supervisor whose servers run in tasks nobody awaits, attempts to
connect and datagrams that are overtaken by what ends them.

### Mac (`src/camofox-mac`)

| Part | State it keeps | Operations |
|---|---|---|
| `camofox-mac.sh` | system proxy settings, state files, the monitor's PID file | `start`, `stop`, monitor |
| `dns-setup.sh` | DNS settings, their backup, the DNS server's PID file | `start`, `stop` |
| `proxy_helper.py` | connections, two pipes each, a semaphore and counters | connections; started by nothing since force mode is refused |

What is hard: backup and restore over repeated starts, errors under `set -e` half
way through, a PID file that names the wrong process, a restart of the Mac.

### dnspython (`src/dns`)

| Part | State it keeps | Operations |
|---|---|---|
| `resolver.py`, `asyncresolver.py` | the nameservers left in the mix and in the round, back-off, lifetime; answer caches shared by threads | `resolve`, `zone_for_name`, `get`, `put`, `flush` |
| `query.py`, `asyncquery.py` | a socket, a deadline, what is sent and read | `udp`, `tcp`, `tls`, `udp_with_fallback`, `inbound_xfr` |
| `quic/` | streams with buffers, events, the manager's table | `connect`, `make_stream`, `send`, `receive`, the worker |
| `zone.py`, `versioned.py`, `transaction.py`, `node.py`, `rdataset.py` | versions of a zone that share nodes, readers, one writer, waiting writers | `reader`, `writer`, operations of a transaction, pruning |
| `xfr.py` | where in an AXFR or IXFR a transfer is | `process_message` |
| `message.py`, `renderer.py`, `wire.py` | the output, its compression table, the space reserved | `add_*`, `to_wire`, `from_wire` |
| `name.py` | none: names never change | text, Unicode, order, canonical form, relativity |
| `tokenizer.py`, `zonefile.py`, `grange.py`, `ttl.py` | what is left of the text; origin, last name, default TTLs | `get`, the getters, `Reader.read`, `to_file` |
| `dnssec.py` | none | `sign`, `validate`, `make_ds`, `nsec3_hash` |
| `rdtypes/` | none | sixty classes that parse and print their fields |

What is hard: retries, timeouts and truncation over lists that shrink; sharing without
copying between threads; buffers that are rolled back; replies in pieces and out of
turn; a parser whose every line depends on what earlier ones left; and numbers, names
and bytes that have several forms which must agree.

`PROJECT.json` lists every component with its status, and every hazard at its line.

### The runs

| Run | Modules | Properties |
|---|---|---|
| `hosts` | Firewall, Keepalive, Supervisor | `RedirectGuarded`, `AppliedExactlyOnce`, `KillOnBlocksAll`, `StoppedIsSilent`, `StartedIsAlive`, `StopEndsLoops`, `CleanShutdown`, `NoRestartAfterStop` |
| `single_monitor` | SingleMonitor | `StateFileTellsTruth`, `ImplementsKillSwitch` |
| `router_ops` | Router | `NoBlackHole`, `ConfigAdopted` |
| `router_kill` | Router | `AtMostOneMonitor`, `LoneStopOpens`, `BlocksOnlyAfterThreshold` |
| `router_restores` | Router | finding: `RouterRestores` |
| `router_stopped` | Router | finding: `StoppedIsOpen` |
| `streams` | Session, Quic, Query, Mac, Helper | `InOrder`, `CleanEndIsComplete`, `NothingLeftOpen`, `ReceivedWhole`, `OnlyItsAnswer`, `NoProxyLeft`, `PutsBackFound`, `AnswerComplete` |
| `quic_timeout` | Quic | finding: `TimeoutKept` |
| `request` | Request | `RemovesListed`, `OneConnection`, `NoStrangers`, `SilentWhenDone`, `RequestEnds` |
| `mac_proxies` | Mac | finding: `ProxiesRestored` |
| `mac_dns` | Mac | finding: `DnsRestored` |
| `dns` | Zone, Stub, Wire, Names, Tokenizer, ZoneFile, Dnssec | twelve, in section 7 |

A run whose modules have nothing to do with each other (`hosts`, `streams`, `dns`) puts
them side by side: the variable `part`, chosen at the start, says whose behaviour it is,
and the variables of the others stay as they began.  That is a union of separate state
spaces, not a product, and each property speaks of its own part.  Each property has a
mutant in `PROJECT.json`: a plausible bug in one definition that makes TLC refute it.

## 2. The router modules

```
Netfilter            packet filter: chains, rules, one iptables command (external)
  Firewall           firewall.rules: four scripts of commands, run by processes
    HealthMonitor    health_check.sh: monitors that run kill_on / kill_off
      SingleMonitor  one monitor left alone      --implements-->  KillSwitch
        SingleMonitor_proof
      Router         init script, command line tool, hotplug, wizard, procd, phone
        Router_proof
MCHosts (with section 3), MCSingleMonitor, MCRouter      instances for TLC
```

**Netfilter** keeps `rules` (a sequence per chain) and `chains`.  A rule is an
interface, a match and a target.  `Execute` is one iptables command; the
`while iptables -D` loops are a command `"D*"` that stays the next one until no
such rule is left.  A command that fails changes nothing and the script goes on,
as it does without `set -e`.  `Dropped(lan, kind)` and `Redirected(lan)` say what
happens to packets.  iptables, the kernel and procd are not in the repository;
what is modelled of them is what the scripts rely on.

**Firewall** writes each subcommand as a sequence of commands computed from the
configuration the process loaded (`LoadConfig`, `load_config`).  `Call` starts a
process, `Command` runs its next command.  The nine reserved ranges of REDSOCKS are
one rule, and ip6tables' hop-limit rule goes with its IPv4 twin.

**HealthMonitor** is `run_monitor` cut at every read or write of something shared:
the two reads of the state file in a successful turn, the child script, the write
of the state file and the reset of the count are separate steps.  `sleep` is the
time the monitor spends at `"check"`, and a probe finds a proxy at an address or
does not (three ways of connecting, one answer).  The count stops at the
threshold: beyond it `-ge` cannot tell values apart.

**Router** adds the init script (its own steps, with `icfg` the configuration
`start_service` loaded and `ipid` the `$pid` of `stop_monitor`), redsocks as procd
runs it, the user, hotplug and the phone.  `holder` is the lock rc.common takes:
one init process at a time.  `restart` is stop and start in one process (hotplug,
`reload`); `camofox restart` is two processes.  procd, external, starts redsocks
after `start_service` has returned if it is not running, leaves it alone if its
command line is unchanged, stops it when `start_service` declared no instance, and
kills it after `stop_service`.  So the comment at `init.d/camofox:188`, "Wait for
redsocks to start", waits for something that begins later.

`Allowed` names what the environment of a run does beyond the ordinary:

| Circumstance | Meaning | Why it is a parameter |
|---|---|---|
| `proxy fails` | the proxy application stops and starts | needed for the kill switch only |
| `start overlaps` | `camofox start` on a running service | leads to the finding of `router_restores` with an armed switch |
| `setup while running` | the wizard on a running service | redsocks keeps the old address (below) |
| `slow boot` | a monitor started with `&` has not written its PID file when the next operation begins | two monitors can then live (below) |
| `slow script` | a `kill_on` whose monitor was killed still runs when the init script calls `firewall.rules` | it can put back what `remove` took away: the finding of `router_stopped` |

With `slow boot`, one ifup and a fast second operation, `AtMostOneMonitor` is false:
the second stop finds no PID file, and the first monitor lives on.  The window is
the start of a shell, a fraction of a second, and the comment at
`init.d/camofox:140` ("Stop any existing monitor first") claims no more than it
does; it is recorded here and as a hazard, not as a finding.

`setup while running`: the wizard commits a new address and runs `start`; procd sees
the same command line, so redsocks keeps the old address.  `ConfigAdopted` shows it
when the word is added to `Allowed`; no document promises otherwise, so it is prose
here and no run.

What a stop leaves is two properties.  `LoneStopOpens` is what the code achieves: a
stop that, when it comes to remove the rules, finds no monitor alive and no script
running opens everything, whatever was armed, blocked, killed or overtaken before it.
`alone` is a history variable that says so of the last stop; no guard reads it.  Of DNS
the property speaks only for the LAN that stop knew, since DNS rules of an earlier
`lan_iface` stay (below).  `StoppedIsOpen` is what the command line tool says,
"All traffic now flows normally (unproxied)" (`usr/bin/camofox:165`), of any stop after
which nothing runs any more; it is false, and `router_stopped` shows it.

### Runs

| Run | Question | Bounds |
|---|---|---|
| `hosts`, its part `firewall` | what any sequence of subcommands leaves behind | 2 LANs, 2 addresses, 2 TTLs, UCI changed at any point; no bound on calls |
| `single_monitor` | one monitor against the abstract switch | threshold 3, 2 addresses, no other bound |
| `router_ops` | every mix of operations, overlapping, switch off | boot + 1 user command + 1 ifup, 2 LANs, 2 addresses, 3 monitors |
| `router_kill` | the switch under operations, one at a time, with scripts that outlive their monitors | boot + 2 user commands, 2 monitors, threshold 2 |
| `router_restores` | does the LAN always reopen? No | boot + 1 ifup, threshold 1 |
| `router_stopped` | is the LAN always open after a stop? No | boot + 1 user command, threshold 1 |

Why the bounds are enough.  A script is a function of one configuration, and what
an earlier one leaves behind is what its own configuration named: two values of
each option are the old and the new.  Three operations (boot, user, hotplug) are
every pair in sequence and every overlap of two callers.  Monitors are reused once
they are dead and their child has ended, so the number of monitors bounds those
alive at once, not those ever started: a start needs one free, and with one user
command and one ifup no more than three exist.  A threshold of one takes away a
counter, not a behaviour; `single_monitor` has three.

`MCRouter` reduces the state space in three ways.  `PrioritisedNext` gives
priority to commands of the init script's own `firewall.rules` on chains that
nobody else touches, and, with the switch unarmed, to the monitors' purely local
steps: those commute with every step of another process and no invariant checked
under that reduction is changed by the order.  `View` leaves out values that are
overwritten before they are read again, and is used with invariants only.
`Symmetry` exchanges LANs, addresses and monitors, and is used in the run without
liveness properties.  Runs with `CHECK_DEADLOCK FALSE` have bounded calls and a
disarmed proxy that does not change: the system may come to rest.

`BlocksOnlyAfterThreshold` and `KillOnBlocksAll` speak of whole scripts.  Between
the deletion of the jump and its insertion `kill_on` on an engaged switch would
let packets through; that it is never called on an engaged one is part of `IInv`
(`SwitchPosition`: `stateFile # "down"` during `kill_on`).

`remove` does not remove everything: it deletes rules by the present option values
(`firewall.rules:52`), so TTL rules and jumps of earlier values stay, and
CAMOFOX_KILLSW cannot be deleted while one refers to it, whatever the comment at
`firewall.rules:39` says.  What is left of the redirect is harmless, since its chain
is emptied: that is what `NoBlackHole` relies on.

### Fairness

Weak fairness of every process that can run: the kernel schedules it, `sleep`
ends, a probe times out (`nc -w 3`, `wget --timeout=3`), a wait for a child ends
with the child.  Nothing is assumed of the user, the phone and the proxy: the
liveness properties say what follows if the proxy stays reachable, or stays away,
and no operation is under way, from some point on.

### Findings

`router_restores`: `start` on a running service applies the firewall before it stops
the old monitor.  If that one is about to run `kill_on`, the switch is engaged after
the reset; `start` then deletes the state file, and the new monitor never sees `down`,
so never runs `kill_off`.  An ifup that beats the boot-time start is enough.

`router_stopped`: `stop_monitor` kills the monitor's shell (`health_check.sh:185`) and not
the `kill_on` that shell waits for.  `stop` goes on to `remove`, and the script beside it
inserts its DROP and its jump between the commands of `remove` and after them.  The
trace ends with no monitor, no redsocks, no script, and the LAN blocked until the next
start.  With `slow boot` a monitor that a stop did not find does the same by itself.

## 3. The phone modules

```
Keepalive            keepalive.py: the manager's calls and the threads of its loops
  Supervisor         camofox_proxy.py: run, its restart loop, stop, signals, cleanup
    Keepalive_proof  of both
MCHosts (with Firewall of section 2)
```

**Keepalive** has, per loop, threads that test the stop event, do a turn and wait.
The manager's `start` and `stop` are calls whose steps go through the loops in
`Order`: set the event, join, and for the file loop remove the heartbeat file.
`join(timeout=5)` ends with the thread, or, for a loop in `SlowLoop`, in the middle
of a turn: the network loop may spend three seconds connecting and three reading.
A later `start` clears the event the old thread has not seen yet, so both live;
`StartedIsAlive` and `StopEndsLoops` are about all loops, the former says that one
thread with a clear event is there, the latter that every thread of a manager that
stays stopped ends.  The file loop is assumed not to be slow (`FileAssumption`).

**Supervisor** is `run` at the places where something else can happen, as the only
client of the keepalive manager.  `entry` is how the proxy was started: with
`camofox_proxy.py` a signal runs `stop()` inside `run`'s thread, in one step; from a
library its two lines are two steps of another thread; with `camofox_start.py`
Ctrl+C raises where `run` happens to be, and only what `_run_once` encloses catches
it.  Delays, and counters that are only displayed, are left out.  The WPAD server's
socket stays open after `shutdown()`, as `HTTPServer` leaves it; the two server
tasks bind, or end unnoticed.

| Run | Question | Bounds |
|---|---|---|
| `hosts`, its part `manager` | threads and file after any starts and stops | 2 loops, one of them slow, 3 threads of each alive at once |
| `hosts`, its part `run` | does `run` shut down cleanly, and not restart after `stop`, in every circumstance? | 2 loops, 1 thread of each, 2 attempts, 1 crash, 2 ports taken |

Three threads of a loop are two orphans beside the current one.  After one crash
every attempt fails at the WPAD port, so more crashes add nothing; two attempts
tell the last failure from one that is followed by a wait.  The audio loop is one
more loop like `ping`, and `ping` is one like the network loop but never slow.  `run`
starts its manager once, so one thread of a loop is all there is (`OneSlot` leaves no
behaviour out).  `hosts` has `CHECK_DEADLOCK FALSE`: `run` returns.

Fairness of `hosts`: weak, of each loop's thread and of the steps of a call of the
manager; waits and connections time out, and nobody has to call anything.

Two things one might expect of `run` do not hold, and no document promises them:
it does not serve again after a crash, since nothing shuts down the WPAD server of the
failed attempt and each further one fails to bind its port; and a `stop()` while the
servers run does not end it, since the event is looked at in the wait of a restart only.

## 4. The servers' modules

```
Session              one client of socks5_server.py or http_proxy_server.py
  Session_proof
ProxyServer          what the handlers of proxy_server.py share
Resolution           dns.asyncresolver: a lookup over nameservers, UDP, TCP, time
  Connect            tcp_connect: two lookups, and IPv6 and IPv4 raced
UdpRelay             UDP ASSOCIATE and its forwarder
  Request            Connect or UdpRelay: what a request is served with
    Request_proof
MCStreams (with the Mac of section 5, Quic and Query of section 6), MCRequest
```

**Session** is one connection of a client, from `client_connected` to the end of its
handler.  A step of a coroutine runs from one `await` to the next, as the event loop
runs it.  `kind` is what the client asks for (SOCKS CONNECT, HTTP CONNECT, or a plain
request, here called GET), `stage` the `await` the handler is in, and `forwarder[x]`
the one in which the `forwarder_loop` that reads from end `x` is: `read`, `drain`, or
`closing` for `wait_closed`.  For each end, `inbox` is what the StreamReader and the
kernel hold of it, `eof` that the reader will find EOF behind that, `outbox` what was
written to it and it has not received, and `conn` the transport:

| `conn` | asyncio |
|---|---|
| `open` | in use |
| `closing` | `close()` was called: nothing more is read, what was written is flushed |
| `lost` | closed without an error; its reader sees EOF |
| `broken` | lost to an error; its reader and `drain()` raise, `write()` is dropped |

| Actions | Code |
|---|---|
| `Hello`, `Request`, `NoWord` | the words of the client, or their absence: `_handle`, `handle` |
| `ConnectFails`, `Connected` | `tcp_connect`, with the reply or the rewritten request |
| `Read`, `ReadEnds`, `Drain`, `DrainFails`, `LoopEnds` | `forwarder_loop`; its `finally` clause is `EndLoop` (`close`) and `LoopEnds` (`wait_closed`) |
| `RelayEnds`, `WaitClosed` | `gather` in `tcp_forward`; `wait_closed` in the SOCKS handler |
| `CloseWriter`, `Flush`, `Reset`, `Collect` | asyncio and the kernel (external) |
| `Send`, `Receive`, `Finish`, `Vanish` | the ends (external) |

A word of the handshake is one item, which may be there in part when the client ends
(`NoWord`); a read of 64 KiB takes one chunk.  Which chunks share a read makes no
difference to what is written.  `Window` stands for what the kernel and the network hold
for an end, so that the rest of `outbox` is the transport's own buffer.  The rewriting of
the request, the text of replies and `traffic_stats` are abstracted; `taken` is what the
latter counts.

* `InOrder`: an end receives the proxy's words and then the other end's chunks, in
  order and without a gap, up to the place where it was cut off.
* `CleanEndIsComplete`: a forwarder closes an end that has not ended itself only after
  everything the other end sent before its FIN was written to it, unless a connection
  broke.  What the proxy tells an end by closing its connection is true.
* `NothingLeftOpen`: a handler that is done leaves no connection open.  The exception
  in it is the code's: `AsyncHTTPProxyHandler.handle` returns without closing a client
  it refuses.

A half-close is not kept: a client that shuts its side after the request makes the
target's connection close once the request is written, and what of the answer has not
been read by then is lost.  Neither the code nor its comments promise more.  A target
whose connection breaks looks to the client like one that ended (`forwarder_loop` closes
the writer in either case), which is why `CleanEndIsComplete` excludes it.

In the run `streams` a session has any of the three kinds, one chunk of the client beyond
its handshake, two of the target, and a window and a mark of one.  Two replies and two
chunks are more than these hold, so the forwarder to the client waits in `drain()`; the
client may send its chunk with the request, before the reply, or across the answer.
There is no bound on steps, and connections end in every way at every point.
`CHECK_DEADLOCK FALSE`: a session is over, or both ends may be silent.

**Resolution** is the loop of `_Resolution` with the exchange of `asyncquery.udp`
and `.tcp` at the places where it waits: `current` is what is left of the round,
`listed` the mix, `server` who is asked.  `Verdict` judges one reply: parser, header,
question, truncation, CNAME chain, rcode (`Verdict`).  Time is a clock of ticks; code
takes none, except that the event loop may be held up (`Stall`), so a deadline can
pass before anybody waits for it: `Deadline` then takes what is left of the time, zero,
for no timeout at all, as `_asyncio_backend.py:48` does.  The A and the AAAA lookup of a
name run side by side.  Without `httpx` a nameserver that is a URL fails at once and
stays in the mix.

**Connect** adds the server's choice of families and nameservers (`Source`,
`Suitable`), `resolve_address` over the two lookups, and the race: `attempt[f]` is the
connection of a family, `turn` when the second attempt starts.  `OneConnection`: however
attempts fail, time out or succeed, a race that is won leaves one open connection and
one that is lost none.  `RemovesListed`: the `list.remove` of `query_result` finds the
nameserver it takes out, over rounds, truncation and errors.

**UdpRelay** has the relay's sockets (`made`), the map `connections` from a target, by
the socket it is reached with, to a client, and each datagram as a task that pauses only
to resolve a domain.  The map is written when a datagram is handed to the transport, in
one go, so the code's fault is narrower than it looks: with two clients of one target
all answers go to the one that sent last.  That one has asked for them, too:
`NoStrangers` says nobody gets a datagram of a target it has sent none to by the
same socket.  `SilentWhenDone`: a relay whose control connection is gone sends and
delivers nothing, whatever its tasks still do.  When an endpoint cannot be made,
`handle_udp` raises and the sockets already made stay open (`EndpointFails`).

The run `request`: two names (one an alias), nameservers with an IPv4 address, an IPv6
address and a URL, in two lists; a good, a truncated, a negative and a stray reply;
timeout and lifetime of two ticks, so that a second exchange gets the lifetime's rest,
a back-off of one, one stall, and a clock that stops at six, after both lookups and the
race have had all of their time; two clients, three targets of which two share a domain,
two datagrams and one answer, which is the least in which the map is overwritten before
it is used.  `RequestEnds` says that `tcp_connect` returns or raises, if the event loop
is never held up while it has something to do, and that a relay ends when its control
connection does.  Fairness: weak, of the code's steps, of time, of the handler and of
the tasks.  The network owes nothing.

## 5. The Mac modules

```
Mac                  camofox-mac.sh, dns-setup.sh and the monitor
Helper               proxy_helper.py
Mac_proof            of both
MCMac                the setups; MCStreams has both as parts
```

**Mac** is one command at a time, step by step (`script` is the step that comes next),
over the network settings (`proxies`, `dns`), the files and the processes in the
background.  Under `set -e` a `networksetup` that fails ends the command where the script
does not catch it, and is passed over where it does.  Ctrl+C cuts a command short
anywhere, and a reboot ends all processes and keeps files and settings.  `setup` is how
the Mac was and how CamoFox is configured.  What the scripts do is kept, also where it
surprises: `restore_proxy_settings` restores nothing and turns proxies off, the PID file
of the monitor has the PID of the command line tool, without root a DNS server that was
started with `sudo` cannot be killed.

What the scripts do achieve, over any history of commands, interruptions and reboots:

* `NoProxyLeft`: a `stop` that ran to its end and whose `networksetup`s worked leaves no
  proxy of CamoFox's set, whatever was cut short, repeated or failed before it.
* `PutsBackFound`: a `stop`, or a `start` that undoes itself, puts back from its backup
  the DNS servers that the last `start` found (`found`), also when a second start found
  those of the first.  `spent` is the history of a restore that had no backup or whose
  `networksetup` failed; the backup is gone then.

And what they promise and do not keep, though every command runs to its end and every
`networksetup` works (`Undone`):

* `mac_proxies`: "System proxy settings restored" (`camofox-mac.sh:95`), "All settings
  restored to original values" (`:263`), "Disable everything and restore original
  settings" (`:348`).  `ProxiesRestored` is violated by one start and one stop on a Mac
  whose user had a proxy: the backup is written (`:78`) and removed, never read.
* `mac_dns`: the same promise for DNS.  `DnsRestored` is violated by two starts and a
  stop: the second start backs up what the first has set (`dns-setup.sh:398`), and that
  is what the stop puts back.

A `stop` without a `start` before it sets DNS to that of DHCP, for it finds no backup;
it says so while it does it ("No DNS backup found"), so that is an observation.

**Helper** has for each connection `handle_connection` (`stage`), its two pipes and its
two sockets, with data as counters.  A pipe that ends closes the writer it copies to;
`AnswerComplete`: the client has the whole answer when the proxy ended it and nobody
else ended or broke anything.

In the run `streams`: seven setups, so that each DNS mode occurs with and without root,
tool and running server as they are used; three commands (a start, a repeated one and a
stop are enough for every hazard of the list), two of them cut short, and one reboot;
one failure before the monitor writes `killed`; two connections for one slot of the
helper, an answer of two chunks over a mark of one.  `CHECK_DEADLOCK FALSE`: commands and
chunks are bounded.  `mac_proxies` and `mac_dns` cut nothing short and reboot nothing: two
and three commands.

## 6. dnspython: streams and sockets

**Query** is a thread in one call of `dns.query` (`udp`, `tcp`, `tls`,
`udp_with_fallback`, and `asyncquery.tls` for what differs), over a socket of its own or
one that is used for a further call.  Every operation on the socket may be done, done in
part, block or fail with an `OSError`; `_wait_for` looks at the clock before it waits.
asyncquery leaves the waiting to its backend, which takes a time of 0 for no limit
(`MaybeWaitFor`, `_asyncio_backend.py:48`).  `udp` looks at address and source also when
it is given a socket, `tcp` and `tls` only when they make one.  `arrived` is what
the other end has sent and nobody has read: whole or broken replies, to this or an
earlier call, from the server or elsewhere, signed well, badly or not.
`OnlyItsAnswer` says what a call that is over has returned.  `asyncquery.tls` drops the
context it is given, so its stream is then not encrypted (`Encrypted`): the property
speaks of the handshake for `dns.query` only, and the observation stands here.

**Quic** is one DNS-over-QUIC connection: users in their own streams, the manager's
table, the buffer of each stream with `_expecting`, and the worker that handles the
events of aioquic (external).  `Threaded = TRUE` is `_sync.py`, where the worker puts
into a buffer without the lock under which the reader cuts it: with it `ReceivedWhole` is
violated, since what arrives meanwhile is lost.  That is a data race nobody documents
either way, and no run.  The run `streams` has `Threaded = FALSE`, the behaviour of
`_asyncio.py`, where a step runs to its next `await`.

`streams` has two users, replies of three
units in any pieces with the end in any of them, two events in the queue; and nine calls
(each transport, with a given socket or not, an address that does not fit,
sync or async, one with a timeout of 0), five replies, two of them
sent, two calls over one socket, and a clock of two ticks.  `CHECK_DEADLOCK FALSE`: calls
end.

Finding `quic_timeout`: `wait_for` waits again after a wait that has timed out, for its
loop looks only at the buffer (`_sync.py:43`; `_asyncio.py:38` swallows the `TimeoutError`
likewise), so `receive(timeout)` never gives up, though `query.py:1080` documents a timeout.

## 7. dnspython: data

```
Rdatasets            sets of records, nodes, serial numbers
  Versioned          versions that share nodes; readers, one writer; operations
    Transfer         AXFR and IXFR into a zone (xfr.py, inbound_xfr)
      Zone           threads that transfer, update and read
        Zone_proof
Cache                Cache and LRUCache
  Stub               Resolver.resolve with search list and cache; zone_for_name
    Zone_proof       (also of Zone)
Wire                 messages written with compression and rollback, and read
  Streams_proof      (also of Query and Quic)
Names                names as text, as Unicode, in order, relative
  Request_proof      (also of Request)
  Tokenizer          the tokenizer and its getters
  ZoneFile           Reader and to_file
  Dnssec             keys, signatures, DS and NSEC3
MCDns                side by side
```

**Versioned** keeps the `heap` of node objects apart from the `versions` that refer to
them: an object is named by the version that made it, and a writer copies what it does not
own (`MaybeCow`).  `_version_lock` makes steps; what threads do outside it are steps of
their own.  A waiting writer is woken by an event: `writeEvent`, `waiters`, and in `waited`
the threads whose local variable holds an event.

**Transfer** asks for an IXFR from the serial it has, or an AXFR, and takes the records
of the answer one by one.  The server (external) has a history of versions and may answer
with the whole zone, with differences from any version of the serial asked for, with its
SOA only, and with differences of which one is missing; the connection may end anywhere.

| Property | Says |
|---|---|
| `ReadersSeeOneVersion` | an open reader's version is kept, with all newer ones, and no step changes what it sees |
| `WritersServed` | whoever asks to write gets to |
| `TransferExact` | a transfer adds the version it was sent or none, if the zone it started from had the content its serial stands for |
| `RingInOrder` | the ring of an LRU cache has the keys of its dictionary, in order of last use, both ways |
| `AnswersFresh` | what is taken from a cache was said of a world that was there no longer ago than its TTL |
| `RoundTrip` | at every moment the output reads back as the records added, though some did not fit |
| `NamesSurvive` | text and Unicode text of a name, read again, are that name |
| `OrderAgrees` | the order of names is total and that of their canonical form; relative and back is the same name |
| `TokensAgree` | strings, names and times are the same tokens however they are laid out |
| `ZoneFilesAgree` | a zone written in full or abbreviated in any of the ways the format has is read as the same zone |
| `SignaturesHold` | what a key has signed validates, however it is seen, in its time, and nothing else does |
| `DelegationsHold` | DS records made from keys, CDNSKEYs or CDSs fit those keys at that name only |

`TransferExact` is conditional because `delete_exact` alone cannot tell a zone that was
updated by hand under an unchanged serial from the right one.  The server's damage is one
missing difference: two that cancel out cannot be told by any client.

Fairness of `dns`: weak, of each updater's turns in `writer()` and of the end of its
transaction (it is used `with`), and of each transfer's turns and of its end: the records
run out, and then the stream is closed or times out.  `WritersServed` needs no more.

`Names`, `Tokenizer`, `ZoneFile` and `Dnssec` are functions: nothing runs but the choice
of an input (`given`), and a property compares two ways to the same result.  Labels and
texts are sequences of bytes where their bytes are what matters.  DNSSEC's primitives are
perfect: a signature verifies for the key, hash and data it was made of.

Bounds of `dns`: serials of three bits, which wrap around between the server's three
versions; one transferring and one updating thread, who compete for the lock, and one
reader; versions up to the third, two transfers, one operation by hand; two resolver
threads with a cache of two, two ticks, two calls, one flush, and a world that changes
once; messages of at most 26 cells and five additions, with pointers up to 12, so that
records do not fit and names lie beyond the reach of a pointer; labels of at most 8 and
names of at most 12 octets, so that limits are met; zones of three names with every kind
of data; keys of every kind with numbers shorter than their field, and pairs with one
tag.  Resolver threads are alike: the first to ask is always the same one, and those that
climb share an LRU cache (`FewAsk`).  `CHECK_DEADLOCK FALSE`: all of it is bounded.

Observations made on the way that no document contradicts:

* `_sign` counts a `*` among the labels (`labels: len(rrname) - 1`), so its signatures of
  wildcards do not validate answers expanded from them; those of other signers do.
* A relative signer below the apex is made absolute by itself, not by the origin.
* `dnskey_rdataset_to_cdnskey` keeps the rdtype DNSKEY, and `make_ds_rdataset` of keys
  gives records of type CDS.
* Names that mix punycode with bytes above 127 do not survive their Unicode text.
* A relative `$ORIGIN` makes the current origin relative.  Names in data of the generic
  form (`\#`) under the origin fail to load.  A cyclic `$INCLUDE` never ends; the model's
  files include one file once.


## 8. Proofs

TLAPS checks eight modules of proofs.  Each theorem below holds for every value of the
constants that meets the assumptions named, and, but for those marked "not run", states a
property that a run also checks.

| Module | Theorem | Statement |
|---|---|---|
| `SingleMonitor_proof` | `InvariantHolds` | `SafeSpec => []IInv` (not run) |
| | `TypeCorrect` | `SafeSpec => []HealthTypeOK` (not run) |
| | `StateFileIsTrue` | `SafeSpec => []StateFileTellsTruth` |
| | `OnlyThresholdBlocks` | `SafeSpec => BlocksOnlyAfterThreshold` |
| | `SafelyImplements` | `SafeSpec => KS!SafeSpec` (the safety part of `ImplementsKillSwitch`) |
| `Keepalive_proof` | `KeepaliveTypes` | `KSafeSpec => []KTypeOK` (not run) |
| | `SilentAfterStop` | `KSafeSpec => []StoppedIsSilent` |
| | `NoDoubleThread` | `KSafeSpec => []OneThreadEach` (not run) |
| | `StartedStaysAlive` | `KSafeSpec => []StartedIsAlive` |
| | `ShutsDownCleanly` | `SSafeSpec => []CleanShutdown` |
| | `StopIsFinal` | `SSafeSpec => NoRestartAfterStop` |
| `Router_proof` | `RedirectsAreGuarded` | `FirewallSpec => []RedirectGuarded` |
| | `KillOnBlocks` | `FirewallSpec => []KillOnBlocksAll` |
| | `ApplyIsIdempotent` | `FirewallSpec => []AppliedExactlyOnce` |
| | `NothingIsBlackHoled` | `RouterSafeSpec => []NoBlackHole` |
| | `RouterRedirectsAreGuarded` | `RouterSafeSpec => []RedirectGuarded` |
| | `RouterBlocksOnlyAfterThreshold` | `RouterSafeSpec => BlocksOnlyAfterThreshold` |
| | `OneMonitorAtMost` | `RouterSafeSpec => []AtMostOneMonitor`, without `slow boot` |
| | `LoneStopLeavesOpen` | `RouterSafeSpec => []LoneStopOpens` |
| | `ConfigIsAdopted` | `RouterSafeSpec => []ConfigAdopted`, without `setup while running` |
| `Session_proof` | `SessionTypes` | `Spec => []SessionTypeOK` (not run) |
| | `NoneLeftOpen` | `Spec => []NothingLeftOpen` |
| | `BuffersAreBounded` | `Spec => []BoundedBuffer` (not run) |
| | `CleanEnds` | `Spec => []CleanEndIsComplete` |
| | `Ordered` | `Spec => []InOrder` |
| `Request_proof` | `AskedIsListed` | `Spec => []RemovesListed` |
| | `RaceHasOneWinner` | `Spec => []OneConnection` |
| | `NoneGoAstray` | `Spec => []NoStrangers` |
| | `DoneIsSilent` | `Spec => SilentWhenDone` |
| | `NamesAreOrdered` | `NamesSpec => []OrderAgrees` |
| | `NamesComeBack` | `SurvivesSpec => []NamesSurvive`: labels in punycode are the codec's |
| `Mac_proof` | `NoProxyStays` | `MacSpec => []NoProxyLeft` |
| | `DnsComesBack` | `MacSpec => []PutsBackFound` |
| | `AnswersComplete` | `HelperSpec => []AnswerComplete` |
| `Streams_proof` | `CallGetsItsAnswer` | `QuerySpec => []OnlyItsAnswer` |
| | `QuicReceivesWhole` | `QuicSpec => []ReceivedWhole`, if `~Threaded` |
| | `MessagesReadBack` | `WireSpec => []RoundTrip` |
| `Zone_proof` | `ReadersAreIsolated` | `Spec => ReadersSeeOneVersion` |
| | `TransfersAreExact` | `Spec => TransferExact` |
| | `RingStaysInOrder` | `StubSpec => []RingInOrder` |
| | `CacheAnswersFresh` | `StubSpec => AnswersFresh` |

**SingleMonitor_proof**: any addresses, LANs, TTLs, configurations and threshold.
Assumed: configurations are records of the right type (`ConfigAssumption`), no LAN is
called "any-iface" (`LanAssumption`), the threshold is positive, one monitor.
`StateFileTellsTruth` is not inductive: that the LAN is blocked when the file says `down`
follows from what the script did, which follows from what the chains held before it, and
from the monitor having called it only on an open switch.  `IInv` adds: the monitor and
its child hold the configuration UCI holds; FORWARD holds the script's own rules only
(`OneConfiguration`); a script runs only while its parent waits (`ChildHasParent`); the
count matches the place in the loop (`CountFits`); and what the kill chain contains before
each command of `kill_on` and `kill_off` (`SwitchPosition`).  The proof goes by the effect
of each step; two lemmas (`OpenDropsOnlyDns`, `ClosedDropsAll`) turn the contents of the
chains into the fate of packets; `StepIsAbstract` and `AbstractStepMaps` map each step to
one of `KillSwitch` or a stutter.

**Keepalive_proof**: any loops in any order, any set of slow ones, any number of threads.
Assumed: `Order` names no loop twice, the file loop is one of them and not slow.  The
properties speak of the time between calls only; `KInv` says for each place in a call
which loops are up, which one is being joined and which are down (`Runs`, `Joining`,
`Down`): a loop that is up has its thread and a clear event (`RunningIsLive`), one that is
down and not slow has no thread (`NoneSurvives`), and the file is gone once the file loop
is down and its removal done (`FileGone`).  A thread's step keeps this because it can
only end, and only at a set event; each step of a call moves one loop to the next class.
The supervisor stands on it: `SInv` says which call of the manager belongs to each place
of `run()` (`ManagerFits`), that from the manager's `stop()` on every loop that runs no
longer was told to end (`ToldToStop`), and that the WPAD server has ended by then
(`ServersFit`); with `KInv`, which an interrupted run may leave, it gives
`CleanShutdown`.  For `NoRestartAfterStop`, `NoMore` holds from the failure after `stop()`
on: `run()` is in a place from which it only goes to its end.

**Router_proof**, on the scripts by themselves (`FirewallSpec`): any LANs, addresses and
configurations, which may change between and during scripts; one process at a time
(`Proc = {p}`), since with two of them the chain can be emptied while it is being filled.
`FInv` says how far each script has come: `Building`, that REDSOCKS is empty from
`remove_rules` on and then holds the exclusions in turn; `Blocking`, what `kill_on` has
made of its chain and of the head of FORWARD, if the chain exists.  `ApplyIsThis` extracts
from the concatenated script which commands touch REDSOCKS; `DeletesOne` and
`ExecutesElsewhere` that the others do not.  For `ApplyIsIdempotent`, `Done` says what
`apply` has made of each of its other rules when it has reached a command: a rule is a
cell that may hold any number of copies until its `D*` loop has gone through, none until
its command comes, one from then on (`CellFits`).

**Router_proof**, on the whole router (`RouterSafeSpec`, `Router` without its fairness):
any number of monitors, operations of any caller, overlapping as they do in the code,
with the scripts of monitors, also killed ones, between the commands of the init
script's.  Assumed besides: "no PID file" is no monitor (`NoPidAssumption`) and "no
address" no address (`NoIPAssumption`).  `RInv` holds whatever the environment does:
where the init script is, who holds its lock and which script its process runs (`Path`,
`ScriptsFit`), that a monitor's script is `kill_on` or `kill_off` of a configuration it
loaded, and that the redirect is gone where redsocks is down and no start is under way
(`RedirectFits`).  What makes two scripts that interleave tractable: the commands of the
two kill scripts touch one chain and the rules that jump to it (`KillMoves`), so `Building`
and the `Cells` of the init script's `apply` hold beside them (`ApplyFits`).  `KillInv`
adds that FORWARD blocks by the kill chain only (`ForwardFits`) and the count at which a
`kill_on` was called (`CountFits`).  `LoneStopLeavesOpen` excludes no circumstance.  Once a
stop has found nothing running, nothing runs until the next start (`Silent`); its `remove`
flushes the kill chain, and from then on the chain drops nothing (`NoDrop`), through what is
left of `remove` and whatever comes before a start (`StoppedFits`); a jump of an earlier
`lan_iface` that is still in FORWARD leads into an empty chain.  `RemoveFits` says the same
of the DNS rule of the LAN that stop knew.  Two circumstances of section 2 are excluded where
they do break the property: a monitor that
has not written its PID file cannot be stopped (`One`: each live monitor is named by the
PID file or still starting, and no operation goes on before it has); the wizard on a
running service leaves redsocks its old address (`Adopted`: unless a restart is pending,
each part works with the present settings, is about to be started, or will load them).

**Session_proof**: any amounts sent, any window, any mark of the transports that holds two
replies.  All theorems share the types with `StageFits` and `ForwarderFits`: which
connections exist in which stage, and that only a forwarder closes what it writes to.
Three invariants stand on that.  `BufferFits`: only a forwarder in `drain()` can have an
`outbox` beyond the mark behind it.  `EofFits`: as long as a connection is in use nothing
its end sent is lost, so EOF there is the end's own; with `FirstEndsAtFin`, that the
forwarder which ends first has reached that EOF, it gives `CleanEndIsComplete`.  `Flow`:
what waits in an `inbox` continues what was read of that end (`InboxFits`), how much was
written is how much was read of the other (`TakenFits`, `PutFits`), and what waits in an
`outbox` continues what was received (`OutboxFits`); `InOrder` is a part of the last.

**Request_proof**: any hosts and nameservers, any transports, any clients, targets,
domains and numbers of datagrams.  `Mix`, for the lookups: the nameservers of the mix and
those left in the round are lists without repetitions, the second part of the first, and
one that is asked is in the mix and not left in the round; so `list.remove` finds it.
`Race`, for the attempts to connect: one is under way only while the race is, and one is
connected, by itself, exactly when the race is won.  `Relayed`: until a relay is closed, everyone its map names has sent
by that route, and so has every answer that waits for a resolution.  `Suitable` filters with the
library's `SelectSeq`, a recursive definition, so what it returns is assumed
(`SuitableAssumption`: a list of nameservers without repetitions); TLC
evaluates that assumption for the lists of the runs.

For names, any bytes, names and limits on labels and names, on the functions of `Names`
(`NamesSpec` chooses what is `given`).  Assumed (`NamesAssumption`): the names compared
with are such as `Name()` makes (`IsName`).  Both proofs start from what the recursive
functions compute: `MakeName` refuses by the lengths of the labels only (`MadeIs`,
`OctetsSame`), `InCommon` is the number of labels, from the end, that two names share but for
case (`InCommonIs`), and `LabelLess` says which label is less at the first byte that differs
(`TextBefore`).  `NamesAreOrdered`: so `FullCompare` compares names from the end at the first
label that differs; that is transitive for labels and then for names, two names are equal
exactly when their canonical forms are, and what a name has before its origin is found
again, since shares count from the end.  `NamesComeBack`: where the reader of a text is not
in an escape, reading the text of a label takes it to the same place with that label's
bytes behind it (`Reads`).  `_escapify` writes each byte as itself, with a backslash, or as
three digits, and each of these reads as that byte, and so do the characters of a Unicode
label; the pieces of a label follow on each other as `FlattenSeq` joins them
(`Flattening`), and labels by their dots (`Joins`).  Python's codecs are external: the
model's `Unpuny` undoes `Puny`, which is proved (`PunyBack`) and not assumed.  The
hypothesis `CodecMade` says that a label that begins with `xn--` is one that the codec can
write.  It cannot be dropped: a person can put any bytes behind `xn--`, and such labels are
decoded to text which is encoded to other labels, or to none.

**Mac_proof**: any bounds on commands, reboots and failures, any setups
(`MacAssumption`).  `DisabledSoFar`, for `NoProxyLeft`: at each step of a `stop` the kinds of
proxy that were gone through are off, unless a `networksetup` failed.  `BackupHolds`, for
`PutsBackFound`: from a start's backup on, either the backup names what it found or that
is in use, and it is in use wherever a command that put it back has ended; unless a
restore failed or had no backup.  `HelperInv`, for `AnswerComplete`: what was read of an answer
is received or buffered, the client's socket is open while its pipe runs, and when that
pipe has ended all was read and the proxy sends no more (`Answered`); nothing has happened to a
connection whose pipes do not run yet (`Fresh`).

**Streams_proof**: any set of calls and replies, any number of them.  Assumed: both are
records of the right type (`QueryAssumption`).  `StageOK` adds to the types and to
`OnlyItsAnswer` that a call over datagrams never reads from a stream, and that a TLS call
sends and reads only after its handshake.  Each step has a lemma that what it makes of the
thread is `Allowed`, whatever was sent before, fell back or arrived in part.

For QUIC, any users, replies and pieces: what a user took of its reply, what its buffer
holds and what is queued for it follow on each other without a gap, and the end comes with
the last of it (`Follows`); so when the worker hands an event over, the buffer grows by
just what comes next.  `~Threaded` is `_asyncio.py`, where nothing is put into a buffer
between the reader's look at it and its cut; with threads the property is false (section 6).

For messages (`MessagesReadBack`), any names, RRsets, options, keys, paddings, limits of
size and of pointers.  Assumed (`WireAssumption`): names are as `Name()` makes them (no
empty label but the last), the origin is absolute, no label but "" folds to what "" folds
to, and an OPT or TSIG is not added among the RRsets.  `RoundTrip` is far from inductive:
what a reader makes of the output depends on bytes that were written long before, and a
record that was read must still read the same when more is written behind it.  `WireInv`
says that the renderer is `Sound`: each entry of its compression table leads to a place
where the name reads as the table says (`Compressed`), and however the output goes on
(`Readable`, over every wire that `Continues` this one, whose header may differ) the
message read so far is `Fine`: it holds exactly the records added, and its index leads to
the one RRset of each name and type.  That each label and pointer reads as the name that
was given is `NamesIn` by cases, with its recursion unrolled where a pointer leads back.
Each record has lemmas for its writing (`NameRecordWritten`, `DataRecordWritten`,
`OptionRecordWritten`) and its reading (`OrdinaryRead`, `OptionRead`, `SignatureRead`,
`QuestionRead`).  A rollback cuts the output to what it was and leaves of the table only
the entries before the cut (`TrackedKeeps`, `TrackedUndoes`): without the second part the
table would lead to names that later records overwrite.  `OptFinished` and `TsigRestores`
are the last part of `to_wire`.  The inductions over the records of an RRset, of a section
and over the labels of a name are by the least counterexample (`LeastOf`, `NeverFails`).

**Zone_proof**: any threads, names, policies and pruning; for `ReadersSeeOneVersion` nothing
is assumed of the data that operations and transfers write nor of the answers a transfer
gets.  `ZInv`: versions
have increasing ids (`Aging`), the objects they refer to exist and are no younger than the version
(`NodesFit`), the open writer is one id ahead and owns what it changed (`OwnsChanged`), and
what readers have open is kept.  Every operation leaves a writer's version that `Fits`: it touched
no object of an older version.  `PruningKeeps` says what pruning leaves, `CollectedKeeps`
that collection takes nothing that is referred to.

`TransferExact` needs to know where in an answer a transfer is and what it has made of it.
`TransferInv` (`OnTrack`) says, for a transfer that started from the right content: what is
left of the stream, if it replaces the zone, is the records that its content lacks and the
SOA (`WholeLeft`); if it applies differences, the records of the difference from version
`i` it has yet to take away, or to add, followed by the differences from `i + 1`
(`TakesLeft`, `GivesLeft`), of which one may be missing (`LeftOver`).  Each record has a
lemma for the stream (`WholeStep`, `TakesStep`, `GivesStep`) and one for what the operation
it stands for makes of a zone that a set of records is (`AddContent`, `WorkingTakes`,
`SoaContent`).  Where a difference is missing, the SOA that comes next has a serial that is
not the transfer's, and it fails.  Assumed is `HistoryAssumption`: a version of the server
is a zone (one SOA, one TTL per set, no two records of a singleton type, no CNAME beside
other data), and no two have one serial.  Of the order in which the records of a difference
are sent nothing is used but that each comes once.  TLC evaluates the assumption, and the
property, on the three versions of `dns`; the theorem has any number.

For the caches, any threads, zones, resolvers and sizes; assumed that the sentinel of the
ring is the key of no name.  `InRing`: the keys before `next[k]` in the order of use are
those before `k` and `k` itself, which linking at the head and dropping anywhere
preserve.  Eviction drops from the tail as often as the size
demands, a recursive function; that the ring survives each turn is an induction over the
turns, and a cache of size one or more never runs out of keys to drop.  `Sound`, for the answers: what is cached, and what a
thread has yet to put, expires no later than its TTL after its nameserver's zone changed, or
after now if that has not changed.

Only model-checked: liveness (`RequestEnds`, `StopEndsLoops`, `WritersServed` and the
fairness part of `ImplementsKillSwitch`), for the prover has no rule for ENABLED; and the
four other properties of `MCDns` that compare two functions of a given input:
`TokensAgree`, `ZoneFilesAgree`, `SignaturesHold`, `DelegationsHold`.
`Tokenizer` and `ZoneFile` use recursive operators, which the prover does not support;
`Dnssec` computes with the octets of keys by folds of the library, whose theorems take
operators as parameters.  An induction by the least counterexample, as for `Wire`,
`Names` and the caches, needs a recursive function over a length, which these are not.

## 9. Not modelled

* Router installation and removal, the Mac's discovery, installation and pf rules: files
  copied once by a person, a network scan, rules of the refused force mode.
* What only reads and prints: status, diagnostics, platform detection, the Mac tool's
  `status`, `test`, `config` and `logs`.
* `src/socks5.py`, the upstream entry point: it starts the servers that `camofox_proxy.py`
  starts as well, without a supervisor.
* dnspython: the wire and text forms of the sixty record types; what TSIG signs
  and EDNS options contain; dynamic updates and DoH; trio; `resolv.conf` and the Windows registry; algorithms of
  cryptography, which are ideal functions in `Dnssec`.
* The documentation is prose; where a sentence of it is contradicted, a run shows that.
* Inside modelled parts: iptables failing because another process holds the xtables lock;
  the time between the redirect and the start of redsocks; what dnsmasq does with its
  servers; the lock inside `threading.Event`; a DNS helper of the Mac that dies later.
* Two hazards are in the models without a property, since nothing in the repository
  promises otherwise: a timeout of zero that `_asyncio_backend.py` takes for none, and the
  data race of `quic/_sync.py` (section 6).

## 10. Plan

What would come next, most important first:

1. `Dnssec` with recursive functions instead of folds, and a proof of `DelegationsHold`
   on it; then `Tokenizer` likewise, on the lemmas about `Names`.
2. TSIG over the messages of a transfer, and the options of EDNS.
3. `zone_for_name` over a nameserver that changes its answers, dynamic updates.
