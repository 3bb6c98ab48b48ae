# SDPGatewayVerification in TLA+

A verification project for the software-defined-perimeter system of this repository: a
controller, an application gateway and an application that hide their TCP ports behind
iptables rules, and open them to a client only after it has knocked by UDP with a voucher
(controller) or a ticket (gateway). The modules model the code, not the documents; where the
two disagree the disagreement is a run of its own (section 4).

Paths below are relative to the repository's root. The repository's own code is about 4,300
lines; the other 37,000 lines of C headers and sources are OpenSSL's, vendored under `lib3rd`.

## 1. Inventory

| Component | Source | State it keeps | Operations |
|---|---|---|---|
| white list | `comm/iptools` | `ip_white_list_` (address -> one port or a mark), the kernel's INPUT chain | flush, `InitWhiteList`, `OpWhiteList` ADD and DEL |
| gateway | `modules/gateway` | `md5_map_` (used tickets), `controller_black_list_`, its white list | start-up, `GateFuncUdpRecv`, `GateFuncBlackListOp`, `GateFuncNotice` |
| controller | `modules/controller` | accounts, `permission_map_`, `app_map_`, `md5_map_`, its white list | start-up, `ConFuncUdpRecv`, `ConFuncGetAccess`, `ConFuncRegisterApp` |
| scanner thread | `modules/controller/sdp_controller_runner.cpp` | none | an order to ban, 30 s, an order to lift the ban, 30 s, for ever, in a second thread of the controller |
| application | `modules/application` | `visist_freq_map_`, `last_visit_time_map_` | `AppFuncHttps` = `FrequencyJudgment` then `TimeLimitJudgement`, each with a notice to the gateway |
| client | `modules/client` | voucher, tickets | knock, ask for access, knock at the gateway, request |
| event loop | `comm/erpc` (dispatcher, handler, server) | `epoll_data_.fdmap`, descriptors, connectors, the batch of events | `Dispatch`: one `recvfrom`, one `accept` or one read and close for each event |
| calls and packets | `comm/erpc` (client, service, config) | none between calls, but the sockets they leave open | blocking calls: connect, TLS, write, read |
| ssltools, spatools | `comm/ssltools`, `comm/spatools` | the connector of a connection | RSA over split texts, digest, TLS connectors, packing of vouchers and tickets |
| commdef, tlog, test programs, `lib3rd` | | | constants, logging, hand-run programs, vendored OpenSSL |

How they interact:

    client --voucher (UDP)--> controller --tickets--> client --ticket (UDP)--> gateway
    gateway --RegisterApp--> controller          scanner --BlackListOp--> gateway
    client --request--> application --Notice--> gateway (close the port of this client)

The controller, the gateway and the application are three processes; each runs one event loop,
so the handlers of a process do not interleave with each other. What does interleave is:
datagrams that arrive late, twice or never; calls of several processes, each of which blocks the
thread that makes it; the steps of a start-up with packets that the kernel already lets through or
drops; the kernel's readiness list with the batch the loop is working on; the scanner's thread with
the loop of the same process, over the numbers of descriptors; and stops of a process, which lose its
maps but not the kernel's rules. Where programs meet is the backlog of a listening socket: a connection that
shares an event with another one is not accepted until a further one comes, and a call may fail at every
step, of which its caller makes no more than a line in the log.

What makes each component correct:

- **white list**: the map and the chain agree; the rule inserted last wins over the older ones.
- **gateway**: a banned client never reaches the application; whoever reaches it has used a ticket,
  once, in its lifetime; the controller and the application are always heard.
- **controller**: a client gets in by a fresh, correct voucher of a user with permissions only;
  the gateway is always heard; tickets are for registered applications.
- **application**: no more than the limit per minute; a refusal is lasting as long as it should and
  costs access only to the one refused.
- **event loop**: no event is handled for something that is gone; the application's call is answered in the
  end, whoever else calls; an entry stands for the connection it was made for, and what the loop has accepted it closes.
- **ssltools**: texts of every length come back, signatures bind.
- **the whole**: nobody reaches the application without both knocks; a ticket that opens the port was
  handed out by a controller that had let the address in; the programs always hear one another; callers and
  loops agree on who waits; an answered notice has closed the port; the blocking calls never wait in a circle,
  and a call that does not return, or a ban that does not end, has one of the causes named below.

The hazards found while reading, each at its line and with the properties that would notice it
going wrong, are listed in `PROJECT.json`.

## 2. Modules

    Firewall <-- refined by -- IPWhiteList          AccessPolicy <-- refined by -- Gateway
       ^ extended by Gateway, Controller            ControllerDigest extends Controller
    SDPSystem = C: Controller + G: Gateway + scanner + application + clients + network
                + CB, GB, AB: Backlog, one for each of the three servers
    Perimeter <-- refined by -- SDPSystem          (AccessPolicy is the Door of Perimeter)
    EpollDispatcher, Descriptors: the loop below each server       SplitBlocks: ssltools

**`Firewall`** is the white list and the chain in a *counting view*: for each address and port the
number of ACCEPT rules above the DROP rule (`accept`), and the ports that have a DROP rule (`drop`). A
packet reaches a port without a DROP or with at least one ACCEPT (`Reaches`). Each command succeeds or
fails as `CmdOutcomes` allows; `_ExecuteCmd`'s callers ignore its result, so the map changes in either
case. **`IPWhiteList`** is the same component with the chain as a *sequence of rules*, `iptables -I` at
the head and `-D` of the first match, and shows that the counting view is right
(`RefinesFirewall`, by an `INSTANCE` that counts). `Gateway` and `Controller` extend `Firewall`.

**`Gateway`** extends it with the process: `phase` follows the start-up (`Start` flushes the chain in
static initialisation, `InitRpcPort`, `InitAppPort`, `Run`), then one action for each handler.
`issued` holds the tickets that exist; each may arrive at any time, any number of times,
with any sender address. Time is two clocks that differ by at most `MaxSkew`; `timestamp +
valid_seconds` wraps at `Word` as the uint32 sum does. `Stop` loses the maps and keeps the
kernel's rules. **`AccessPolicy`** is the abstract specification: who is `open`, who is `banned`, which
tickets are `spent`; `Gateway` implements it under the mapping at its end (`ImplementsAccessPolicy`).

**`Controller`** has the same shape. A voucher carries an account, whether its password is correct,
and its digest; the digest is one of few values since the code keeps one byte of it. `ConFuncRegisterApp`
does not ask who its caller is, so any of `Registrars` that the firewall lets through may register.
**`ControllerDigest`** adds the history of the vouchers that have arrived.

**`Application`** models the two judgements of one request as two actions, because the first ends with
a call that leaves the process and during which time passes and other requests queue. Zero visits
stand for a missing map entry. The minute is stored through an int (`ToInt`).

**`SDPSystem`** composes the programs. `C` and `G` are *instances* of `Controller` and `Gateway` with
their own variables; an action joins the handler of one of them with what it does to the program that
called it. A call is a connection in the **`Backlog`** of the other program, then accepted, then answered;
its caller blocks until it is answered or fails.

`Backlog` is the listening socket of an edge-triggered loop: `waiting`, the connections nobody has
accepted, and `events`, how often the loop will yet call `accept`. A connection adds an event or, coming
together with another one, shares one; there is room for two, one in the batch at hand and one in the
kernel. `Accept` takes the first connection for an event, `AcceptFails` uses the event up for nothing, and callers
that are gone leave their connections behind (`Leave`). `Missed(x)` says that the loop will not come to x by itself.

| Action | Code |
|---|---|
| `ControllerStarts`, `ControllerRuns` | static initialisation, then the constructor; `main` detaches the scanner before it constructs the controller |
| `Register`, `ServeRegister` | the end of the gateway's constructor, the only call of `RegisterApp`, and its handler; `RegistrationReturns` is `Run` |
| `ScannerCalls` | `sleep(30)` and the call of `BlackListOp`, ADD and DEL in turn, whatever they return |
| `GatewayAccepts`, `ServeOrder`, `ServeNotice` | `HandleRPCAccept`, then `HandleRPCRequest` with the handler |
| `DropOrder`, `DropNotice`, `ControllerDrops` | the handshake, the request or the answer fails against a server that runs |
| `Knock`, `Fetch`, `ServeAccess`, `Connect`, `RequestArrives` | the test client's sequence; `GiveUp` is a connect that gets no answer |
| `ControllerHangs` | `SSL_accept` in the controller's loop, with a client whose packets are dropped or who has left unnoticed |
| `VoucherArrives`, `TicketArrives` | a datagram, at any time, any number of times |
| `AppAccepts`, `HandshakeEnds` | `HandleRPCAccept`, with `SSL_accept` on a socket that still blocks |
| `ControllerAcceptFails`, `AppAcceptFails` | `accept` finds no descriptor; the event is consumed |
| `AbandonFetch`, `Abandon`, `OrphanEnds` | the port of a connected client was closed; what it sends about that is dropped, too |
| `Judge` | `AppFuncHttps`: served, or refused with the notice to the gateway |

A call of a process that is down fails; so may any other, at once (`socket`, `connect`) or later. Its sockets
are opened by a constructor that comes after the flush, and whether it has come there in its first phase is left
open. A call that was accepted outlives its caller and may be served after the caller's process has ended.
`overdue` records that an order to lift the ban was begun and has not been carried out.
**`MCSDPSystem`** gives the constants their values.

**`Perimeter`** is the abstract specification of the whole: who was ever let in by the controller (`letIn`), which
tickets were handed out, to clients let in only (`HandOut`), and a `Door` that obeys `AccessPolicy` and uses only
tickets that were handed out. It knows no programs, calls or restarts but those of its door.
`SDPSystem` implements it (`ImplementsPerimeter`, part of `Implements`).

**`EpollDispatcher`** is the edge-triggered loop: `ready` is the kernel's list, each descriptor on it
at most once, `events` the batch `epoll_wait` has returned. `HandleError` is the error branch and the
EPOLLIN branch that follows it for the same event: it looks the erased entry up again, which inserts
one without a connector, and reads through it.

**`Descriptors`** is the table of descriptor numbers of one server (`Process` says which: they differ
in when they call). `file[fd]` is the socket behind a number, `fdmap` the entries with their
connectors, `fd_data` Dispatch's copy of an entry, `call` the connector of a call under way. The kernel
gives out the lowest free number. Some numbers may be open from the start (`Inherited`: a terminal, a pipe): when
`accept` fails, the number nobody has set may be one of them, or any other, and `epoll_ctl` decides
(`DispatcherAdd`). `HangUp` and `EraseEntry` are Dispatch's error branch: the number is closed, then the entry goes and
with it its connector; an event that says input besides is read through the entry that `fdmap[fd]` inserts, and
the process dies. A connector remembers a number, and when the last share of it goes (`DestroyFdData`,
`EraseEntry`, `CallReturns`) its alert is written to whatever is behind that number then.

**`SplitBlocks`** walks through encryption, decryption, signature and verification of a text longer than
one block, one action for each round of a loop. A block is represented by the bytes it was made from. What is
verified is what `DecryptTicket` takes from the packet (`Receive`): the signature `RSASign` has made, or other
blocks, signed or not, with or without a part of a block after them.

`IPWhiteListProofs`, `GatewayProofs`, `ControllerProofs`, `ApplicationProofs`, `SDPSystemProofs`,
`DescriptorsProofs`, `DispatcherProofs` and `SplitBlocksProofs` hold the theorems.

Definitions named `Faulty...` are slips of the definition that follows them; no specification uses
them. Each shows what a property notices.

## 3. What the runs check

| Run | Shows |
|---|---|
| `gateway` | all safety and action properties of the gateway, and that it implements `AccessPolicy` |
| `ipwhitelist` | first-match evaluation equals counting, also after failed commands; the chain refines the counting view |
| `controller` | who gets in, that the gateway is always heard, that nobody is in for nothing |
| `controller_digest` | a fresh, correct voucher refused as a repetition (violation) |
| `application` | limits, refusals and lateness around the turn of a minute |
| `dispatcher` | fresh events, no full buffer unnoticed, never all callers stuck, one connection per call, calls return |
| `dispatcher_orders` | the scanner's order is never answered (violation) |
| `split_blocks` | round trip, for which signatures `substr` stays in bounds, what a signature binds |
| `system` | `SystemInvariant`: types, both knocks before access (`OpenAfterBothKnocks`), programs that hear one another (`CallsHeard`), backlogs and loops that agree with their callers (`NobodyForgotten`), bans somebody will lift or whose lifting failed (`BansAreScanners`); `Implements`: the two servers' specifications and `Perimeter`; notices close; what a call that never returns waits for (`EveryCallReturns`), why a ban would not end (`BanEnds`), why a connection would not be accepted (`AcceptedUnlessCutOff`) |
| `system_cutoff` | cutting one client off stops the application for another one, whose connection was reported (violation) |
| `descriptors` | connectors own their numbers, what leaks, at which numbers a null connector can be met, where alerts go, in a process with one thread |
| `descriptors_threads` | in the controller, whose scanner is a second thread, an alert reaches a foreign connection (violation) |

**Bounds.**

- *Gateway*: two clients, the controller and the application, whose host also runs a client
  (`Knockers`), so that a preset address knocks; two tickets, so that a second one may follow a ban and
  its lifting; `Word = 4` with clocks up to 3, so that the sum of a stamp and the lifetime wraps; one restart,
  which puts the rules of the first incarnation before the flush of the second. `MaxRules` caps
  duplicate rules (a preset host that knocks gets another rule each time) at two, one more than a
  property distinguishes.
- *Controller*: two clients and the gateway's address, which may also be forged; registrations from the
  gateway and from one client; a user and a stranger; two applications, so that a list can shrink; two digests, so that vouchers repeat and collide.
- *IPWhiteList*: two addresses, two ports, chains of four rules: DROPs of both ports with ACCEPTs on
  both sides of them. The theorems have no bound but `MaxChain`, which may be any number.
- *Application*: a minute of three ticks and five instants cross one turn of the minute; a limit of two
  and three counted visits reach the refusal; two queued requests survive a closed port. `IntMax` is
  beyond every instant: what happens otherwise is the last item of section 4.
- *Dispatcher*: a batch of two with three kinds of sources, so that a batch is cut and later events
  of it meet descriptors that were closed and given out again; four descriptors serve two callers
  and the remains of their earlier connections, so that `accept` never lacks one here: an accept that fails
  is in `Descriptors` and in `SDPSystem`.
- *SplitBlocks*: blocks of two bytes and texts up to five give no block, a part of one, one, two
  and two and a half; received signatures of no, one and two blocks (`MaxBlocks`), besides the genuine one of
  up to three, are shorter than, as long as and longer than the texts, each with and without bytes after them.
- *System*: two clients with an account each, one of which the scanner bans, so that each property about
  one client is tried with another one in its way; two vouchers whose digests differ (`DigestOf`: what a collision
  does is seen in `Controller`), two tickets, as many as vouchers can ask for, so that no ticket is withheld by
  the bound; and one stop of the controller or of the gateway, so that either meets rules, tickets and a partner
  of an earlier life.
  The lifetime of tickets is the subject of `Gateway` and stands still here. `system_cutoff` needs no
  stop. `MaxRules` is 1 and restricts nothing: only clients knock here, and each has one rule of a port at most.
- *Descriptors*: three free numbers are as many as an accepted connection, a leaked call and an entry that
  waits need, and are used up by six sockets, so that numbers come back and `accept` fails; a fourth is open from
  the start, and there is one behind which there is nothing.

Deadlock is checked where the system can always move within its bounds; it is switched off for
`Application` (the bounded clock ends), `SplitBlocks` (the algorithm ends), the dispatcher (a dead process
stops), `Descriptors` (the process dies or the sockets are used up) and `SDPSystem` (a loop hung in a handshake and
calls left in backlogs stop everybody, once vouchers and stops are used up).

**Fairness.** Two modules claim liveness.

- `EpollDispatcher`: `ErpcServer::Run` calls `Dispatch` in an endless loop, hence WF of `Dispatch`; a caller
  whose handshake succeeded sends its request in the next statements of `ClientRPCRequest`, hence WF of
  `Send(c)`; the scanner's `while (true)` calls again after every answer, hence WF of `Connect` for
  `Looping` callers. Nothing is assumed of clients, of datagrams, of hang-ups, or that the application
  ever calls.
- `SDPSystem`: a program that has been started goes on. The constructors are straight-line code
  (`ControllerRuns`; `GatewayStarts` once the process is up; `Register`); the scanner's loop sleeps and calls
  (`ScannerCalls`); the loops of the servers accept what an event tells of and answer what they have accepted
  (`ServeRegister`, `ServeAccess`, `ControllerDrops` of a caller that is gone or `ControllerHangs` in its handshake,
  `GatewayAccepts`, `ServeOrder`, `ServeNotice`, `AppAccepts`, `HandshakeEnds`, `Judge`). None of these is
  enabled without an event, or after it was used up, so what stays in a backlog stays there. Nobody has to start or
  restart a process, to knock, to send a request, or to deliver a datagram; no call has to fail; and that a client
  which was cut off is ever heard again (`OrphanEnds`) is not assumed.

## 4. Where the code does something else than it says

Four runs end in a counterexample; the quotations are under `findings`.

1. `MD5Encrypt` returns a string of length 1 (the result of `MD5_Final`): 256 digests in all, never
   forgotten, so a new voucher is taken for an old one (`controller_digest`). The width is the only
   reason: if the digests of different vouchers differed, none would be (`NewVouchersAreNew`).
2. Edge-triggered `accept`, once for each event: two simultaneous connections leave one waiting for a
   third, and the scanner's order may wait for ever (`dispatcher_orders`). The application's notice does return
   as long as the scanner calls again (`CallsReturn`), which it does not when both are left. In the system the
   same can happen to the gateway's registration, to a notice and to a client at any of the three servers;
   `EveryCallReturns`, `BanEnds` and `AcceptedUnlessCutOff` name it (`Missed`) as one of the few reasons for waiting for ever.
3. `SSL_accept` runs in the loop, on a socket that still blocks, without a limit of time. When the
   scanner's order closes a client's port between its connection and its handshake, nothing that client
   sends arrives, and no other client is accepted any more (`system_cutoff`). The controller's loop can hang in the
   same way, with a client that connected while its port was open and that a failed check or a restart shut out
   (`ControllerHangs`).
4. `DispatcherDel` closes a number before the connector that remembers it is destroyed. In the
   controller the scanner thread can get that number in between, and the alert of the destroyed
   connector goes into its connection (`descriptors_threads`).

Noticed while modelling and described here without a run:

- Results of iptables commands are dropped. When `-D` fails, a banned client still reaches the
  application, although `sdp_gateway_config.h` line 38 gives the order the highest priority; the theorems about bans assume that commands
  succeed (`CmdOutcomes = {TRUE}`), and with `{TRUE, FALSE}` in `Gateway.cfg` TLC shows `BlackListFirst` violated.
- The gateway's memory of used tickets ends with the process, while a ticket lives for 30 s: it works
  again after a restart.
- The gateway registers the application once, in its constructor. A controller that restarts, or was
  down at that moment, never hears of it, and no user is let in until the gateway restarts too.
- A controller that dies between its two orders leaves its ban in place until the next controller's
  scanner has gone round once, and an order to lift a ban that fails, of which the scanner only makes a note, leaves it
  for another round; `BanEnds` says so.
- A hang-up or reset may report input in the same event: the error branch erases the entry, the EPOLLIN branch
  looks it up again, which inserts one without a connector, and reads through it (`HandleError`, `EraseEntry`).
- Sockets of calls are never closed: the scanner alone leaks two a minute, a limit of 1024 is reached in
  about eight and a half hours. When `accept` then fails, a number nobody has set goes to `epoll_ctl`: it may be that
  of a leaked socket or of a standard stream, and an entry without a connector is made for it (`NullOnlyAtStrangers`).
- `RSAVerify` tests for the last block by `sig.size() == rsa_size`. A signature with some bytes too many or too
  few is not recognised at its end; `substr` then starts beyond the end of the text and throws an exception nobody
  catches. Signatures of the form `RSASign` makes never lead there (`WellMadeNeverThrows`).
- A connection to a client that was cut off is never reported again and stays in `fdmap`.
- `Freq.min` is an int compared with a `time_t`: after 2038 every request is the first of its minute.
- `_RequestForwardWithCmd` returns 0 whatever the service returned; `GateFuncNotice` and
  `ClientTCPRequest` have no `return`. The callers do not look.
- The result of `recvfrom` is not tested, and `substr(4)` throws for a shorter datagram.
- `sdp_application_config.h` lines 9-10 call a limit of 10 seconds two hours.
- The constructor of the application's server leaves `udp_fd_` uninitialised; no signal handler or flag
  guards the writes against SIGPIPE.

## 5. What is proved

TLAPS proves the following for every value of the constants, from the named assumptions of the modules
and, where it says so, one more.

**White list** (`IPWhiteListProofs`), whichever commands fail

- `TypeCorrect`, `FirstMatch` (the first rule that matches decides as the counts say) and `Refinement`
  (an operation on the chain is the operation of `Firewall`). The inductive invariant says that the chain
  holds rules of the two kinds only (`Shaped`), so that a packet can match nothing but its
  address's ACCEPT and the DROP of its port (`OnlyTwoMatch`). Each command has a lemma on what it does to a
  count: ACCEPTs put above a chain are added to it (`CountAbove`), a DROP on top hides what was counted
  (`CountUnderDrop`), taking out the first ACCEPT takes one away if one was counted (`CountWithout`). They
  count by bijections between places in the two chains (`SameSize`), not by induction.

**Gateway** (`GatewayProofs`)

- `TypeCorrect`, whether commands fail or not.
- `ReopensByTicket`, also when commands fail: a failing command can add a rule only where `Admit` adds one.
- `AdmittedInTime`: from the invariant `ClocksAgree` (skew) and two facts about the remainder.
- For commands that succeed (`CmdOutcomes = {TRUE}`): `BannedStayOut`, `TicketBehindEveryOpening`,
  `MapMatchesKernel`, `HostsAlwaysHeard`, and `Refinement` (the gateway implements `AccessPolicy`). The
  first item noticed in section 4 shows why the assumption is needed.

The last five rest on one inductive invariant, `IInv`. None of the properties is inductive alone:
that a banned client stays out needs the ports to be guarded in every phase after the one that
guards them (`RpcGuarded`, `AppGuarded`), that a rule of a client exists exactly when the map says so
(`AppGuarded`: otherwise a ban removes nothing), that the map's entries are of clients with a used ticket
that are not banned (`Backed`), that the start-up begins from an empty map (`Entered`), and that a
process that does not run remembers nothing (`Forgotten`: otherwise a restart would begin with a black
list whose clients the start-up lets in). `StepInvariant` has one step for each action; the steps on the
chain cite the lemmas at the head of the module, one for each operation of `Firewall`, that say what it leaves
in the map, in `accept` and in `drop`. `StepRefines` maps each action to its abstract one: `Stop` to `Stop`, `Run` to
`Serve`, the other start-up steps to `Rebuild`, an admission to `Admit`, orders and notices to `Ban`,
`Unban`, `Close` or a stutter.

**Controller** (`ControllerProofs`)

- `TypeCorrect`, with the finiteness of the set of vouchers as its strengthening (else their number is
  nothing that can be counted); `PermissionsFollowApps`; `TicketsAreCurrent`, which needs the former, since a
  stranger gets no ticket only because nothing ever permits one; `OnlyKnocksDecide`. All four hold
  whichever commands fail.
- For commands that succeed: `GatewayIsHeard` and `NobodyInForNothing`. Their inductive invariant says
  that the gateway's preset entry is never one a knock could remove (`Guarded`: it keeps the mark, not the
  port), that map and chain agree on the clients, and that an entry or a permission exists only
  after a registration (`Registered`). The controller guards one port, so its lemmas on the white list are its own,
  and shorter than the gateway's.
- `NewVouchersAreNew`, the converse of the run `controller_digest`: as long as the digests of different
  vouchers differ (`DigestsDiffer`) a voucher that has not arrived is not taken for a repetition. `OthersDigests` says why:
  what `md5_map_` holds are digests of other vouchers.

**Application** (`ApplicationProofs`), while the times fit into an int (`MaxTime <= IntMax`)

- `TypeCorrect`, `LimitHolds`, `RefusalLasts`, `LateOnce`, `ServedKeepsAccess`. The invariant ties the
  history of a minute to what the map counts: `Counted` (never more than the map's count, and none unless
  the entry is of this minute), `StillOver` (a refusal leaves the count above the limit until the minute
  ends) and `Visited` (a refusal for lateness is itself a visit). That a new minute is a later one is the
  lemma `MinuteGrows`, proved from division with remainder for every length of a minute.

**System** (`SDPSystemProofs`), for any number of clients, vouchers, tickets and stops

- `ImplementsController`, `ImplementsGateway`, and from them `SystemImplementsComponents`: every step is a
  step of `Controller` and of `Gateway`, or leaves them alone (`GatewaysPart` lists the steps that do not). For the
  gateway this takes that tickets are only ever handed to clients (`TicketsOfClients`), since `Gateway` knows no other.
- The theorems of the two components are instantiated (`CP`, `GP`) rather than proved again; their
  assumptions follow from those of the system, and commands succeed here by definition. So `BansHold`
  is the gateway's `BannedStayOut`, in the system.
- `NoticesClose`: an open client has a rule of its own (`OpenByRule`), and the notice removes it.
- `BothKnocksFirst`: the invariant `Knocked` follows a client backwards, across restarts of either
  process: a used ticket was issued, a ticket is issued to an address the controller has let in
  only, and its port is open to no address it has not let in by a voucher.
- `KeepsThePerimeter`: the system implements `Perimeter`. `StepDoor` takes the gateway's own refinement of
  `AccessPolicy` from `GatewayProofs`; what is left is that only `VoucherArrives` lets in, that only `ServeAccess`
  hands out, to somebody let in (`TicketsByAccess`), and that a ticket is spent only by `TicketArrives`, which takes
  one that was issued (`StepPerimeter`). With `SystemImplementsComponents` it makes `SystemImplements`.
- `CallsAreHeard`: the gateway's `RpcPortOnlyHosts` and the controller's `GatewayAlwaysHeard`, instantiated.
- `NobodyIsForgotten`: the invariant `QInv` says where a caller can be. `Asked`, `Ordered` and `Served` are about
  the callers of the three servers, `LoopType` and `ScannerType` about those that call; each is kept because nobody
  is queued twice (`Once`), since a second connection of a caller would outlive the removal of the first. `Appended`,
  `Taken` and `Emptied` say what the three ways to change a queue leave in it, `BacklogSteps` what the steps of
  a `Backlog` do, and `ControllersBacklog`, `GatewaysBacklog` and `AppsBacklog` carry that to its three instances.
  `StepAsked`, `StepOrdered` and `StepServed` have one step for each action that disturbs them.
- `OnlyTheScannerBans`: needs that a gateway that does not run bans nobody, that the scanner is "off" exactly when the
  controller is down, that its orders are pending exactly while it waits for them (both from `QInv`), and that
  no order is served behind its back: until the controller stops, an accepted order has a caller that waits
  (`BanInv`). A ban whose DEL failed is not excluded; it is what `overdue` remembers.
- `TypeCorrect`, and `SystemIsSafe`, which puts the parts of `SystemInvariant` together.

**Descriptors** (`DescriptorsProofs`), for any set of numbers

- `TypeCorrect`, `ConnectorsOwnTheirFds`, `NullNeedsAStranger`, `LoopClosesWhatItAccepts` in all three
  servers, whatever numbers are open from the start. None is inductive: the invariant adds what the thread of the
  loop has in its hands at each of its steps (`InHand`, `Handled`, `Destroyed`) and that the map and the epoll set have
  the same numbers.
- `AlertsStayHome`, for `Process # "controller"`: with one thread nothing is opened between `close` and the
  destructor (`OneThread`). The run `descriptors_threads` shows why the assumption is needed.

**Event loop** (`DispatcherProofs`), for any number of callers and descriptors and any batch

- `TypeCorrect`, `EventsAreFresh`, `FullBufferIsRead`, `SomebodyIsAccepted`, `OneConnectionPerCall`. The
  heart of the invariant is `Work`: a descriptor that is on the kernel's list *and* in the batch has
  work for both (two datagrams, two connections), because the batch will use up one of them before
  the list becomes the next batch. `Once` says that neither holds a descriptor twice; `Owned` and `Answered`
  are `FdmapIsLive` without counting.

**Splitting into blocks** (`SplitBlocksProofs`), for any bytes, any size of a block and texts of any length

- `TypeCorrect`, `DecryptInvertsEncrypt`, `WellMadeVerifies`, `SignaturesBind`, for any received signature. Induction over a text
  is out of the provers' reach and is not needed: the invariant follows each loop round by round. While a loop
  writes, block *j* is the part of the text at `At(j - 1)` and what is left begins at `At` of the number
  of blocks written (`Cutting`); when it has ended, only the last block may be short (`CutUp`); while one
  reads, *n* blocks are read and what they stand for has been given back (`Decrypts`), or agrees with the
  claim (`Verifies`, `Matched`). That blocks agree is why, in a well-made signature, a block that is not the last
  one stands for as many bytes as `substr` skips. `WriteMore`, `WriteLast`, `ReadBlock` and `OneMoreMatched` are the rounds.

**Only model-checked**: liveness, that is `CallsReturn`, `EveryCallReturns`, `BanEnds` and
`AcceptedUnlessCutOff`. Their proofs would need what follows from fairness and ENABLED, which the provers
here do not treat. Every invariant and every action property of the passing runs is a theorem.

## 6. What is not modelled, and why

- The arithmetic of RSA and TLS, protobuf's wire format, the packing of packets, reading key files,
  logging, the vendored OpenSSL, and programs that are run by hand to try things out.
- `iptables -Z` and `-X`, which concern no rule. `iptables -I` and `-D` are modelled from how they are called.
- Packets that cannot be deciphered: they change no state of the gateway and are not enumerated.
- Functions without a caller: `DispatcherMod` and the write event, the copies of `HandleWrite` that take a
  descriptor, `UpdateUserPerssion_Del`.
- Record boundaries: a request is there or not. The loop reads once and closes, so a request
  that arrives in two pieces is dropped; whether that happens is the network's choice.
- Datagrams shorter than four bytes, for which `substr(4)` throws; a voucher or ticket whose verification throws is
  not a step of `Controller` or `Gateway` either.
- In the system: the controller accepts and serves a call in one step, since a caller sends its request with its
  handshake, and the return of a call is one step with its end. An order whose caller has ended is kept as accepted,
  once for each kind. A client's request is served while its port is open only. Only the gateway registers,
  and `accept` does not fail in the gateway, whose process makes one call in its life and closes what it accepts.

The map therefore covers a part of the repository's own code only, and a small part of all its
lines, nearly nine tenths of which are OpenSSL's.

## 7. What is left to do

- `SSL_accept` that waits without a limit is in `SDPSystem`; `EpollDispatcher` still assumes that a
  handshake ends and that `accept` finds a descriptor.
- Calls that leak descriptors are in `Descriptors`; in `SDPSystem` an `accept` may fail at any event. A composition
  of the two would say how long the system runs until it does.
- Time in `SDPSystem`: tickets that expire on their way from the controller to the gateway.
