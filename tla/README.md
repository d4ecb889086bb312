# godivert: a TLA+ verification project

godivert is a Go binding for WinDivert, a Windows driver that hands packets and
network events to user programs. The library installs the driver on demand,
compiles a textual filter into a program the driver runs, opens a handle, and
moves packets through it by overlapped I/O. This directory holds TLA+ models of
the parts with logic of their own, TLC runs on small instances, and TLAPS proofs
of the main results for all values of the constants.

Line references (`raw.go:295`) are to the repository's files; `PROJECT.json`
maps every definition of a module to the lines it stands for.

## 1. The system

| Component | Source | State it keeps | Operations |
|---|---|---|---|
| Overlapped I/O of a `Divert` | `divert.go`, `raw/raw.go` (Recv, RecvEx, Send, SendEx, ioControl) | one handle, ONE `windows.Overlapped` with an auto-reset event | Recv, RecvEx, Send, SendEx, Close |
| Handle parameters, shutdown | `raw/raw.go` | none in the process | SetParam, GetParam, Shutdown |
| Opening a handle | `divert.go` New, `raw/raw.go` OpenWithName, `types/flags.go` | arguments, device handle, two events | New, NewWithName |
| Driver installation | `raw/raw.go` openOrInstallDriver, `sys/sys.go` | extracted file, named mutex, service | LoadEmbedSysFile, LoadDriver |
| Filter compiler: tokenizer | `compile/token.go`, `token_const.go`, `types.go` | list of tokens | TokenizeFilter, scanConditionToken, scanNumber, expandMacro |
| ... parser | `compile/expr.go` | position, remaining depth | ParseFilter, ParseAndOrArg, ParseTest |
| ... tables | `compile/token.go` TokenLookup, `compile/expr.go` makeVar | two sorted tables | binary search |
| ... simplification | `compile/flatten.go` SimplifyTest, compare128 | none | fold a test against its field's limits |
| ... flattening, emission | `compile/flatten.go` FlattenExpr, `compile/emit.go` | list of tests, label counter | FlattenExpr, EmitFilter, EmitTest |
| ... analysis | `compile/analyze.go` | one Boolean per instruction | AnalyzeFilter, condExecFilter |
| Driver messages | `types/` | bit fields | Filter.Marshal, accessors |
| Packets | `helper.go`, `types/ip_headers.go` | none | ParsePacket, CalcChecksums |
| Bit fields | `types/ip_headers.go`, `types/types.go` | one word for several fields | getters and setters |
| Bandwidth limiter | `examples/bandwidth_limiter` | channel, virtual clock, counters, one buffer | receive, lose, stamp, throttle, enqueue; dequeue, sleep, send |
| Flow monitor | `examples/flow_monitor` | map of flows, a mutex | events in, copy and draw |
| DNS sinkhole | `examples/dns_sinkhole` | none | parse the query, forward or answer it |
| Other examples | `examples/demo`, `examples/recvex` | none | loops around Recv and Send |

How they interact. `New` calls `OpenWithName`, which checks the arguments, calls
`CompileFilter` (tokenizer, parser with its tables, flattening with
simplification, emission) and `AnalyzeFilter`, opens the device (installing the
driver if it is missing) and sends the driver Initialize and Startup. From then
on the goroutines of the program share the `*Divert`; nothing in the library
locks it. Different processes meet in the named mutex, the driver file and the
Windows service.

What is hard:

- **Concurrency**: several goroutines on one Overlapped and one auto-reset event;
  a Close beside a Recv; several processes and OS threads at the mutex (a Windows
  mutex belongs to a thread, a goroutine does not).
- **Crashes**: a process dies between Start and Delete of the service, or with
  the mutex.
- **Partial failure**: eight calls in a row in New, each of which may fail.
- **Ordering**: labels count backwards and positions forwards; the analysis goes
  backwards over a program that runs forwards; precedence of `and` and `or`.
- **Boundaries**: field limits in 128-bit numbers with a sign, index bounds,
  depth, length; structures laid over bytes, in two byte orders.
- **Time**: the limiter's virtual clock runs ahead of the time and must neither
  exceed the rate nor waste it, whenever the scheduler wakes.

`PROJECT.json` lists every hazard at its line with the properties that cover it,
or a note why none does.

What makes each component correct:

- I/O: a call returns its own result, never another's; it reports no false
  error; the driver has let go of the buffer when it returns; a Send ends; Close
  lets a waiting Recv go.
- Installation: one installer at a time, through crashes; success means the
  device can be opened and the deletion of the service has been asked for; it ends.
- Opening: an error leaves nothing open, success means a started driver that was
  told consistent flags.
- Filter: the parser accepts the language and nothing else; the program decides
  what the text says; jumps go forward; limits refuse exactly what is too long
  or too deep; the flags given to the driver miss nothing the filter accepts;
  each token is what its characters spell.
- Packets: checksums that verify, a payload that begins behind the header;
  fields that share a word do not disturb each other.
- Limiter: a delay line (in order, at most once, not too early, with the right
  bytes) that keeps its rate and counts every packet.
- Monitor: the screen comes to show the flows that there are, from a copy of one
  moment. Sinkhole: a blocked query does not leave, and its reply is one to it.

## 2. The modules

| Module | Models | Used by |
|---|---|---|
| `DivertCalls` | what a caller may expect of Recv and Send (abstract) | `DivertIO` (INSTANCE ... WITH) |
| `DivertIO` | Divert, ioControl, Close, with Windows and the driver | `MCDivertIO`, `MCDivertLife`, `DivertIO_proofs` |
| `DriverInstall` | openOrInstallDriver, LoadEmbedSysFile, LoadDriver | `MCDriverInstall`, `DriverInstall_proofs` |
| `OpenHandle` | New, OpenWithName | `MCDivertLife`, `OpenHandle_proofs` |
| `TokenScan` | TokenizeFilter, scanConditionToken, scanNumber, expandMacro, ValidateField, ToField | `MCTokenScan`, `MCFilterCompile`, `FilterCompile_proofs` |
| `FilterParse` | the parser | `FilterGrammar`, `FilterCompile_proofs` |
| `FilterGrammar` | no code: the language that the parser is compared with | `MCFilterParse`, in `MCFilterCompile` |
| `TableSearch` | TokenLookup, makeVar | `MCFilterCompile`, `FilterCompile_proofs` |
| `FilterSimplify` | SimplifyTest, compare128 (operators) | `FilterFlatten` |
| `FilterFlatten` | FlattenExpr, EmitFilter | `MCFilterFlatten`, `MCFilterCompile`, `FilterCompile_proofs` |
| `FilterAnalyze` | AnalyzeFilter, condExecFilter | `MCFilterAnalyze`, `FilterAnalyze_proofs` |
| `Packets` | ParsePacket, CalcChecksums (operators) | `DnsSinkhole`, `MCPackets` |
| `BitFields` | getters and setters of fields that share a word | `Examples` |
| `DelayLine` | what the limiter makes of the network (abstract) | `BandwidthLimiter` (INSTANCE ... WITH) |
| `BandwidthLimiter` | the limiter's goroutines, channel and clock | `Examples`, `BandwidthLimiter_proofs` |
| `FlowMonitor` | the map of flows, its lock, the drawing goroutine | `Examples` |
| `DnsSinkhole` | the parser of queries and the reply | `Examples` |
| `Examples` | the example programs and the packet helpers side by side | `MCExamples`, `Examples_proofs` |
| `Recursion` | no code: lemmas about recursive functions | `BandwidthLimiter_proofs`, `Examples_proofs`, `FilterCompile_proofs` |

Three modules put components into one run. `MCDivertLife` composes: `New`
(`OpenHandle`) and then the use of the Divert that it returned (`DivertIO`), by
a receiver and by a signal handler that closes it. `MCFilterCompile` and
`Examples` (with its inputs in `MCExamples`) run components that do not share state side by side: each behaviour
is one of one component, and the others stand still.

Each `MC*` module gives the constants their values; each `*_proofs` module
extends its component, or `Examples`, with TLAPS. A definition headed "Mutant:" is a plausible
bug; it is part of no specification. `PROJECT.json` pairs each property with a
mutant that violates it.

### DivertIO and DivertCalls

State: a program counter, operation and call number for each goroutine; the
Overlapped (`internal` = Internal, `high` = InternalHigh, `hEvent`); the event
object and whether its handle is open; the file handle; for each call what
became of its request in the driver. A byte count is represented by the number
of the call whose completion wrote it, so that two results are never confused.

A call is `BeginIo`, then `BadArguments` or one of `IssueRefused`,
`IssuePending`, `IssueDone` (DeviceIoControl), then `SkipWait`, `StartWait`
(which fails when the handle to wait on is closed), `Wake`, `FetchResult`
(GetOverlappedResult, one action for each access to the shared structure), then
`Return`. Close is `BeginClose`,
`CloseEvent`, `ClearHEvent`, `CloseFile` (or `SkipEvent`). The data race on
HEvent is covered by interleaving these steps. `Complete` is the driver.
The callers' mutex (`Locked`) is the one of `examples/bandwidth_limiter`.

External: what the kernel does with an Overlapped (it is marked pending, the
event is reset when a request is issued and set when it completes; a request is
refused on a closed handle; closing the file cancels what is pending; a wait on
the object survives the closing of the handle that named it).

`CallsSpec` maps a call to `DivertCalls`: asked until its request is completed,
answered until it returns.

### DriverInstall

State: a program counter per installer (a goroutine), the thread it waits with,
the mutex's owner and recursion depth, the file, the service (present, marked,
disabled) and whether the driver runs. Actions are the calls of LoadDriver in
order, with the deferred ones (`CloseService`, `Release`, `CloseMutex`) where Go
runs them. The wait for the mutex may fail (`WaitFails`), and so may DeleteService,
which LoadDriver ignores: `Delete` leaves the service unmarked then, and the history
variable `refused` remembers it until the device has been opened, so that
`LeavesServiceMarked` can except this one path and no other. `Release` runs on any thread the goroutine may run on, which is its
own only when it is pinned. External: `Crash` (a process ends, its mutex is
abandoned), `Purge` (a marked, stopped service goes away), `Meddle` (another
program creates, disables or stops the service). The path in the service's
configuration is taken to be that of the extracted file.

### OpenHandle

One action for each step of OpenWithName and New, each of which may fail. State:
the device handle, the two events, how far the driver has come and what it was
told. The model's `lost` records one path: when CreateEvent fails (raw.go:92)
OpenWithName returns without closing the device handle. `NothingLeftOpen` names
this exception.

### TokenScan

A text is a sequence of atoms: the characters that the scanner distinguishes
(punctuation, a blank, three digits, `b`, `x`, a letter and a character that
belong to no token) and, as one atom each, a keyword and a dotted address. One
action for each turn of TokenizeFilter's loop (`TooManyTokens`, `SkipSpace`,
`Finish`, `ScanToken`). `TokenAt` is scanConditionToken and, where that finds
nothing, scanNumber: the run of letters and digits (`WordRun`), the colon that is
put back (`WordOf`), and what the word is taken for (`Judged`). `ScannedAsWritten`
compares with a definition of what a token may look like (`Spells`, `IsToken`) that knows
nothing of the order in which scanNumber tries them, nor of what is put back.
Of the fields that have the same layers one keyword is kept.
`ScanLimits`: a word may have more than two atoms, as `tokenMaxLen` says.

### FilterParse

It takes the tokens as they come; where the code would index a token that does
not exist, and panic, the result is the error `outside`. The parser's functions
have the code's names, order of errors and depth arithmetic. They call each other,
so they are one recursive function `ParseCall` of which parser is called, at which
token and with which depth: each operator is the body of one of them and has the
function as its argument `f`. The loop of ParseFilter is the call `more`. An
expression is the list of its tests and connectives in postfix order, which says
the same as the code's tree. Of the kinds that name a variable one is kept.

`FilterGrammar` compares the parser with `OrReadings`, a grammar that knows nothing
of it: which truth values the tokens lo..hi can be read as, by splitting at every
`or`, `and`, `?` and `:`. `SameLanguage` says that the set is empty where the
parser fails, and is the value of the parser's expression otherwise, so that it
also says that the grammar is unambiguous.

### TableSearch

The loop that TokenLookup and makeVar share; an entry is its rank. The table of
makeVar is given by the kinds' numbers in `token_const.go`.

### FilterSimplify and FilterFlatten

Numbers are a sign and four words as in the code. The largest word is a constant
(`WordMax` = 0xFFFFFFFF, `WordHalf` its half); the runs take 31-bit words, because
TLC has no larger ones, and the proofs words of any width that holds the limits
of the fields. `Numerals` leaves out -0, which compare128 takes for less than 0.
`FilterFlatten` compiles an expression in the two steps of `CompileFilter` and
keeps `label`, `ip`, targets and the reversed order. An expression is a member of
the set `Exprs`, which holds its parts, too, and has a height above theirs; so
FlattenExpr is a recursive function whose body is `FlattenParts`, and no property
needs an expression's size. A packet considered for a filter suits its tests
(`Suits`): it has their headers, and a field's value lies within its limits.
External: `Run`, the driver's interpreter (it starts at instruction 0, refuses
jumps that do not go forward), and `Satisfies`, when a packet passes a test (a
field of an absent header fails).

### FilterAnalyze

`Needs` are the questions (field = value) behind each flag, `ExecInstruction` one
turn of condExecFilter's loop, `NextQuestion` and `Decide` the calls of
AnalyzeFilter with Go's short circuit. The driver's run of the program (`IsRun`)
is defined apart from it, and assumes nothing of jumps that go backward or of
tests with wide arguments.

### Packets and BitFields

A packet is the sequence of its bytes. Where the code lays a structure over the
bytes, a field is read and written in host order (`HostWord`, `StoreHost`);
where it uses encoding/binary, in network order (`Word`). ParsePacket's pointers
are lengths and offsets; `Panics` is the case in which CalcChecksums slices
before the packet. IPv4 packets whose header length is below 20 are not among
the inputs: the header's structure then reaches over the next one. A word of
`BitFields` is the set of its bits that are 1, a field lists its bits and the
bits its setter's mask keeps.

### BandwidthLimiter and DelayLine

State: where the main and the scheduler goroutine stand, the buffer, the times
and the channel, the three counters, and history variables (when each packet
was captured, what was sent). A packet's number stands for its bytes; the buffer
is written by `Recv` while copies of earlier packets wait. Time is discrete and
passes between any two steps, so that the scheduler may wake late. `Close` and
`Exit` come at any time. `LineSpec` maps a packet to the line from its capture
to its send; it takes for granted that Recv and Send deliver their own results,
which this program's use of its Divert does not ensure (`DivertIO_limiter`). A Send is
two steps: the driver takes or refuses the packet (`Send`, `SendFails`), and the
call returns (`Count`), which may never happen: Recv waits for the same event
without a mutex and may take the signal (raw.go:295). sendMutex has one user and is left out; the counters' printer,
which races with them, too.

### FlowMonitor

State: the flows of the machine, the driver's queue of events, the received
event, the map, the drawing goroutine's copy loop, the screen, and the lock.
External: the driver (`Happen`) queues events in order and loses them at a full
queue; flows may be there before the program. A record is its endpoint's id.
The screen is all of the records (the code shows the first 25 of them).

### DnsSinkhole

One received packet is handled by `Forward`, `Spoof` or `StackOverflow` (the
recursion without end, of a pointer that leads back). Payload, reply and headers
are computed byte by byte, and a length that is stored keeps its 16 bits. Send
may fail. `ReceivedAssumption`: packets are bytes, and one that ParsePacket can
read has an IPv4 header of 20 bytes or more, which the filter's `udp.DstPort`
implies. `SegmentsAssumption`: what is given to CalcChecksums is bytes.

## 3. The runs

| Run | Shows | Instance |
|---|---|---|
| `DivertIO_locked` | `OwnBytes`, `NoFalseError`, `BufferReleased`, `CallsSpec`, `SendReturns` under one mutex | 2 goroutines with every operation, 4 calls; 123 378 states |
| `DivertLife` | `NothingLeftOpen`, `DivertIsStarted`, `FlagsAgree` of New; `CloseReleasesWaiter`: Close beside Recv, no mutex | all layers, all sets of flags, priorities at the limits, every failure; then a receiver and a closer, 3 calls; 20 329 states |
| `DivertIO_limiter` | violation of `OwnBytes` by the limiter's use | Recv bare, Send locked, 2 calls |
| `DriverInstall_pinned` | `MutualExclusion`, `StopIsHarmless`, `InstalledIsOpenable`, `LeavesServiceMarked`, `InstallEnds` | 3 pinned goroutines in 2 processes, 1 crash, 1 meddling, failing disk; 296 890 states |
| `DriverInstall_unpinned` | violation of `MutualExclusion` | 2 goroutines, 2 threads, not pinned |
| `FilterCompile_parts` | `SearchIsExact`, `SearchEnds`; `ScannedAsWritten`; `SameLanguage`, `ElementScaled`, `DepthIsEnough`; `SameMeaning`, `JumpsForward`, `LengthIsExact` | all 64 tables over 0..5 and makeVar's table, 101 keys; all texts of up to 5 characters of numbers, 4 of conditionals, 3 of comparisons, addresses, every keyword at every layer; all lists of up to 7 structural tokens (5 with comparisons), all `packet32` indices at the boundaries; all expressions of two levels over three tests, every field with every kind and numbers at all limits; 951 258 states |
| `FilterFlatten_constants` | violation of `SameMeaning` | `(x and y) or z` with `true` and `false` |
| `FilterFlatten_address` | violation of `AddressTestHolds` | IPv4 addresses as the tokenizer writes them |
| `FilterAnalyze_layers` | `FlagsSuffice`, `EventFlagsExact` | all programs of up to 2 instructions over 7 field tests, or of 2 over 8 event tests, at four layers; 1 334 290 states |
| `Examples` | `AllAccounted`, `RateHolds`, `ClockIsBacklog`, `LineSpec`, `GetsItsTurn` of the limiter; `CopyIsSnapshot`, `ScreenFollows` of the monitor; `SpoofAnswersQuery` of the sinkhole; `ChecksumStable`; `FieldsApart` | 3 packets of cost 0 or 2, latency 1, a channel of 1; 2 endpoints, 4 events, a queue of 2; some 500 DNS packets, some 80 others with every set of checksums to skip; all fields with 0, all ones, every second bit and each bit alone; 389 006 states |
| `Packets_checksum` | violation of `ChecksumsVerify` | ICMP, UDP and TCP packets |
| `Packets_tcp` | violation of `PayloadAfterHeader` | the same |

Why the bounds are enough. For the I/O, a fault needs two requests that overlap
and one more to observe the signal that is left; 4 calls give each of two
goroutines a second call after such a fault, before or after a Close. Three
installers are the fewest with two in one process and one in another; one crash
puts an abandoned mutex or an unmarked service in front of the other two, one
meddling a disabled or foreign service in front of any of the steps. (The proofs
do not depend on these bounds.) Seven tokens are enough for two operators
between arguments with one pair of parentheses, or one conditional in full;
`maxDepth` = 12 instead of 1024 lets four parentheses reach it, and
`tokensMax` = 9 lets the longest texts reach that limit. Two levels of
expressions contain each connective as either argument of each other;
`filterMaxLen` = 5 instead of 256 lies within their sizes. Programs of two
instructions have each kind of jump (accept, reject, forward, to itself,
backward); the theorem covers the others. Ten tokens and words of 16 atoms lie
within the scanner's texts, on both sides of the limits. A channel of one packet
is full with a second one in hand and a third behind it; packets that last
longer than the latency, and those of no size, put the virtual clock ahead of
and behind the time. Four events of two flows are a flow opened, closed and
opened again beside another one, with a queue that overflows. The DNS messages
have each kind of name (root, blocked and not, a pointer at its end, pointers
that lead to themselves, cut off) with each count of questions and each type
that is treated apart, in IPv4 with and without options and in IPv6. Again the
theorems do not depend on these bounds.

CHECK_DEADLOCK FALSE is set for code that computes and returns (opening, the
filter compiler, analysis, the packet functions) and for the examples, which end
at a Ctrl-C or when their bounded events have run out.
`DivertIO` and `DriverInstall` have no final state and are checked for deadlock:
goroutines can close or return at any time when calls have run out.

## 4. Fairness

- `DivertIO` (`DivertLife` takes the first and the last of these): `WF(Proceed(u))`, a goroutine that is inside a call goes on, as the
  Go scheduler and Windows guarantee for runnable threads; nobody is obliged to
  begin a call. `WF(MustComplete(n))`: the driver completes a send, which depends
  on no one else. A receive is completed only if a packet comes, so no
  fairness is assumed for it. `WF(Cancel(n))`: closing the file cancels what is
  pending (I/O manager).
- `DriverInstall`: `WF(Proceed(i))` as above, and `SF(Acquire(i))`, because Windows
  serves the waiters of a mutex in order. Crashes and meddling are bounded
  and not fair, and no wait is obliged to fail (`WaitFails`).
- `TableSearch`: `WF(Next)`, a sequential loop.
- `BandwidthLimiter`: `WF(SchedulerRuns)` and `WF(Tick)`: time passes, and the
  scheduler goroutine takes the next packet, wakes and gives it to the driver. That
  Send then RETURNS is not assumed (`Count` is not fair): Send shares one auto-reset
  event with a Recv under no mutex, and `SendReturns` of `DivertIO` holds only where
  every operation is under one. `GetsItsTurn` is therefore conditional, on
  `SendsReturn` ("the scheduler is outside of Send again and again"). Nothing is
  asked of the main goroutine, nor of who presses Ctrl-C; the end of the process
  counts as an end.
- `FlowMonitor`: weak fairness of the two goroutines, strong fairness of their
  `Lock` calls: Go's mutex hands itself to a waiter that has waited for a
  millisecond (starvation mode). Flows are not obliged to come or go.

`InstallEnds` starts at `extract`, and counts death of the installer's own
process as an end.

## 5. The proofs

| Module | Theorem | Says | Assumes |
|---|---|---|---|
| `DivertIO_proofs` | `TypeCorrect` | `[]TypeOK` | nothing |
| | `OwnBytesHolds`, `NoFalseErrorHolds`, `BufferReleasedHolds` | the promises of Recv and Send | `SerialUse` |
| | `ImplementsCalls` | `Spec => CallsSpec`: refinement of `DivertCalls` | `SerialUse` |
| `DriverInstall_proofs` | `TypeCorrect` | `[]TypeOK` | nothing |
| | `InstallationExcludes` | `[]MutualExclusion` | `AllPinned` |
| | `StopHarmsNoOne`, `InstallationHolds`, `ServiceIsMarked` | `StopIsHarmless`; `[]InstalledIsOpenable`; `[]LeavesServiceMarked` | `AllPinned` |
| `OpenHandle_proofs` | `TypeCorrect`, `LeavesNothingOpen`, `ReturnsStarted`, `TellsAgreeingFlags` | `TypeOK` and the three properties | nothing |
| `FilterAnalyze_proofs` | `FlagsSufficeAlways`, `StaysInTables` | `[]FlagsSuffice` for every program, packet and layer; `[]TypeOK` | nothing |
| | `EventsExactAlways` | `[]EventFlagsExact`: a program that tests events only is analysed exactly | nothing |
| `FilterCompile_proofs` | `SearchAlwaysExact`, `StaysInTable`, `LoopShrinks` | exact in every ascending table, within its bounds, each turn shrinks the interval | nothing |
| | `ScannedAlways` | `[]ScannedAsWritten` for texts of any length, any layer and limits | nothing |
| | `DepthAlwaysEnough`, `ElementsAlwaysScaled` | `[]DepthIsEnough` and `[]ElementScaled` for texts of any length and any depth | nothing |
| | `TextAlwaysRead` | `[]TextIsRead`: the parser never looks at a token behind the end, and what it accepts is the whole text | nothing |
| | `SimplifyKeeps` | SimplifyTest never changes what a test says, for every field, comparison, number and suitable packet | nothing |
| | `LengthAlwaysExact` | `[]LengthIsExact` for all filters and limits | nothing |
| | `JumpsAlwaysForward`, `ProgramMeansFilter` | `[]JumpsForward` and `[]SameMeaning` for all filters and packets: the program accepts what the filter is true of | `NothingDecided` |
| `BandwidthLimiter_proofs` | `TypeCorrect`, `AllAccountedHolds`, `RateIsKept`, `ChannelInOrder` | the invariants, for any latency, packet sizes and capacity | nothing |
| | `ShaperIsDelayLine` | `Spec => LineSpec`: refinement of `DelayLine` | nothing |
| | `ClockKeepsToBacklog` | `[]ClockIsBacklog`: the virtual clock is ahead of the time by no more than is still to be sent, for any queue | nothing |
| `Examples_proofs` | `CopiesSnapshot` | `[]CopyIsSnapshot` for any set of flows | nothing |
| | `FieldsStayApart` | `[]FieldsApart` for the four structures of the code, any sequence of setters | nothing |
| | `ChecksumsStayPut` | `[]ChecksumStable` for all packets of bytes | nothing |
| | `SinkholeAnswers` | `[]SpoofAnswersQuery` for all packets received, of any length | nothing |
| `Recursion` | `RecursiveFunctionExists` | a recursive definition whose calls descend in a rank has a function that solves it | nothing |

`SerialUse`: one goroutine uses the Divert, or every operation, Close included,
is under one mutex. `AllPinned`: every installer has called
`runtime.LockOSThread`, and different processes have different threads. Both are
obligations of the calling program; the violation runs show what happens
without them. `NothingDecided`: no part of a filter, other than the whole of it,
is a test that SimplifyTest decides; the code needs this, as disagreement 4
shows, and TLC finds it true of the expressions of `FilterCompile_parts`.
"Nothing" means nothing beyond the assumptions on the constants,
which the modules name and TLC evaluates.

The arguments:

- `DivertIO_proofs`. `OwnBytes` says something of returned calls only; to be
  inductive it needs to know what a call inside finds. `OverlappedIsOwn`: between
  DeviceIoControl and the result, the Overlapped holds the state of this very
  request (pending and the event not set, or its status and count);
  `PendingIsOwned`: there is no other pending request; `HandlesTogether`: outside
  of a Close the event is open whenever the file is; `OneAtATime` and
  `InsideHoldsLock` make all of this the caller's alone. `IInv` is their
  conjunction with `TypeOK`. For the refinement, `Numbered` adds that calls have
  different numbers, and `OthersUnaware` that a step of one goroutine does not
  change what the abstract state says of the others.
- `DriverInstall_proofs`. `MInv`: who waits does so with its own thread, and who
  is past the wait owns the mutex by that thread; exclusion follows because
  threads differ. `SInv` follows the service through the critical section
  (stopped while it is being repaired, present while it is held, running once
  installed, marked once deleted unless the deletion was refused) under `MutualExclusion`.
- `FilterAnalyze_proofs`. `LoopSound`: for each packet that answers the current
  question and each run of the driver on it, `result[k]` is TRUE at every position
  above `ip` from which the run accepts. One turn keeps this (`TurnSound`), by
  cases on the two jumps and on whether the test is about the asked field.
  `DecidedSuffice` collects what this gives for the flags that are decided.
- `OpenHandle_proofs`. `Resources`, `Progress`, `Checked`: what is open, how far the
  driver is and what was checked follow from the program counter.
- `FilterCompile_proofs`, search. The loop invariant: the key, if it is in the table
  at all, lies between `lo` and `hi`.
- `FilterCompile_proofs`, scanner. What `TokenAt` finds at a place is spelled as it
  was read (`TokenStands`), and nothing longer that begins there is a token (`Longest`: it
  is here that the colon and the "b" which are put back matter). A whole piece between two blanks that is a token is never
  refused (`Whole`). `ScanInv` ties this to the state: each token is the one that
  `TokenAt` finds at its position, and blanks alone lie up to the next
  (`TokensRight`, `FrontBlank`). For a refusal that is not enough: the scanner may
  stop behind good tokens of the same piece. `PassedRight` says that a piece which
  has been read in part is no token, so that the refused piece is none.
- `FilterCompile_proofs`, parser. ParseCall exists, for each call has a smaller depth
  or begins farther on (`Rank`). By induction on the same rank, every call is `Fine`
  in a text that ends with an end: it fails at a token of the text, or leaves at
  least the end (`Stays`); and it is too deep only if the depth is less than a share of
  the parser (`Share`: three levels for a filter, two, one, one) and the `Weight` of
  the tokens still to come, three for each "(" and one for each "or". The end is what makes this
  work: each token that a parser takes is another one, so there is a next
  (`NotTheEnd`). Each index of `packet32` is right when it is read (`ArrayIs`), and the lists
  only grow (`ScaledNodes`). `ParseInv` adds that there is one end, the last token.
- `FilterCompile_proofs`, simplification. compare128 is the order of signed numbers
  (`CompareIs`); what it says of a test's value and the limits of the field decides
  the test for every value in between (`DecisionIs`, by the six comparisons), and
  the header that replaces it is there (`SimplifyKeeps`).
- `FilterCompile_proofs`, flattening. FlattenExpr exists, for its calls go down in
  height; all facts of it are by induction on the height. `Sound`: the result is
  too long, or keeps the list and appends to it, with each target accepted,
  rejected or below its own label. `Below` and `Outcome` count the tests that are
  appended. `EntersLast`: where no part is decided, the entry point is the last
  label. `Leads` is the meaning: from the entry point, a run along the labels comes
  to `succ` if the filter is true of the packet and to `fail` if not. EmitFilter
  turns the list around, so that a label and its position add up to the entry point
  (`EmitValued`), and a run of the program follows the labels. `FlattenInv` says of
  each stage that the list and the program are these results.
- `BandwidthLimiter_proofs`. `RateHolds` speaks of what was sent; its reason lies
  in the virtual clock. `Fits`: the slot of each packet that waits begins after
  the costs of all that was sent and ends before the clock (`Frontier`); `Before`:
  the slots of two packets do not overlap and follow their numbers; `MainKnows`:
  what main has prepared lies at the clock's end. Their conjunction `IInv` with
  `TypeOK` gives the rate and the order of the channel. For the refinement, `Fits`
  adds that a packet's time is not before its capture plus the latency, and the
  order of the numbers makes the packet that is sent the first one inside.
  `ClockIsBacklog` has an invariant of its own, `ClockInv`: the clock runs ahead
  of the end of each waiting packet's slot by no more than the costs of what came
  after it (`Ahead`, `Within`). Its `CostOf` is a recursive sum over the queue.
- `Examples_proofs`, monitor and fields. Who is between Lock and Unlock holds the
  mutex; while the copy loop runs, what is copied and what is to be copied are the
  map. A setter keeps every bit but its field's own, different fields have
  different bits, and a field has no bit twice (by cases on the four structures);
  one step of any setter then keeps what every getter returns.
- `Examples_proofs`, checksums. No checksum lies where ParsePacket looks
  (`HeadersKept`), each sum is taken with its own field cleared, and the header's
  sum does not see the transport's checksum; so that a second CalcChecksums finds
  what the first one found (`IpAgain`, `CalcAgain`).
- `Examples_proofs`, sinkhole. A name that is read lies within the message
  (`NameWithin`, by induction on the visits left, as `SetInduction` over a set of
  numbers; `QueryWithin`); the payload answers the question (`PayloadAnswers`);
  addresses and ports are exchanged (`TurnedIs`, `TurnedAround`) and the checksums
  change nothing else (`ReplyIs`). `SinkInv` then keeps for the reply what holds of
  it when it is made.
- `Recursion`. TLA+ defines a recursive function as a CHOOSE: that its values
  obey the definition follows only once some function does. The lemmas show that
  one does when each call is of a smaller rank (the length of a queue, the visits
  that a parser has left, the height of an expression, the depth and the tokens that
  the filter's parser has left).
- `FilterAnalyze_proofs`, event flags. Where a program tests only the event, the
  loop over one event's question computes the driver's own run on every packet of
  that event (`LoopExact`); `DecidedExact` collects it for the flags that are set.

Only model-checked: all liveness (`SendReturns`, `CloseReleasesWaiter`,
`InstallEnds`, `SearchEnds`, `GetsItsTurn`, `ScreenFollows`), because the prover
does not reach fairness (of `SearchEnds` the step is proved: `LoopShrinks`); and
`SameLanguage`, because `FilterGrammar` is written with RECURSIVE operators, for
which the prover has no arithmetic. One part of it is proved: the parser's result
is never `outside` (`TextAlwaysRead`).

## 6. Disagreements found

With a violation run:

1. **One Overlapped for all calls** (`DivertIO_limiter`, divert.go:57): a Send
   that completes while a Recv of another goroutine waits wakes the Recv, which
   returns the Send's count. The limiter protects Send calls only
   (bandwidth_limiter/main.go:72).
2. **The mutex is a thread's** (`DriverInstall_unpinned`, sys.go:84): LoadDriver
   does not lock its OS thread, so two goroutines that run on one thread both get it.
3. **IPv4 addresses** (`FilterFlatten_address`, token.go:49): ParseIPv4Address puts
   the address into words 3 and 2, the limits have it in words 0 and 1;
   `ip.SrcAddr == 1.2.3.4` becomes `ip = 0`.
4. **Entry point** (`FilterFlatten_constants`, emit.go:19): the driver starts at the
   test with the last label, which is unreachable when a constant cut it off.
5. **Checksums** (`Packets_checksum`, helper.go:97): the sum is one of words in
   network order and is stored in host order, so that its bytes are swapped on
   the machines Windows runs on. (The addresses of the pseudo header are read in
   host order besides.)
6. **TCP header length** (`Packets_tcp`, ip_headers.go:129): HdrLength reads the
   upper bits of a word in host order, which are those of the byte of the flags.
   A segment without ECN flags has a "header" of no bytes and its payload begins
   at the ports; a SYN that offers ECN has one of 48 bytes, for which
   CalcChecksums slices before the segment or panics.

Without one (each is false of the model by a line of the code alone; the
properties above are stated so as to leave exactly these out):

- `size = 4` (expr.go:165) overrides the element size of `packet` and `packet16`.
- A test folded to false becomes `header = 0` (flatten.go:258), which a packet
  without the header passes. `FilterCompile_parts` considers packets that have
  the headers.
- The driver file is truncated and written before the mutex is taken
  (sys.go:60), beside an installer that starts the service; the start can fail.
- The branch for a failed write is empty (sys.go:62), while its comment says
  "return error".
- The device handle is not closed when CreateEvent fails (raw.go:92).
- The answer to a query of type AAAA has RDLENGTH 0x16, which is 22, before 16
  bytes (dns_sinkhole/main.go:265; the comment says 16). A query of several
  questions gets a reply that counts them all and holds one.
  `SpoofAnswersQuery` leaves both out, and a reply that is longer than its 16-bit
  length fields count.
- A DNS name whose pointer leads back to itself makes parseDNSName recurse until
  the stack is full (dns_sinkhole/main.go:206; the action `StackOverflow`).
- A packet that is dropped at the full channel has used up its slot
  (bandwidth_limiter/main.go:181; `wasted` in `ClockIsBacklog`).
- "sendTime is strictly monotonic" (bandwidth_limiter/main.go:80): it only does
  not decrease (`DueInOrder`), which is all that the channel's order needs.
- getProcessName looks up a process id when the event is read, by which time
  Windows may have given it to another process (flow_monitor/main.go:106).

## 7. Not modelled, and the plan

Not modelled:

- SetParam, GetParam and Shutdown (raw.go:231-262): each is one request and keeps
  no state in the library. They pass no Overlapped on a handle that was opened for
  overlapped I/O; what comes of that is decided by the I/O manager.
- `types.Filter`'s and the other messages' layouts: copies, without control.
- RecvEx's address count; registerEventSource and logging; the demo and RecvEx
  examples (loops over what `DivertIO` models); Recv errors, Close and exit of the
  monitor and the sinkhole (as in the limiter); the order of the monitor's rows
  and its limit of 25; license and build files.

What could follow, by what it would add:

1. Proofs: the grammar as a recursive function of an interval of tokens, to show of
   texts of any length that the parser's expression is the only reading.
2. A composition of `OpenHandle` with `DriverInstall`, so that New's installation
   and its later steps are one behaviour.
3. The compiler end to end: the scanner's tokens into the parser, its expressions
   into the generator and the generated programs into the analysis.

To repeat the checks: `tlc -config <run>.cfg <module>.tla` for each run of
`PROJECT.json`, `tlapm <component>_proofs.tla` for each proof module and
`tlapm Recursion.tla`.
