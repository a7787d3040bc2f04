# ThinBasicZMQ in TLA+

ThinBasicZMQ binds the ZeroMQ library to the thinBasic interpreter, twice: a
compiled module (`SDK/C`, keywords written in C) and a set of declarations in
the script language itself (`ThinBasicZMQ`, called "Native" by the sources).
The program's own logic - state, error paths, lifetimes - is in the C module.
What makes two programs interact is in the scripts of both editions: they are
modelled with their peers, the transport between them, and the failures they do
or do not look at.

## 1. The system

### Components

| Component | Source | State it keeps | Operations |
|---|---|---|---|
| libzmq loader | `SDK/C/src/zmq_dynload.c` | `g_zmq`: module handle, `loaded`, 23 function pointers | `zmq_dyn_load_directory`, `zmq_dyn_unload`, `zmq_dyn_is_loaded`, 23 `zmq_api_*` thunks |
| thinCore binding | `SDK/C/src/tb_thincore.c` | `g_tb`: module handle, `loaded`, 8 required pointers, the BSTR allocator | `tb_thincore_init`, `tb_thincore_shutdown`, 8 thunks, 2 string-return helpers |
| Module entry | `SDK/C/src/thinBasic_ZeroMQ.c` | none of its own (the interpreter's keyword table) | `_LoadLocalSymbols`, `_UnLoadLocalSymbols`, `DllMain` |
| Executors | `SDK/C/src/tb_zmq_exec.c`, `include/tb_parse.h` | locals only | 35 `Exec_Zmq*`, one per keyword |
| SDK examples | `SDK/C/examples/*.tbasic` | a context, one or two sockets, counters | request/reply, publish/subscribe, push/pull, multipart, CURVE |
| Native API | `ThinBasicZMQ/Core/*.inc` | the process's current directory | `Declare`s, helpers over them, forwarding wrapper types |
| Native scripts | `ThinBasicZMQ/*.tbasic`, `Module`, `Weather` | contexts, sockets, a thread, a proxy | as the SDK examples, and proxy, thread, monitor, PLAIN/ZAP, poll |
| libzmq | vendored DLL | contexts, sockets, I/O threads, errno | external |
| Build and CI | `*.bat`, `ci.yml`, `verify_dll.ps1` | - | not part of the running program |

### How they interact

The interpreter maps the module and calls `_LoadLocalSymbols`, which binds
`g_tb` and, only if that works, registers the keywords. A script's keyword is a
call of its executor. The executor calls the interpreter **back** through
`g_tb` for each parenthesis, comma and argument; reading an argument evaluates
an expression, which may use other keywords, so executors nest on one stack.
With its arguments parsed and checked an executor calls a `zmq_api_*` thunk,
which jumps through `g_zmq` if a library is loaded and answers for itself if
not. String results are BSTRs from `oleaut32.dll`. libzmq runs I/O threads of
its own from the first socket of a context to `zmq_ctx_term`; each holds a
reference on the library's image. At the end the interpreter calls
`_UnLoadLocalSymbols`, which unloads libzmq and clears `g_tb`.

### What is hard, and what makes each component correct

* **Loader.** A load can fail at four points, after different amounts have been
  changed (nothing, search directory, image reference, half a table). Libraries
  differ in which symbols they have. Unloading races with running I/O threads
  over the same reference count. Correct: the table is that of one complete
  image or zero; references balance; failure changes nothing; no jump goes wild.
* **Module entry and thinCore binding.** The thunks do not look at their
  pointers; the module must not release a DLL the interpreter owns; a partial
  init must be undone; an unload clears the table and unregisters nothing.
  Correct: until the module is told to unload, keywords exist only while the
  table is complete; own references are bounded.
* **Executors, control.** Re-entrance between parsing and dispatch; the same
  return value for "parse failed" and "succeeded"; an errno that only libzmq
  sets. Correct: a value for success means that libzmq succeeded.
* **Executors, buffers.** Off by one at every limit, truncated receives, 32-bit
  products. Correct: copies fit; what is returned was received; encoders and
  decoders agree.
* **Scripts.** Blocking calls without timeouts, multipart sends whose first
  half failed, handlers interleaved by hand with a handshake, worker threads.
  Correct: no script waits for ever while its peer is alive; messages keep their
  framing; a socket is used by one thread at a time.

`PROJECT.json` lists the single hazards with the line each bites at and the
property that covers it.

## 2. Modules

| Module | Models | Remarks |
|---|---|---|
| `ZmqSymbols` | the 19 required and 4 optional libzmq exports | |
| `ZmqLibrary` | what the loader promises: at most one complete image is bound, and calls are served by it or answered locally | abstract specification |
| `ZmqDynload` | `zmq_dynload.c` | detailed specification; refines `ZmqLibrary` |
| `TbModule` | `tb_thincore.c`, `thinBasic_ZeroMQ.c` | |
| `ZmqKeywords` | the 35 keywords: parameters, entry, return convention | data of `ZmqExec` |
| `ZmqExec` | `tb_zmq_exec.c` and `tb_parse.h`: control | composes the executors with `ZmqLibrary` |
| `ExecBuffers` | `tb_zmq_exec.c`: lengths, and the string-return helpers | |
| `ZmqSession` | the handles a script keeps across `ZmqLibraryShutdown` and `ZmqLibraryInit` | composes the executors that make and use contexts with `ZmqDynload` |
| `NativeSecurity` | the Z85 helpers of `Core/Security.inc` beside the executors | composes with `ExecBuffers` |
| `ReqRepService` | `ZmqSdkRepServer`, `ZmqSdkReqClient`, native `RepServer`, `ReqClient` | several clients, other programs, restarts |
| `LoopbackReqRep` | `ZmqSdkCurve`, `Curve`, `Plain`, `Thread` (second half), `Msg` | client and server on one thread |
| `MultipartScript` | `ZmqSdkMultipart` | |
| `PubSub` | `ZmqSdkPubServer`, `ZmqSdkSubClient`, native pair, `Weather` pair | |
| `PushPull` | `ZmqSdkPushClient`, `ZmqSdkPullServer`, `ZmqSdkPushPull`, `Poll` | |
| `WorkerThreads` | `Proxy`, `Thread` (first half) | two threads |
| `SocketMonitor` | `Monitor` | |
| `ZmqDynloadProofs`, `TbModuleProofs`, `ZmqExecProofs`, `ZmqSessionProofs`, `ReqRepServiceProofs` | theorems | of the module each is named after |
| `ExecBuffersProofs` | theorems | of `ExecBuffers` and `NativeSecurity` |
| `OneProcessProofs`, `StreamProofs` | theorems | of the script models of `MCOneProcessScripts` and `MCStreamScripts` |
| `MCZmqDynload`, `MCTbModule`, `MCZmqExec`, `MCExecBuffers`, `MCReqRepService` | TLC instances | of `ZmqSession` and `ZmqDynload`; `TbModule`; `ZmqExec`; `ExecBuffers` and `NativeSecurity`; `ReqRepService` |
| `MCOneProcessScripts` | TLC instance of `LoopbackReqRep`, `MultipartScript`, `WorkerThreads` and `SocketMonitor` | a behaviour is one of theirs |
| `MCStreamScripts` | TLC instance of `PubSub` and `PushPull` | a behaviour is one of theirs |

### ZmqDynload

`gModule`, `loaded` and `ptr` are the fields of `g_zmq`; a pointer is
represented by the image it points into. `refs` is the Windows loader's count
per image and `dllDir` the argument of the last `SetDllDirectoryA`. `threads`
counts the contexts of an image whose I/O threads run. There is one action per
way out of `zmq_dyn_load_directory`, in the order of its early returns:

| Action | Line | Outcome |
|---|---|---|
| `LoadRefusedBadDirectory` | 169 | 0, nothing touched |
| `LoadAlreadyLoaded` | 173 | 1, nothing touched |
| `LoadRefusedLongPath` | 181 | 0, nothing touched |
| `LoadNotFound` | 188 | 0, search directory restored |
| `LoadIncomplete` | 194 | 0, image released, table cleared |
| `LoadBound` | 203 | 1 |

A directory argument is a folder and a number of trailing slashes, since the
code measures it before trimming and formats it after. `_snprintf` does not
report a path that fits without its NUL; such a path, cut or unterminated, is
one for which `LoadLibraryA` answers NULL, so `LoadNotFound` is also possible
where the path does not fit. It is possible for any directory, since mapping a
file that is there may fail. `Target` is where a jump through a pointer ends up;
`Wild` if the pointer is NULL or its image unmapped. The operation recorded in
`answer` tells calls with a NULL buffer from others, so that the refinement also
covers the optional thunks' own argument checks. `ThreadEffect` is external.

### TbModule

The variables are the fields of `g_tb`, the reference counts of the two system
DLLs (the interpreter's share of thinCore.dll apart), whether the keywords are
registered, and `fault`: a thunk has jumped through NULL. The environment picks
a thinCore.dll build, whether it is mapped when the module arrives and whether
oleaut32.dll is there. `HostMapsCore` lets a host that had no thinCore.dll map
it later.

`UnLoadLocalSymbols` clears the table and leaves the keywords registered, as
`thinBasic_ZeroMQ.c:206-212` does. The interpreter forgets them in a step of its
own, `HostForgets`. What a keyword does in between is `KeywordFaults`: its first
question for a parenthesis jumps through NULL. `fault` tells such a jump
("unloaded") from one at any other time ("running"). Whether the interpreter
ever calls a keyword in that window is not visible in this repository; nothing
here keeps it from doing so.

### ZmqKeywords and ZmqExec

`stack` holds the executors under way with the number of arguments each has
parsed, `result` what the one that has just ended returned. `Enter` is the
interpreter evaluating a keyword, in a statement or in an argument of the
innermost executor. An executor then takes its arguments one by one and leaves
by `NullString`, `SyntaxError`, `Refuse` (its own check of the arguments) or
`Dispatch`, which is answered by libzmq (`Succeed`, `Fail`) or by the thunk
(`Unserved`). Returned values are classes: `0`, `-1`, another number, the empty
string, another string. `errno` is the keyword whose libzmq call set it last.

The binding is that of `ZmqLibrary` and not of `ZmqDynload`: the theorem
`LoaderImplementsLibrary` is what allows that.

### ExecBuffers

One step is one call with its arguments parsed. The variable `call` records
the length given, whether libzmq was asked, every write to a buffer of known
size as a pair of bytes and room, and the length sent or returned. The
arithmetic is unsigned modulo `Word`.

### ZmqSession

Extends `ZmqDynload`: each action is one of the loader's together with what it
does to the script's handles. `made` records for each context handle in which
image, and in which mapping of it (`maps` counts them), it was made, and `use`
what the last keyword that was given a handle reached with it. `FirstSocket` and
`CtxTerm` are where the context's I/O threads start and end, the loader model's
`ThreadEffect`; `OtherCall` is every call that concerns no context. The examples
call `ZmqCtxShutdown`, which does not end them, and then `ZmqLibraryShutdown`.

### NativeSecurity

A step is a call of `ExecBuffers` in the SDK alone, or a Z85 call made in both
editions: `call` is the SDK's outcome, as in `ExecBuffers`, and `native` that of
the script function of the same name, if it was called.

### The script models

They do not interact with each other. So that one run answers the question
"do the scripts that ... behave?", two MC modules hold several of them: a
behaviour starts as one of the models and stays it, with that model's fairness,
while the variables of the others rest.

All follow one scheme. A script is a program counter over its **calls on
sockets**, in the order of its text; what it does between two calls (counting,
printing, composing texts) belongs to the action of the call before. A loop
counter stays where it decides when the script ends. The calls that set the
script up are one initial choice of what could be had: `usable` sockets, a
`bound` port, a client's `setup`. Where a script looks at a result there is an
action for the failure with the script's reaction (`PushFails`: Exit For); where
it does not, the failure is a disjunct of the same action. Scripts that make the
same calls are values of the variable `script` in one module, so that the
differences between them (what is checked, timeouts, rounds) are visible as
conditions. Sockets are external and described by what these scripts can tell:

* a REQ socket has one exchange under way, and a REP socket reads all frames of
  one request before it sends one reply; out of turn a call fails at once;
* a message of several frames arrives whole or not at all;
* PUB drops for whoever has not joined or has a full queue; PUSH keeps order
  per connection, and a disconnect with LINGER 0 drops what has not left;
* requests wait in the client for a server that is away, and die with a server
  that has taken them.

`ReqRepService`: `at` is the server's next call, `rep` its socket, `link` the
exchange of each client and of each other program, which may send empty and
multi-frame requests. `SetUps` are the outcomes of a client's first calls: the
SDK's client ends if libzmq does not load or its connect fails; the native one
goes on with what it has, through failing calls without a socket and into a send
that blocks for ever without a connection. `Kill` closes the server's console;
`Start` runs the script again, and may find the port taken.

`LoopbackReqRep`: `printed` holds for each reply the loop in which it is printed
and the round of the request it answers. The guests are other processes which
know the port and not the password; each may ask again once it has heard.
`Admits` stands for the comparison of user and password read from the frames of
the ZAP request (`Plain.tbasic:58-73`). `HandleZapOnce` is an action of the
script, made at the points where `Plain.tbasic` calls it, and it alone opens a
connection under PLAIN. `Expires` says when a timeout may expire: at any time if
the I/O thread is slow, and only if that thread has nothing left to do if it is
prompt.

`MultipartScript`: `sent`, `unread` and `got` are the frames sent by, waiting
for and received by each side; `more` is the script's `rcvm`, where -1 (the
option query failed) is as good as 1.

`PubSub`: `open` is the message that has been begun with ZMQ_SNDMORE, and
`audience` those who had joined by then. A failed payload leaves it open
(`SendPayloadFails`), so that the next topic becomes its third frame. `missed`
in a subscriber's record is what the properties compare `printed` with.

`PushPull`: a job of a pusher is in its `pipe`, in the server's `inbox`, in
`pulled` (all three a sequence for each pusher), or `lost`; the clients and the
three servers are separate actions. The repository's clients push to port 1743,
that of the SDK's and the native server. `Poll.tbasic` binds 1712, to which no
script of the repository pushes: its clients are other programs that do the
same.

`WorkerThreads`: the main thread is a list of calls (`Calls`), each entered and
returned from, so that everything between is concurrent with it. `native` says
whether the main thread is inside libzmq or evaluating script. The worker goes
through `starting` (created, not yet in the interpreter), `entry`, `call`,
`exit`, `ended`; in `entry` and `exit` it evaluates script.

`SocketMonitor`: `frames` is what waits at the PAIR socket, `events` what libzmq
has reported. `Bind` reports LISTENING on the script's own thread and waits for
the monitor's peer, which is why `Setup` has to connect it before. A bind that
fails because the port is taken reports CLOSED in the same way (`BindFails`);
one of the handle 0 reports nothing (`BindNothing`).

## 3. Runs

| Run | Question | Bounds, and why they are enough |
|---|---|---|
| `dynload` | Do the table, the references and the search directory stay consistent under any order of loads, unloads, calls and contexts? Does the loader implement `ZmqLibrary`? Does a handle still reach the library that made it? | Three images (complete, old without optional symbols, broken) are all the cases of `BindRequiredSymbols`; seven folders and ten directory arguments meet every early return and both sides of each limit (lengths 0, 248, 249, and 260 with slashes). Two context handles, two shutdowns and two mappings of each image: one context may end while another runs, one of either image can outlive a shutdown while the other image is bound, and the same image can be mapped again. |
| `dynload_requested` | Does a successful init mean the requested library? | No: finding. |
| `module` | Can a keyword meet a NULL thunk? Are the interpreter's references safe? | One complete build, and one short of a registering and of a parsing export. State is finite without a bound. |
| `exec` | Is every return path of all 35 keywords honest? Can an argument's evaluation make the outer keyword report what did not happen? | All 35 keywords one after the other, with a complete, an old and no library. Eight of them, one per return convention that matters and both that change the library, in the arguments of each other, two deep: an executor sees its arguments only through library, errno and its own frame, so deeper nesting adds sequences that consecutive arguments already give. |
| `exec_errno` | Is errno that of the last failure? | No: finding. |
| `exec_sendstr` | Does ZmqSendStr send or return -1? | No: finding. |
| `buffers` | Do copies fit, do counterparts agree, and do the editions? | Real buffer sizes; 50 lengths around every limit and around multiples of 4 and 5. Words have 16 bits because TLC's integers have 31; the arithmetic is the same and `CopiesAlwaysFit` proves it for all word sizes. |
| `buffers_encode` | Is the encoded length capped? | Not where the product wraps: finding. |
| `buffers_decode` | Does ZmqZ85Decode take any multiple of 5? | Not from 256 characters: finding. |
| `reqrep` | What can jam the server, and who is answered? | Two clients and one other program: another client must be able to overtake one that waits. Two starts: one kill and one restart. Two rounds: a client has a request before and one after the restart. Every outcome of a client's set-up beside every other. One- and two-frame requests with the empty frame in each position. |
| `one_process` | Do the scripts that talk to themselves stay in step with their sockets, threads and events, and do they end? | `LoopbackReqRep`: the real three rounds; two handler calls in the first loop instead of 40, one for the script's own handshake and one for a guest's; two guests, so that one can be served while the other waits. `MultipartScript` and `WorkerThreads`: no bound, every subset of the sockets. `SocketMonitor`: two guests and three polls, so more events than polls, and fewer. |
| `streams` | What do subscribers hear, where is each job, and who ends? | `PubSub`: three publisher rounds, so that a message begun in the first is finished in the second and the third is whole again; two failing sends, two subscribers, a backlog of two, one kill. `PushPull`: two clients of two jobs each (order within a client, mixture of two), three rounds of the servers with a counter, two starts. |

The C module's runs leave `CHECK_DEADLOCK` on: in every state some keyword can
be called. The scripts end, or wait for ever for a peer, which their liveness
properties distinguish; their runs have `CHECK_DEADLOCK FALSE`.

### Properties, in words

* `TableAllOrNothing`, `ReferencesBalance`, `SearchDirFollowsBinding`: the
  loader's state is consistent between any two calls. (`NothingDangles` follows
  from the first two; it is proved and not run.)
* `CallsNeverWild`: no thunk jumps through a NULL or dangling pointer, although
  19 of the 23 do not look.
* `BindingIsStable`, `FailedLoadChangesNothing`: what a load may never do.
* `ImplementsLibrary`: the refinement.
* `FaultsOnlyUnloaded`, `KeywordsNeedCore`, `InterpreterCopyHeld`,
  `OwnReferencesBounded`, `BindingNeedsKeywords`: the module's life. The first
  says that no thunk jumps through NULL but in the window between an unload and
  the moment the interpreter forgets the keywords, where it does: that window is
  reached. Two observations come with the fourth: the `FreeLibrary` in
  `tb_thincore_shutdown` is never reached (its condition asks for a handle that
  is not that of the mapped thinCore.dll), so a thinCore.dll the module loaded
  itself stays, and so does oleaut32.dll; both are taken at most once.
* `SuccessIsHonest`: executors. It names the thirteen keywords for which a
  parse failure reads like success.
* `CopiesFit`, `ReceivedIsWritten`, `TextRoundTrip`, `Z85RoundTrip`: buffers.
* `HandlesReachTheirMaker`: until the script shuts the library down itself,
  nothing takes it away from under a handle. `RunningContextsStay`: a context
  whose threads run keeps its image mapped, through shutdowns and loads of
  other libraries.
* `EditionsInterchange`: below the SDK's limit of 4096 characters the two
  editions accept the same and take each other's texts. (Beyond it the native
  helpers go on, and the SDK refuses.)
* `JamNeedsEmptyLastFrame`: the request/reply server is stuck in a receive out
  of turn only after a request of another program whose last frame is empty,
  and only in the SDK's script. `DoneMeansAnswered` and `EveryClientCompletes`:
  a client completes with all replies, or with none if it could not be set up;
  it waits for ever only if its exchange died with a server, the server stays
  down or is jammed, or the client sends on a socket that is not connected.

The two MC modules that hold several script models state one property per
question, a conjunction of what each model says of it (in brackets the
definitions in the models' modules):

* `SocketsFollowScript` (also `RepliesInTurn`): REP is never read or written out
  of turn, and REQ never read without a request under way. No send on REQ is out
  of turn either, except in `Thread.tbasic`, which goes on after a timeout: its
  send then fails, and it does not look. The multipart script asks for a frame
  that may not come, but then out of turn, which does no harm.
* `PrintsWhatWasSaid` (`RepliesInOrder`, `PrintsWhatWasSent`,
  `EventsPrintedWhole`, `ExchangeIsReported`, `BindIsReported`): no reply is
  printed twice or before it was asked for, no frame is taken for another, no
  event gets another's address, and a bind that nobody checks is reported. Each
  reply is printed in the loop it belongs to, again except in `Thread.tbasic`:
  there a late reply may be printed in a later loop as if it were that loop's.
  The property says when this can be: only if the I/O thread is slow, or a guest
  is served in place of the script itself.
* `OnlyAuthenticatedRead`: ZAP, for any guests. `AllRoundsIfPrompt`: a prompt
  I/O thread gets every round answered, so the 40 handler calls do not have to
  be lucky.
* `JoinSeparates` (`NoSocketShared`, `JoinSeesWorker`, `JoinEndsOverlap`): the
  threads. `Thread.tbasic:12-15` wants the worker to run while the main thread
  waits. The scripts do not arrange that in full: both may be in the interpreter
  at once. The third property is the extent of it: only before the join is
  entered, and in `Thread.tbasic` only between the return from ZmqThreadstart
  and the join, which is the next call.
* `ScriptsEnd` (`Terminates` of two models, `EndsIffSteerable`,
  `EndsIfMonitorConnects`): timeouts end every script that has them; the others
  end where the port and the sockets they need could be had.
* `HearsAllButMissed` (also `PrintsPayloads`): until a payload fails, what a
  subscriber has printed, what it is in the middle of and what waits for it are,
  in this order, what was sent, each once and without what it missed.
* `OnlyFailureChangesStep` (`QuotesChangeStepOnlyByFailure`,
  `ExpiresBetweenMessages`): only a payload that failed brings a subscriber out
  of step, and only then does a timeout expire between two frames.
* `JobsBalance` (also `PulledWithoutGap`): of each pusher, what was pulled, what
  waits at the server and what is on its way are, in this order, what was pushed
  and not lost, each once; until the server is restarted, what it has pulled of
  a client has no gap.
* `ReceivesInTurn` (`LockstepTakesTurns`, `PolledIsReceived`): a receive that
  follows a poll has something to receive. The lockstep script receives without
  a poll, once for each push, from a socket others push to as well: of its own
  jobs as many are outstanding as it has taken of its clients' in their place
  (and one more between push and receive), and its own come in order. Its
  receive may find nothing, and then the script ends.
* `EveryoneGetsOn` (`WeatherSubCompletes`, `ClientsComplete`,
  `BoundedServersEnd`, `SinkPullsWhatArrives`): who ends, and what is pulled.

Every property of a passing run has a mutant, the ones of several models one
for each: an operator next to the definition it replaces, marked "Mutant" in
its comment, which makes the property fail.

### Findings

1. A second `ZmqLibraryInit` returns 1 without looking at its directory
   (`InitLoadsRequested`).
2. A keyword that refuses an argument itself returns -1 and leaves errno on an
   older error (`ErrnoIsOfLastFailure`).
3. `ZmqSendStr` returns 0, not -1, for a string without a buffer
   (`SendStrSendsOrFails`).
4. The cap of `ZmqZ85EncodeStr` is compared with a 32-bit product that may have
   wrapped (`EncodedLengthIsCapped`).
5. `ZmqZ85Decode` has a limit of 255 characters that its documentation does not
   name (`Z85DecodeTakesMultiplesOf5`).

## 4. Fairness

The C module has no loop, queue or thread of its own; every call ends or blocks
in libzmq. Its modules state no fairness. In the script models:

* **Scripts** have weak fairness on each step of theirs that is not a failure: a
  script that can go on goes on. A script that waits in a call without timeout
  is not enabled. Only the failure that is a script's own timeout is part of its
  fair steps: time passes. Nobody is obliged to start a server, to close a
  console, or to ask as a guest.
* **Transport** has weak fairness per connection in `ReqRepService` and
  `PushPull`: libzmq's I/O threads retry as long as both ends are there. In
  `LoopbackReqRep` and `SocketMonitor` it is fair only if it is "prompt", and
  the properties say which half of the runs they are about.
* **A REP socket** has strong fairness in taking a peer's request: libzmq takes
  its connections in turn, so a client cannot be overtaken for ever. A jammed
  server, and a killed one, are not excluded.
* **Subscribers** only, in `PubSub`: a publisher may stop at any point.
* **Threads**, in `WorkerThreads`: both are scheduled.

## 5. Proofs

All theorems hold for every value of the constants under the named
assumptions of the module they are about:

* images, directories, folder lengths and keywords are of their types, and model
  values are distinct (`ImagesAssumption`, `FoldersAssumption`,
  `DirsAssumption`, `LibraryAssumption`, `KeywordsAssumption`,
  `MaxDepthAssumption`, and `BoundsAssumption` of `ZmqDynload`);
* builds are sets of known exports (`CoreBuildsAssumption`);
* a key is shorter than the string limit, and five times that limit fits a word
  (`BuffersAssumption`); lengths are integers (`LengthsAssumption`);
* clients and other programs are different peers, and a request has a frame
  (`PeersAssumption`, `RoundsAssumption`, `RequestsAssumption`);
* the scripts' loops have a round, and the model's own bounds are numbers
  (`BoundsAssumption` of `MCOneProcessScripts` and of `MCStreamScripts`).

Every safety invariant and every action property of the passing runs is proved,
and so is the refinement.

* **ZmqDynloadProofs.** `IInv` is `TypeOK`, `TableAllOrNothing`,
  `ReferencesBalance` and `SearchDirFollowsBinding`: none is inductive alone.
  That an unload does not take a count below zero needs the balance, the balance
  needs to know that a cleared table has no module, and a call reaches the
  bound image only if the table is complete. `NothingEverDangles`,
  `CallsAreNeverWild` and the two action properties follow from it. The
  refinement maps `binding` to `gModule` while loaded; refused and failed loads
  map to `KeepBinding`, and `Dispatches` is shown equivalent to the abstract
  `Served` from table completeness.
* **ZmqSessionProofs.** Each step of a session is a step of the loader
  (`SessionRefinesLoader`), so what is proved of the loader holds in a session
  (`SessionCallsNeverWild`, `SessionImplementsLibrary`) and its `IInv` may be
  used. `SInv` adds that the count of threads of an image is the number of
  running contexts made in it (`ThreadsOwned`), that a handle made since the
  last shutdown is of the image and the mapping bound now
  (`FreshHandlesAtHome`), and that the image of a running context is still in
  the mapping it was made in (`RunningMapped`). The chain from a running context
  to its image is the point: its thread is counted in `threads`, `threads` in
  `refs` by `ReferencesBalance`, and an image with a reference is not unmapped.
* **TbModuleProofs.** `FaultsOnlyWhileUnloaded` needs that keywords are known
  only while the table is complete or an unload is under way. `IInv` adds to the
  checked invariants that an own reference on oleaut32.dll implies that it is
  mapped. The key lemma is `ShutdownKeepsReferences`: while the table has a
  handle its DLL is mapped, so the condition before `FreeLibrary` is false.
* **ZmqExecProofs.** `IInv` is `TypeOK` and a stack of frames. The 35 keywords
  enter by facts of the keyword table (`KeywordTableFacts`), from which follows,
  per return convention, which values a parse failure, an own check, an
  unserved thunk and libzmq can give (`ParseFailureHonest`, `UnservedHonest`);
  `SuccessIsAlwaysHonest` puts the ways out together. For any depth of nesting
  and any keyword set, `ExecutorsUseLibrary` shows that the executors together
  behave as users of `ZmqLibrary`; with `LoaderImplementsLibrary` this is what
  joins the two halves of the C module.
* **ExecBuffersProofs.** `NoWrap` gives exact arithmetic below the word size;
  one lemma per group of executors then bounds its writes. `Z85RoundTrip` rests
  on `EncodedLenExact` and `DecodeNeedExact`, and on multiples of four and five;
  `TextRoundTrip` on the room offered by a receive being the room of a send.
  `EditionsInterchange` compares the native helper with the executor of the same
  name: below the limit neither wraps (`EncodersAgree`, `DecodersAgree`).
* **ReqRepServiceProofs.** `IInv` adds to the invariants that a request on its
  way has a frame, and a client's has one (`RequestsWhole`); that frames wait to
  be read only of a request from elsewhere (`RestFromOthers`); and that a client
  has printed as many replies as it has done rounds, and none if it could not be
  set up (`PrintedFollowsRound`). Whose last frame was empty
  is known only through the first two: a client's cannot be.
* **OneProcessProofs.** One inductive invariant per script model, each under the
  condition that the behaviour is one of that model. `LoopbackInv`: a REP socket
  is to send exactly between the script's receive and its send (`ReplyDue`);
  what is printed is of rounds before the one under way (`PrintedBefore`), and
  of every loop so far where a script cannot time out and go on (`InStep`,
  `PrintedEvery`, `PromptRound`); no guest is let in by PLAIN (`GuestOutside`).
  `MultipartInv` follows each message from the sends that complete it
  (`SendsWhole`) to the receives (`ReceivesWhole`). `WorkersInv` is the life of
  the worker by the index of the main thread's call. `MonitorInv` says that the
  frames which wait are those of the events not printed yet, in order, one short
  while one is being read (`FramesInOrder`), and that the outcome of the bind is
  the first of them (`OutcomeComes`).
* **StreamProofs.** `PipelineInv`: pushes are numbered by the loop counters, and
  for each pusher what was pulled, what waits and what is in the pipe are one
  increasing sequence, disjoint from what was lost (`Balanced`). The steps of
  the transport are sequence lemmas: moving a job from the head of one part to
  the end of another leaves the concatenation as it is (`MoveToSecond`,
  `MoveToFirst`), dropping a part keeps the order and splits the set
  (`LosePart`). `Turns` counts the lockstep script's own jobs that are
  outstanding against its clients' jobs it has taken, and `OwnInOrder` says
  which of its own it has had. `PublishInv`: until a payload fails all messages
  are pairs, and a subscriber is inside one exactly at its second receive
  (`MessagesWhole`); what it has heard and will hear is in order and disjoint
  from what it missed (`HeardInOrder`). `StepChangesOnlyByFailure` is an
  argument of parity: a message with an odd number of frames exists only after a
  failed payload.

Model-checked only are the liveness properties (`ScriptsEnd`,
`AllRoundsIfPrompt`, `EveryoneGetsOn`, `EveryClientCompletes`): fairness and
ENABLED are out of the prover's reach. Equally outside are the five findings,
each a counterexample on a small instance, which needs no generalisation.

## 6. Not modelled, and why

* Contents of texts, keys and messages: only lengths and classes matter to the
  properties. A NUL inside a text (cut by `strlen`) is therefore invisible.
* Calling conventions, FPU state, BSTR layout: below what TLA+ describes.
* The lifetime of the interpreter's temporary strings between parsing and
  copying: not visible in the repository.
* Socket handles apart from their contexts: a socket is of the library its
  context is of, and the C module passes both on as numbers.
* `DllMain` returns TRUE and keeps nothing.
* Native declarations and wrapper types: no state.
* libzmq as a component of its own: each script model has the part of it that
  the script can see. High-water marks are never reached by what the scripts
  send in one go, except by PUB, which drops.
* Empty requests of a guest in `LoopbackReqRep`: `ReqRepService` has them.
* `ZmqCurvePublicStr` in both editions: the native one asks libzmq about a key
  of any length, and what that answers is not in the repository.
* A worker thread that cannot be created (`Thread.tbasic:37`): libzmq ends the
  process then.
* A port that is taken is taken by a program that does not answer as a server of
  these scripts.
* A search directory of the host's own: `SetDllDirectoryA(NULL)` restores the
  default, and `SearchDirFollowsBinding` takes that for what was there.
* `LibPath.inc`: changes the current directory once, before anything else.
* The remaining example scripts (`ZmqSdkCtx`, `ZmqSdkCurvePublic`,
  `ZmqSdkSmoke`, `ZmqSdkZ85`, `CurveKeypair`, `Has`, `Stopwatch`, `Z85`, `Zmq`,
  `TestZeroMQWrapper`): each calls keywords in a row without interaction.

## 7. Plan

Done: loader, binding, executors, buffers, sessions, the scripts with their
peers and threads, the two editions' Z85 functions; proofs of every safety
property the runs check. Left:

1. Two hazards have no property. The pointer of a parsed string is kept while
   later arguments are evaluated (`tb_zmq_exec.c:713`): whether the
   interpreter's temporaries live that long is not visible in the repository. An
   option whose value is -1 reads like a failed ZmqGetsockoptInt
   (`tb_zmq_exec.c:933`): the two have one return value, and `MultipartScript`
   only has the failure.
2. The steps of the liveness properties that are safety - that an enabled step
   stays enabled until taken, and that a measure decreases - for the scripts
   with timeouts.
3. A refinement of `ReqRepService` by the message flow of an ideal
   request/reply service, so that its clients can be reasoned about without the
   sockets.
