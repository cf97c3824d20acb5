# TLA+ models of the MASL software architecture runtime

These modules model the control logic of the MASL C++ runtime found under
`src/`. The core is `SWA::Process` (`src/architecture/swa/src/Process.cc`):
the process lifecycle, its unit-of-work guard and the dynamic library loader.
The smaller parts are the Kafka producer, the SQL conversion utilities and the
transient to-one associative relationship. `PROJECT.json` lists each
component, each run and the source lines that each definition translates.

## The system

| Part | Source | State | Operations | Interacts with |
|---|---|---|---|---|
| Process lifecycle | `Process.cc` 39-306 | `shutdownRequested`, the signal dispositions, the position of the single strand, the hook signals (`starting`, `initialising`, `preSchedules`, `preSchedule`, `postSchedule`, `nextSchedulePhase`, `postSchedules`, `initialised`, `started`, `shutdown`) | `runStartup`, `initialise`, `runSchedules`, `runScheduleFile`, `runSchedule`, `startNextSchedulePhase`, `endInitialisation`, `endStartup`, `mainLoop`, `runService`, `pause`, `forceTerminate`, the `quitWithCleanup` signal handler | the guard (every scope), the OS (signals), hook and action code that may throw |
| ProcessingThread guard | `Process.cc` 274-289, 308-342 | `inProgress`, the connected slots of each thread signal, and the ProcessMonitor and slot call logs | `registerThread*Listener`, constructor, `completing`, `complete`, `abort`, destructor | ProcessMonitor, the boost::signals2 listener slots |
| Library loader | `Process.cc` 344-414 | the sorted set of libraries still required, the iterator, `errors`, `prevErrors`, `errorText` | `loadDynamicLibraries`, `loadDynamicProjectLibrary` | `dlopen` (a library opens once its file exists and all that it needs is loaded) |
| Domain registry | `Process.cc` 64-70, 148-174 | `domains`, `domainLookup` | `registerDomain`, `getDomain` | the loader, which builds one library per domain |
| Kafka producer | `core-cpp/kafka/src/Producer.cc` | the MessageBuilder cache per (domain, service) | `publish` | cppkafka |
| SQL utilities | `architecture/sql/include/sql/Util.hh` | none (pure functions) | `escapeSingleQuote`, `stringToValue`, `convertToColumnValue` | the SQL layer |
| ToOneAssociative | `architecture/transient/include/transient/ToOneAssociative.hh` | `related`, `assoc` | `link`, `unlink`, `navigate`, `navigateAssociative`, `correlate`, `count` | object instances |

What makes this code hard to test:

- All the work of a process runs on one strand, but a signal handler can run
  between any two of its steps.
- Listener slots are boost::signals2 slots. A slot that throws stops the
  signal and leaves the member function halfway. For example, the listeners
  may have heard an event that the monitor never got.
- The guard's destructor is noexcept, so a throw out of it ends the process
  through std::terminate.
- The loader's pass test `errors != prevErrors` runs again only while the
  number of errors changes between passes.

`main()`, `Process.hh` and `requestShutdown` are not under `src/`. The order in which `main()` calls the lifecycle functions
is taken from the spec (sections 4.1 and 5). So are `requestShutdown`, which
sets the flag and stops `ioContext.run()`, and the rule that hook slots and
actions may throw. PROJECT.json marks these as `spec_modelled`.

## Modules

- **ProcessingThread.tla** models the guard. Unit `cur` is the latest guard
  constructed, and `at` is the control point inside its scope. `slots` holds,
  for each thread signal, the listener functions connected to it in order.
  `monitor` logs what the ProcessMonitor was told, and `heard` logs each slot
  call as (unit, signal, listener).
  Actions:
  - `RegisterListener` models the four `registerThread*Listener` functions
    (lines 274-289). A connect appends a slot, and the same function may be
    connected twice. Registration happens before the first unit (spec 5).
  - `Construct` models the constructor (lines 308-312).
  - `Completing`, `Complete` and `Abort` model lines 321-342.
  - `Destroy` models the destructor (lines 314-319).
  - `EndBody` is the end of a scope's own work, returning or throwing.

  The constant `Throwing` is the set of (signal, listener) slots that may
  throw. `Emission` gives the ways an emission can end, following
  boost::signals2: the slots run in connection order, and the first one that
  throws stops the rest. `Finish` is the body that `complete()` and `abort()`
  share.
- **MonitorProtocol.tla** is the abstract view of the ProcessMonitor, as
  the sequence of calls it receives:
  - units start one at a time, numbered in order;
  - an open unit may report progress (`threadCompleting`,
    `pauseRequested`);
  - each unit ends with one outcome, after which nothing more is said about
    it;
  - under weak fairness, every unit that starts ends.

  ProcessingThread is shown to implement it through `MP == INSTANCE
  MonitorProtocol`. `monitor` is shared, so the refinement mapping is the
  identity.
- **Process.tla** composes the lifecycle with the guard. It declares the
  guard's variables and uses `PT == INSTANCE ProcessingThread`. `pc` is the
  strand's position in the startup sequence, and every function of
  `Process.cc` is one or more actions at the points where it calls out.
  - Each guarded scope is an open action (`PT!Construct`), a body action and a
    `Leave` action. The guard's own steps are `GuardStep`.
  - Scopes left by an exception continue in `forceTerminate`, as `main()`
    does.
  - `fired` counts each hook signal, `ran` counts the schedule actions run,
    `disp` holds the disposition of SIGINT and SIGTERM, and `sent` counts the
    signals delivered.
  - Two history variables record what the code does not keep: `envDisp` is
    the disposition each signal had when the process started, and `cleaned`
    says whether `quitWithCleanup` has run. The signal properties are stated
    over them.
  - `Deliver(s)` models the OS: SIG_DFL kills the process, and
    `quitWithCleanup` runs lines 39-43.
  - `endStartup` is `EndStartup`, which emits `started()`, and then
    `ProbeSignal`/`InstallSignal` for SIGINT and then SIGTERM. These are the
    separate `signal()` calls of lines 210-213, so a signal can arrive
    between them.
  - Process connects one listener to every thread signal before
    `runStartup` (`ThreadSlots`) and makes no `register*Listener` call after
    that (`MaxSlots <- 0`).
  - Schedule files are model values. `content` gives each file's readability,
    validity and number of actions.
- **LoadOrder.tla** is the abstract loader. `Begin(S)` fixes the libraries
  to load, the files that exist and what each library needs. Then it loads,
  in any order, a library that is present and whose needs are all loaded. It
  gives up only when no library can be loaded and some are not.
- **ModuleLoader.tla** is `loadDynamicLibraries`, one loop iteration per
  `Attempt`. `BuildRequiredFrom(S)` builds the required set from the
  libraries `S` and chooses the environment the loader will meet: which
  files exist, what each needs, and whether there is a project library.
  The std::set is walked in sorted order, which is `After` and `Begin` over
  numbers. The error text is the sequence of the libraries it names.
  - It is shown to implement LoadOrder through `LO == INSTANCE LoadOrder WITH
    failed <- ...`.
  - `Loadable` is the RECURSIVE least-fixpoint reference for what can be
    loaded at all.
- **DomainRegistry.tla** models `registerDomain` and the two `getDomain`
  lookups.
  - `domains` is the vector, and `domainLookup` is the name-to-id map.
  - `last` holds the latest call and its result.
  - `getDomain(id)` out of range is undefined behaviour: it returns garbage or
    crashes.
- **DomainLoading.tla** composes the registry with the loader, as
  `Process.cc` does: `R == INSTANCE DomainRegistry` and `L == INSTANCE
  ModuleLoader` on shared variables. Domains register during static
  initialisation (`RegistryCall`), then `BuildRequired` turns each
  registered domain into its interface library (`LibFile`, which stands for
  the name with its suffix) and the loader runs (`Loading`,
  `ProjectLoading`). Registration is enabled only before the library set
  is built, as spec 5 says; the code itself does not stop a later
  registration (listed as a hazard). `LoadDynamicProjectLibrary` is enabled
  once the domain libraries are done: that order is the caller's (spec 4.3
  step 4), and the caller is not under `src/`.
- **SqlEscape.tla** models the `escapeSingleQuote` loop, one step per
  iteration, with its early return. `ColumnValue` is `convertToColumnValue`
  for strings. The RECURSIVE `ReadBody`/`ReadLiteral` is a reference reader
  of SQL string literals, and the conversion is checked against it.
- **SqlColumn.tla** writes one column value of each C++ type and reads it
  back.
  - A string goes through the escape loop of SqlEscape, which is instanced
    with its variables shared.
  - A number of type int, int64_t, Duration or Timestamp is written as
    `convertToColumnValue<T>` (decimal `std::format`, `Format`). It is read
    back by the `stringToValue` specialisation for its type: `Atoi` or
    `Atoll`, which is strtol/strtoll with clamping to the width of long,
    and for atoi the conversion to int.
  - Text is a sequence of character codes.
  - `Store` is the database, as a reference environment: it parses the
    literal with SqlEscape's reader and keeps its text, or rejects it.
    `Read` is the std::string reader, which builds the string from a C
    string, so `CStr` stops at the first NUL.
- **KafkaProducer.tla** models `publish`. The builder cache maps each
  (domain, service) pair to a builder, abstracted to its topic and key, and
  `produced` logs the messages sent.
- **ToOneAssociative.tla** models `link` and `unlink` over two objects, two
  associatives and Null. A call that throws ProgramError changes nothing, so
  the guard of each action is the condition under which the call does not
  throw. `navigate()`, `navigateAssociative()`, `correlate(rhs)` and
  `count()` are state functions that the property reads.
- **MC\*.tla** give the constants for TLC.

## Runs

| Run | Checks | Shows |
|---|---|---|
| `pt` | MonitorOutcomeOnce, ListenersAgreeWithMonitor, MonitorProtocolRefined | Two listeners are connected in every order, up to three slots, and l1's `threadCompleting`/`threadCompleted` slots may throw. The destructor still gives every unit exactly one monitor outcome, and every listener connected to `threadAborted` last heard that outcome. The monitor's calls follow MonitorProtocol, and every started unit ends. |
| `pt_ctor_throw` (violation) | MonitorOutcomeOnce | A throwing `threadStarted` slot leaves the monitor with a unit that never ends (finding). |
| `pt_listener_outcome` (violation) | ListenerOutcomeOnce | A throwing `threadCompleted` slot leaves `inProgress` set, so a listener connected to both `threadCompleted` and `threadAborted` hears "completed" and then "aborted" for one unit (finding). The property counts distinct outcomes, so a function connected twice to one signal is not a violation. |
| `process` | TypeOK, ScheduleHooksPaired, NoScheduleWorkAfterShutdown, ShutdownHooksRun | Hook slots throw (initialising, nextSchedulePhase, shutdown) and SIGINT/SIGTERM arrive at any step, including between the `signal()` calls of endStartup. Even so:<br>• pre/postSchedule pair up;<br>• no schedule work starts after a shutdown request;<br>• a requested shutdown runs the shutdown hooks unless the process is killed or crashes. This rests on `run()` returning (`MainLoopReturns`) and excludes the crash of a throwing noexcept destructor, so those two hazards are not caught by it. |
| `process_action_throw` (violation) | ScheduleHooksPaired | A throwing schedule action skips postSchedule (finding). |
| `process_signal_dispositions` (violation) | DispositionsAsSpecified | In the main loop, each signal should have the disposition spec 6 gives it: its inherited one if that was not SIG_DFL, else quitWithCleanup, and SIG_DFL after the first handled signal. endStartup overwrites a custom handler (finding). The same property also catches SIGTERM re-armed with quitWithCleanup after a SIGINT lands between SIGTERM's probe and install. |
| `process_signal_window` (violation) | SignalTakesEffect | When both signals start as SIG_DFL, every delivered signal either requests shutdown or kills the process. A signal delivered between `signal(sig, SIG_IGN)` and `signal(sig, quitWithCleanup)` is discarded (finding). |
| `process_shutdown_twice` (violation) | ShutdownHooksOnce | A shutdown slot that throws out of mainLoop makes forceTerminate fire the shutdown hooks again (finding). |
| `sql_column_values` | StringRoundTrip, ColumnRoundTrip | Every string of up to 4 characters over {quote, letter} is stored as a single closed literal and reads back through the std::string reader as itself. Every int, int64_t, Duration and Timestamp value reads back from its column text as itself, minimum and maximum included. |
| `kafka_stale_key` (violation) | KeylessMessageHasNoKey | A keyless publish carries the key of an earlier publish on the same builder (finding). |
| `to_one_null_link` (violation) | LinkComplete | `link(null, a)` leaves a half relationship: count() is 0 but an associative is set, and correlate(null) returns it (finding). |
| `domain_loading` | TypeOK, RegistryConsistent, LoadResultExact, ErrorTextNamesRemaining, LoadOrderRefined | Domains register in any order, with repeats and lookups, before loading. Ids are dense from 0 and agree with the name index. Then, for the registered domains' libraries and every dependency relation and set of missing files, the loader:<br>• loads exactly the loadable ones;<br>• names each left-over library once;<br>• refines LoadOrder, liveness included. |

Every property of a passing run has a mutant in PROJECT.json: a plausible
bug in the code that the property catches.

## Bounds

- **Guard.** Three units are enough for a throw in one unit to meet the next
  unit. Two listener functions and up to three connects at startup cover:
  - a throwing slot before and after a slot that does not throw;
  - a function connected twice to one signal;
  - a listener of `threadCompleted` that is not a listener of
    `threadAborted`.
- **Process:**
  - one `-preinit` file and one `-postinit` file, with each file unreadable,
    invalid, or valid with 0 to 2 actions;
  - one request served in the main loop, which is a service or a pause;
  - two signals delivered, which is enough for the second signal after a
    reset to SIG_DFL.
- **Loader and registry.** Three domains, each with its own library, and
  ids -1..3 for lookups on both sides of the range. The loader meets three libraries, with every `needs` relation that has no
  self-loop and every set of present files. This includes chains whose sorted
  order is the reverse of the load order, so three passes are needed. It also
  includes cycles, missing files, and the cases where `errors` equals
  `prevErrors` on the first pass.
- **SQL escape.** Strings of length 0 to 4 over a quote and one other
  character. This includes quotes first, last and adjacent, and strings with
  no quote, which take the early return. NUL is not among the characters: a
  string holding it reads back cut short (a hazard, below), and with it the
  run would show only that.
- **SQL numbers.** int is 6 bits wide and int64_t/long 10 bits, instead of
  32 and 64, so that TLC can write and read every value of each type. The
  decimal and clamping logic does not depend on the width. A long value
  outside int range (as a Duration read through atoi would be) is present
  at every width where IntBits < LongBits.
- **Kafka.** Two domains, one service, two keys and the empty key, with
  three publishes. That is enough for a keyed publish followed by a keyless
  publish on the same builder.
- **ToOneAssociative.** Two objects, two associatives and Null, with every
  link and unlink argument pair.

## Fairness

Everything runs on one strand that runs each handler to completion, so the
strand's own steps (`ProgramStep`, and the loader's loop) are weakly fair.
Requests (`ServeRequest`) and signals (`Deliver`) come from outside and carry
no fairness, because nothing in the code makes them happen. In the guard
module, the client scope is weakly fair. So the liveness half of
MonitorProtocolRefined, that a started unit ends, rests only on the strand
running a scope to its end.

## Not modelled, and the plan

- `Util.hh`:
  - The `lexical_cast` fallback of `stringToValue` is a library conversion.
    The std::string reader is modelled; the SWA::String reader does the same.
  - `valueToString`, the functor and traits templates and `checkStream` hold
    no state.
  - The std::string reader builds the string from a C string, so a value
    holding '\0' reads back cut short at it. This is listed as a hazard.
    Whether the driver can return such a value is not under `src/`.
  - `isBigEndian` (line 258) compares `htonl(0x01020304)` with `0x04030201`,
    which is what `htonl` returns on a little-endian host, so it answers
    true on little-endian hosts. It is a
    one-line constant function with no caller under `src/`, listed as a
    hazard and not given a run.
  - A SQL NULL column would give `stringToValue` a null pointer (line 350).
    Whether a column can be NULL is decided by generated code that is not
    under `src/`.
- The Producer constructor only builds the cppkafka client. The topic name
  comes from the Kafka ProcessHandler, which is not under `src/`.
- `ToOneAssociative`: the predicate forms of `navigate` and
  `navigateAssociative` filter the same two pointers through a caller's
  predicate. No property tells them apart from the plain forms.
- `Criteria.cc` is pure forwarding to a pimpl that is not under `src/`.
  `ProcessHandler.hh` and `ActionHandler.hh` are declarations only.
- `coldStart`, `getCommandLine` and `idle` are accessors or direct calls
  into the I/O context.
- `getName` caches its first result. A call made before `main()` parses the
  command line would cache `projectName` and ignore `-name`. The parse point
  is not under `src/`, so this is listed as a hazard and not modelled.
- A stale read of the non-atomic `shutdownRequested` is below the level of
  an interleaving model.
- `quitWithCleanup` calls `requestShutdown` in signal context, and that
  stops the io_context, which takes a mutex. If the signal arrives while
  the strand's thread holds that mutex, the process deadlocks. This is
  listed as a hazard. `requestShutdown` and asio are not under `src/`, and
  the model treats the handler as one atomic step.
- `register*Listener` for the process hooks (lines 238-271, 291-293) is not
  modelled slot by slot. The hooks are counted per emission, with one
  choice of whether a slot throws. One slot per hook, which may throw, is
  what the process run can afford. Two listener functions on ten hooks,
  with up to two connects, would give over 400 slot layouts. That would
  multiply the 84k states of the process run past what a run can finish.
  The slot-level semantics (connection order, a throwing slot stops the
  rest) is checked on the thread signals in `pt`.
- `quitWithCleanup` resets an ignored SIGTERM to SIG_DFL after a SIGINT.
  Spec 6 asks for the default disposition to be restored after the first
  signal, so no run treats this as a disagreement. The model's `Deliver`
  reaches it.

Next steps:

- Give the SIGTERM re-arm its own violation run, separate from the custom
  handler counterexample that `process_signal_dispositions` shows first.
- Give the NUL truncation its own violation run, with '\0' among the
  characters of `sql_column_values`.
