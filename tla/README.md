# Verification of Mett-Eagle

TLA+ models, model-checking runs and machine-checked proofs for Mett-Eagle, a
serverless platform on the Fiasco.OC microkernel (`src/`): a manager that
starts a worker process for every invocation of a function, the client and
worker interfaces, and the libraries they are built on. Paths below are
relative to `src/`.

- [1 Inventory](#1-inventory): the parts, their state, what is hard about them
- [2 Modules](#2-modules): which module models what, and how
- [3 Runs](#3-runs): what TLC checks, with which bounds and fairness
- [4 Disagreements](#4-disagreements-between-code-and-documentation)
- [5 Proofs](#5-proofs): what TLAPS proves, from what, and how
- [6 Not modelled](#6-not-modelled)
- [7 Plan](#7-plan)

## 1 Inventory

### Registry (`mett-eagle/manager/src/manager_registry.cc`, `manager.cc`)

*State.* The global bitmap `available_cpus`; per client an epiface, a server
object, a detached pthread pinned to one CPU, an IPC gate and a deletion
interrupt.

*Operations.* `op_register_client` on the main thread, one call at a time;
`Gate_deletion_irq::handle_irq` and its cleanup (`free_client_cpu`,
`pthread_exit`) on the client threads.

*Interaction.* A client calls `register_client` (`include/util`, `getManager`)
and gets the gate of its thread with the reply. The kernel raises one interrupt
for every deleted gate that belongs to the thread: the client's and those of
its workers.

*Hard.* `available_cpus` is updated without a lock by the main thread and by
all ending client threads. A client may die at any moment, also before it was
answered. The interrupt does not say which gate was deleted. Every step of the
setup may fail.

*Correct when.* A CPU has one owner; a thread ends when its client left and
never before; registrations are answered.

### Invocation engine (`manager_base.cc`, `manager_worker.cc`, `worker.h`)

*State.* The C++ stack of nested `op_action_invoke` calls, each with a `Worker`
(task, gate, state, exit value), a start time and a limit; the UTCB, which
carries request, answer and the arguments of every system call in between; an
exception in flight.

*Operations.* `op_action_invoke` with its own server loop for one worker;
`op_exit`, `op_signal` and `op_action_invoke` called by that worker.

*Interaction.* The client thread serves its client with an open wait. During an
invocation it serves the worker alone, with a closed wait. A worker's invoke is
dispatched inside that loop, so invocations nest on the stack of the thread.

*Hard.* Messages of a worker in any order, a worker that never sends any,
limits that pass during nested calls, exceptions that cross several levels,
dataspaces revoked between check and use, and destructors whose system calls
overwrite the answer.

*Correct when.* The chain of callers is consistent, every worker is destroyed
before its client is answered, answers are the values of the right worker, an
overdue worker does not go on, and clients are answered.

### Client session (`manager_client.cc`)

*State.* The map of actions (name, dataspace, language), the receive slot of
the server, and the counters of the slots behind both. *Operations.*
`op_action_create`, `op_action_delete`, the copies that invocations make of an
action's smart capability, the end of the session. *Interaction.* The slots
come from the allocator that all sessions share; the dataspaces belong to
somebody else. *Hard.* The receive slot is replaced after the insertion, and
that may fail; dataspaces are revoked at any moment; recursive invocations count
without a limit in 7 bits; what came with a refused request stays in the receive
slot. *Correct when.* A slot has one owner and an exact counter, actions keep what
the client sent, and a session leaves no slot in use and no capability of an
action behind.

### Capability slot allocator (`liballoc/include/alloc`)

*State.* `_items`, one atomic used flag and reference counter for each slot;
`_last`. *Operations.* `alloc`, `take`, `release`, `free`: loops around single
atomic operations, called by all threads through smart capabilities. *Hard.*
All interleavings of the loops, the order of counting down, emptying the slot
and marking it free, the ends of the circular scan and of the counter.
*Correct when.* A slot in use is never given out again or emptied, a slot that
is given out is empty, and slots come back.

### Benchmark client (`mett-eagle-client/client/client.cc`)

*State.* `waiting_count`, a mutex, two condition variables, the metrics of each
thread. *Operations.* Creation of the threads one after the other, the barrier,
the measurement loop that repeats failing invocations, the joins and the output.
*Hard.* Lost and spurious wake-ups; a thread that fails before the barrier.
*Correct when.* Registrations are serial, nobody measures before all are
registered, only complete results are printed, and the benchmark ends.

### Function library and Python runtime (`libfaas`)

*State.* Where the process is, what the function returned, the pointer or string
that is passed to `exit`. *Operations.* `main` of the C++ wrapper and of the
Python 2.7 wrapper, `invoke`, and the two final RPCs `exit` and `signal`.
*Hard.* An arbitrary function may return, throw, end or crash; the exit RPC may
fail; the Python wrapper keeps a pointer into an object it releases.
*Correct when.* The manager receives at most one final message, it is true, and
a function that returned is reported.

### Log library (`liblog/include/log`)

*State.* A semaphore shared by manager and benchmark client (`mett-eagle.cfg`),
and, in each call, a copy of the first message register. *Operations.* `log`:
save, `down`, print, `up`, restore. *Interaction.* The semaphore is created with
0; `main` of the benchmark client increases it once. Workers do not get it.
*Hard.* Processes end at any moment, system calls overwrite the register of a
message that is still to be answered. *Correct when.* One thread writes at a
time, the register is kept, and calls return.

### Other parts

| part | state and behaviour | properties |
|---|---|---|
| RPC interfaces (`mett-eagle/include`) | the calls of clients and workers, an inline wrapper for `std::string` answers | the calls are actions of the models, the wrapper is `Perceived` |
| error dispatch (`liblog/include/exc_log_dispatch`) | turns an exception of a handler into an error answer | modelled with the invocation engine |
| loader glue (`app_model`, `stack`, `l4re_aux`) | lays out the address space of a worker; sequential, succeeds or throws | none of its own |
| tests, example functions, `libfmt`, `libgtest`, `libpython3`, boot configuration | clients of the above, vendored code, build files | none |

`PROJECT.json` lists all parts with their files, and every hazard with the line
where it bites.

## 2 Modules

| module | content |
|---|---|
| `ActionInvoke` | one client thread of the manager between two open waits |
| `CallStack` | what the invocation engine promises: a stack of calls |
| `ClientRegistry` | the registry, the client threads and the deletion interrupts |
| `CpuPool` | what the registry promises about CPUs |
| `WorkerLife` | the contract between the manager and its workers |
| `ActionTable` | what invocations may rely on about the actions of a client |
| `MettEagle` | the registry composed with the invocation engine of one client |
| `ActionStore` | the slots and references behind the actions of a session |
| `CapAlloc` | the lock-free allocator, one atomic operation per step |
| `SlotRefs` | what a reference counting allocator promises |
| `BenchClient` | the benchmark client |
| `WorkerRuntime` | what runs in a worker around a C++ or Python function |
| `LogSync` | `log` in all threads of the system |
| `MC...` | instances and symmetries for TLC |
| `...Proofs` | theorems about the module they are named after |

Definitions whose comment begins with "Mutant of" are not used by the
specifications. Each is a plausible bug in the definition it names; putting it in
that definition's place makes TLC refute the property that `PROJECT.json` names
for it, which shows that the property says something about the code.

### ActionInvoke

`frames[1..depth]` is the C++ call stack: `frames[1]` belongs to the client's
invocation, `frames[depth]` to the innermost. `pc` is the place of the thread:

| `pc` | code (`manager_base.cc`) |
|---|---|
| `wait` | the open wait of the server loop |
| `setup` | 60-149, a worker is being set up |
| `first`, `closed` | before and in the receive from the worker, 165-190 |
| `again` | after a dispatch, before the answer to the worker, 180-190 |
| `collect`, `scope_end`, `return` | 193-219, result, destructors, answer |
| `reply` | the server loop is about to answer the client |
| `throw` | an exception is in flight |

The actions of the manager (`ManagerStep`) and of the innermost worker
(`WorkerStep`) alternate as the blocking IPC makes them; `Environment` lets
limits pass and owners revoke dataspaces at any moment. `utcb` is what the next
answer would carry, with the value `"clobbered"` after system calls. Names and
results are small sets; a result is in `Long` when it does not fit the caller's
buffer. A limit is one bit per invocation ("has passed"), set by `Elapse` at any
time after the worker has started. `MaxDepth` bounds the nesting: a deeper
invocation is not started in the model (the code has no bound but its stack).
The error codes are those of the exceptions on the way. An error reaches a client
as its code, or, through the `std::string` wrapper, which judges its buffer
before it looks at the result of the call, as `EMSGTOOLONG` (`Perceived`).
`lastExit` is a history variable for the properties.

`CallStack` is what this amounts to for a caller: calls with a value or none, an
error that is on its way, an answer. It knows neither workers nor limits, nor
where the manager is. `CallStackSpec` maps `frames` to the calls, `err` to the
error, and the UTCB to the answer while there is one to give (`Answering`). It
would be violated by a callee's value that reaches the wrong caller, by a
caller that is resumed after an error, or by a call that ends before those it
made.

Two small specifications stand between the engine and its neighbours. Both
sides are shown to implement them, with different variables, so that what one
side assumes is what the other one gives:

- `WorkerLife` is the life of a worker: launched, computing, blocked in a call,
  exited or failed, gone. For `ActionInvoke` it is `frames[i].worker` (`WorkersSpec`:
  the manager resumes only who is blocked, and nobody after the final message); for
  `WorkerRuntime` it is what a manager can know of the process (`Known`, `LifeSpec`).
- `ActionTable` is the set of actions by name: absent, valid, or stale after a
  revocation, which only the deletion changes. For `ActionInvoke` it is `actions`
  (`TableSpec`); for `ActionStore` it is computed from the map and from what the slots
  hold (`Status`, `KeepsTable`). `KeepsTable` is stated step by step, because it
  excepts sessions in which the receive slot could not be replaced (`aliased`).

### ClientRegistry

`main` is the place of the main thread in `op_register_client`, `session[c]` the
state of client `c`, of its gate and of its thread in one record. The two
updates of `available_cpus` (`&=` in `select_client_cpu`, `|=` in
`free_client_cpu`) are a load and a store each (`SelectLoad`/`SelectStore`,
`FreeLoad`/`FreeStore`), because nothing makes them atomic. The many calls that
build the session are the one step `SetUp`, which nobody can observe in the
middle: its only outcomes are that all are done, that one of them throws
(`SetUpFails`) and that the use of the `pthread_t` which a failing
`pthread_create` left uninitialised ends the main thread (`ThreadCreateFails`).
`Leave` is the kernel's deletion of the client's gate, `WorkerGateDeleted` that
of a finished worker, and both set the same pending bit. A client has one
session at a time.

`CpuPool` knows owners and lost CPUs only. `ClientRegistry` implements it
(`PoolSpec`) as long as no two updates of the bitmap overlap (`SerialSpec`): this
separates what the logic of the registry guarantees from what its data race
destroys.

### MettEagle

`MettEagle` extends `ClientRegistry`, instantiates `ActionInvoke` for the client
`One`, and joins them where the code does. A request that the registry's model
receives is a step of the engine's client (`Dispatch`); the thread is in
`serve` until the engine answers (`AnswerRequest`); an invocation that is left,
with a value or by an exception, deletes the gate of its worker, which raises
the interrupt the registry waits for (`LeaveInvocation`); the engine goes on when
the client has left, because the interrupt is only looked at in the open wait;
the cleanup deletes the actions (`EndOrGoOn`). A worker that was never launched
may not have had a gate yet. The other clients are those of `ClientRegistry`.

### ActionStore

The slots are those of the allocator, whose operations are one step each here:
`count` and `content` of a slot, and who uses it - the receive slot `rcv` of the
server, an action, or another session (`others`). `Create` does what
`op_action_create` does and what `realloc_rcv_cap` (not in the repository) must:
the slot moves into the map, the server gets a new one. If it fails
(`CreateFails`), the action exists and its slot is the receive slot still;
`aliased` records that, and the properties speak of sessions without it. `Start`
takes the references an invocation keeps, three for a binary (the copy of the
`Action`, `worker_ds`, `Worker::_bin`), one for a Python action, and up to
`MaxTransient` more that it gives back at once. `Counted` takes and
releases with the arithmetic of the 7 bits: the last value carries into the used
flag. Invocations end in any order here and in the order of a stack in
`ActionInvoke`, which is one of these.

`CreateRefused` leaves what the request carried in the receive slot: a dataspace,
if the name exists, or nothing, if the dataspace was revoked before it was looked
at. `CloseServer` is `delete client_server` (`manager_registry.cc:223`). The
server is L4Re's `Registry_server` with `Br_manager_hooks`, which is not in the
repository; it is taken to free its receive slot without a task, and `free`
without a task marks the slot free and unmaps nothing (`alloc:185, 208`). So the
slot is free and as full as it was, and the next owner of the slot finds the
dataspace there until something else is received. The receive slots of other
sessions end in the same way (`OtherServerEnds`). The history `strays` are the
slots that got a capability no action holds in one of these ways;
`OnlyStraysLeft` says that nothing else stays after a session.

### LogSync

`at` is the place of each thread in `log`, `sema` the counter of the semaphore,
`mr` the first message register. A thread that ends between `down` and `up` is
`lost`, and so is the semaphore. Threads of the client end together, others may
end alone. The register is overwritten by every system call, and `meant` is what
the thread last put into it. Threads outside `Synced` are those of workers.

### CapAlloc

A *handle* is one smart capability object. An operation of thread `t` is
`thread[t]`, with the local variables of the C++ function (`slot`, `start`,
`current`); one action is one atomic operation, or one `l4_task_unmap`. Threads
work on different handles, since the objects themselves are not thread safe. A
handle may be copied while another thread copies it, not while it is destroyed.
`FreeBegin` requires that the handle is the only one of its slot (`Unique_cap`).
`Fill` is the capability that the holder of a slot receives. `release` and `free`
have a branch for a call without a task, which leaves the capability in the slot
(`alloc:208, 250`). It is not in this module: smart capabilities always pass the
task, and `FreeIsEmpty`, `HeldStaysFilled` and `SlotComesBack` are about those.
The one place where a slot is freed without a task is the end of a server,
`CloseServer` of `ActionStore`. The width of the
counter is `MaxCount`, and the carry into the used flag is modelled
(`Incremented`). `take` is called for
slots a smart capability refers to, as everywhere in the manager, and so are
`release` and `free`: their early return for a slot that is not in use is no
action, because it never happens then: `RefCounted` holds while the item is
loaded, so the value has a reference to give up (`OpOK` in the proofs).

`SlotRefs` knows the slot of each handle and the slots being emptied.

### BenchClient

The holder of the mutex is whoever is in `check` or `arrive`; a thread in
`sleep` waits on its condition variable and may leave it with or without a
notification (`MainWakesUp`, `WakesUp`), and evaluates the predicate again. The
measurement loop keeps its index and the number of entries of its `Metrics`
apart, because a failing invocation changes the former (`i--`, then `i++`) and
not the latter. Threads die with the main thread (`Runs`).

### WorkerRuntime

One worker, in one of two languages. `pc` follows `main`; the function and the
script are `pc = "function"` and `"script"`, where any of the `Function...`
actions may come next. `result` is what the function returned, `answer` the
variable that `main` passes to `exit`: in Python a pointer, which is null for an
object that is no string (`PyString_AsString`) and dangles after `Py_XDECREF`
and `Py_DECREF (pModule)`, if nothing else refers to the string. Freed memory is
read as anything. `SendExit` and `SendSignal` include the answer of the manager,
which is none. `FunctionEnds` and `Crash` are the ends that no C++ exception
announces; a crashed worker sends nothing, and is what `SilentWorkerEnds` of
`ActionInvoke` is about.

## 3 Runs

| run | checks | instance |
|---|---|---|
| `invoke` | `TypeOK CallChain NoOrphanWorkers ReplyIntact ExpiredNeverResumes SilentWorkerEnds CallAnswered CallStackSpec WorkersSpec` | 2 actions, 3 results (one too long), depth 3 |
| `invoke_deadline` | `DeadlineEnforced`, refuted | 2 actions, 2 results, depth 2 |
| `mett_eagle` | `NoPrematureTeardown NoLostDeletion WorkersAreServed LeaversCleanedUp RegistrationAnswered` | 2 clients, 2 CPUs, 1 action, 2 results, depth 2 |
| `registry_serial` | `TypeOK DedicatedCpu PoolSpec` | 3 clients, 3 CPUs |
| `registry_race` | `DedicatedCpu`, refuted | 3 clients, 2 CPUs |
| `registry_gone` | `ThreadsEnd`, refuted | 2 clients, 2 CPUs |
| `store` | `OneOwner RefsExact ActionKeepsDataspace OnlyStraysLeft KeepsTable` | 2 actions, 2 dataspaces, 4 slots, counter to 12, 3 invocations of one slot |
| `store_deep` | `RunningIsUsed`, refuted | 1 action, 1 dataspace, 2 slots, counter to 127, 43 invocations |
| `alloc` | `RefCounted HeldIsUsed FreeIsEmpty ScanMissesOnlyLast HeldStaysFilled RefsSpec SlotComesBack` | 2 threads, 3 handles, 3 slots, counter to 3 |
| `worker` | `OneFinalMessage CppReportTrue FunctionReported` | 4 results (one too long), 2 invocations |
| `bench` | `SerialRegistration NoEarlyStart MetricsComplete NoLostWakeUp BenchmarkEnds` | 4 threads, 2 iterations |
| `log` | `OneWriter RegisterKept LogReturns` | manager, main and another thread of the client, 1 worker; 2 messages |

*What they show.* The comment above each property in its module says what it
means for the code. In short: an invocation is a stack of blocked callers that is
taken down completely before the client hears of it, whatever fails at whatever
level; the answer is the right worker's value although the UTCB is overwritten
on the way; sessions end exactly when their client left; CPUs have one owner
unless the race strikes; the allocator is correct under every interleaving of two
threads; the chain of single notifications is never broken and wakes every
benchmark thread. In the
composition, a client that leaves in the middle of nested invocations is cleaned
up after them and never during them, although the interrupts of its gate and of
its workers' gates are one bit. Slots have exact counters through
nested, failing and refused requests, and no session leaves one in use; a
capability stays behind only in a slot where it came with a refused request. The
log takes turns, and only a process that ends while it writes can stop the others.

*Why the bounds are enough.* Depth 3 has an invocation that is both callee and
caller, so that exceptions and limits cross a middle level; two actions let a
worker call itself or another. Three clients on two CPUs (`registry_race`) are two
concurrent updates of the bitmap next to a third party that is harmed; three on
three (`registry_serial`) lose CPUs by failed registrations until the others are
reused and registrations refused. The properties of `mett_eagle` concern one
client, the main thread and what others do meanwhile, which two clients show; at
depth 2 an exception crosses a level, and the interrupt of one worker is raised
while another one runs. Four slots are a receive slot, two actions and one that
is free, of another session, or left by one, and too few as soon as others take
it, so that allocation fails; the counter of `store` is the smallest that three
nested binaries and two transient copies do not overflow (`FewReferences`), that
of `store_deep` is the real one. The properties say nothing of a session after
its receive slot could not be replaced, so `store` does not go on from there (the
constraint `Replaced`; `aliased` is never reset). Four
threads are two that share a process and the semaphore, one that shares the
semaphore only, and one that shares nothing. Two threads are enough for
every race of two compare-and-exchange loops; three handles give a slot with a
counter that goes to 2 and 1 while a third handle is allocated; three slots let
the scan wrap around and pass a slot that is in use. Four benchmark threads give
the chain of notifications a middle. A worker may return the empty string, one
of two others, or one that the exit RPC refuses. The proofs of section 5 do not
depend on these bounds.

*Symmetry* is used in `store` and `store_deep` only, over names, dataspaces and
slots, which are all alike there. No liveness property is checked with it;
`KeepsTable` is about single steps and the same for all names.

*Deadlock* is checked for `ActionInvoke`, `ActionStore` and `CapAlloc`. It is
switched off for `ClientRegistry` and `MettEagle`, where the system may really
stop (a main thread that faulted, clients that died before they got their gate),
for `BenchClient`, whose main thread exits, or waits for ever for a client that
failed to register, for `WorkerRuntime`, whose process ends, and for `LogSync`,
whose processes all may.

*Fairness.* No safety property uses any. `ActionInvoke!FairSpec`: the manager's
thread is scheduled and time passes (the kernel schedules runnable threads; the
clock does not stop). `CallAnswered` further assumes that functions end, stated
in the property (`FunctionsEnd`): strong fairness, as a worker can call others
in between. `ClientRegistry!FairSpec`: weak fairness for the main thread and the
client threads, which includes that a served request ends; strong fairness for
the reception of a call, since the kernel queues senders.
`MettEagle!SystemFairSpec`: the same, but that a request of `One` ends is not
assumed; it follows from the engine, if functions end (`FunctionsEnd` in
`LeaversCleanedUp`), and for the other clients nothing of `One` is assumed.
`LogSync!FairSpec`: the benchmark client is started, threads in `log` are
scheduled, and the kernel wakes those who wait for the semaphore in turn (strong
fairness). `CapAlloc!FairSpec`: a
thread in an operation goes on; the loops need no more, because each failed
exchange means that another thread succeeded. `BenchClient!FairSpec`: threads are
scheduled and nobody is kept from the mutex for ever; wake-ups without
notification are never relied on. `WorkerRuntime!FairSpec`: the process
is scheduled while it runs the wrapper's own code; nothing is assumed of the
function. `BenchmarkEnds` also assumes that no
registration fails and that a repeated invocation succeeds at last, in the
property itself.

## 4 Disagreements between code and documentation

Four are shown by a run (`expect: violation`):

- `invoke_deadline`: only the first receive from a worker has a timeout
  (`manager_base.cc:189` passes `L4_IPC_NEVER`). A worker that sent one message
  and then computes for ever is never ended, though `include/base:57-58` says
  that a process that reaches its limit is killed. `SilentWorkerEnds` is the part
  of the promise that the code keeps.
- `registry_race`: an update of `available_cpus` overwrites another, a CPU that
  is in use is marked as available, and two clients get it (`README.adoc:24`: "a
  dedicated core").
- `registry_gone`: the gate of a client that died before it was answered was
  never mapped, so it is never deleted, and the thread stays
  (`doc/mett-eagle.md:13-14`: "The threads will end when the client leaves").

- `store_deep`: the 128th reference to one slot carries into the used flag
  (`alloc:165`): the slot is free while an action runs from it, and whoever
  allocates next may get it (`alloc:37-39`: "automatically frees the slot and
  optionally unmaps the capability when the reference count goes down to zero").
  A binary action that invokes itself reaches it at the 42nd level (three
  references each, the map's, and one for a moment), if the stack of the client's
  thread, whose size the repository does not say, holds that many.

Others were met while modelling. The models contain the behaviour, no run is
spent on it:

- A registration that fails after `select_client_cpu` does not give the CPU back
  (`manager_registry.cc:124`); it is the action `SetUpFails`, which maps to
  `CpuPool!Lose`.
- An error of a nested invocation leaves the caller's `op_action_invoke` too and
  destroys the calling worker (`manager_base.cc:174`), which `libfaas/include/faas:57`
  documents to see an exception.
- `alloc` never tries the slot it started behind (`alloc:117`), so it may fail
  although that slot is free; `ScanMissesOnlyLast` says that it is the only one.
- The wrapper of `action_invoke` tests a byte of its uninitialised buffer before
  it knows whether the call succeeded (`include/base:169`): an error may arrive as
  `EMSGTOOLONG` instead of the documented code (`Perceived`).
- A failing `realloc_rcv_cap` is answered with an error, but the action was
  inserted (`manager_client.cc:43-45`) and its slot remains the receive slot. The
  next request replaces the dataspace of that action, a refused one too;
  deleting the action leaves the server a slot that another session may be
  given, into which the next dataspace is received; and at the end of the session
  the slot is given back twice. `CreateFails` is in the model, the properties of
  `ActionStore` are about sessions without it.
- A dataspace that came with a refused request (`manager_client.cc:32-40`) stays in
  the receive slot, and after the session in the freed slot, until something else
  is received there (`CreateRefused`, `CloseServer`): the manager keeps a
  reference to memory that no action uses. It rests on the assumption about the
  server in section 2, so no run is spent on it; `OnlyStraysLeft` says that
  nothing else stays.
- `liblog/include/log:97` wants the semaphore initialised with 1; `mett-eagle.cfg:20`
  creates it with 0, and the benchmark client increases it (`client.cc:199-202`
  says why). Until then everyone who logs waits. In `test/test-client/test.cfg`
  nobody increases it, so that an unsilenced message there would never return.
- `take` may be called for a bare capability index. If the slot is being freed at
  the moment, `take` revives it instead of doing nothing (`alloc:145-146`), and
  the freeing thread then marks it free. No code in the repository does so.
- A benchmark client that cannot register stops all others for ever; as the only
  client it leaves an empty result that is printed as a success (`MetricsComplete`
  therefore speaks of several clients).
- A Python function that returns `None` or any object but a string crashes its
  worker, which then never reports: `PyString_AsString` gives a null pointer,
  which `exit` reads. `libfaas/python2.7/src/wrapper.cc:79` says "if function
  returned nothing use an empty string" (`Convert`, `ExitFails`).
- An exception in a Python function is reported as the empty result, not as an
  error ("propagate the error to the client", `wrapper.cc:135`).
- The answer of a Python function may be read after it was freed
  (`wrapper.cc:87-92`): `Release`. The module is released with a reference that
  `PyImport_AddModule` did not give.

## 5 Proofs

All theorems hold for every value of the constants that satisfies the named
assumptions in the modules (`NoCpu` is no CPU, `Capacity` is positive, ...). Every
safety property of a passing run is a theorem.

**ActionInvokeProofs.** `TypeCorrect`, `CallersBlocked`, `ReplyCorrect`,
`NoOrphans`, `ExpiredStops`, `ImplementsStack`, `ContractKept`,
`ImplementsTable`, for any depth. The inductive invariant `IInv` adds
`ValueFlow`: where the exit value of the innermost worker is, from `op_exit` to
the answer. Without it the answer could not be related to a worker that is
already destroyed. `EnterIInv`, `ThrowIInv` and `TopUpdate` are the three ways in
which a step changes the stack. The refinement of `CallStack` needs two facts more:
`ThrowAgrees` (an error is in flight exactly where the manager throws) and
`NoValueYet` (only the innermost invocation can have a value); then every action
is one of `CallStack` or leaves its state alone. The refinement of `WorkerLife`
(`ContractKept`) says what a step does to the worker of each level, and needs that
those below the innermost are blocked (`CallChain`).

**ActionStoreProofs.** `TypeCorrect` without an assumption; `SlotsHaveOneOwner`,
`CountersExact`, `DataspacesKept`, `SessionsLeaveOnlyStrays`, `TableKept` and
`RunningSlotsAreUsed` under `FewReferences`: one reference of the map, three for
each nested invocation and the transient ones fit the counter. `store_deep` shows
that the last theorem is false without it. The invariant adds what the phase of
the session says of its variables (`Phases`), that a slot with an invocation
belongs to an action (`RunsInAction`), and that free slots and the receive slot are
empty but for what came there to stay (`Clean`): the receive slot is included
because the server frees it as it is.
`TableKept` follows from it step by step: the slot of an action is nobody
else's, so only a revocation and a deletion change what is in it.

**LogSyncProofs.** `TypeCorrect`, `WritersTakeTurns`, `MessageSurvives`, for any
threads. `OneToken`: the semaphore is a token that is in exactly one of three
places, the semaphore, the thread in the section, or the thread that ended there;
before the client started it does not exist.

**ClientRegistryProofs.** Two invariants. `LInv` holds for `Spec`, race included,
and gives `TypeCorrect`, `TeardownOnlyAfterLeave` and `DeletionNotLost`. It
relates, for each client separately, the states of client, gate and thread to
each other and to the main thread (which of them can exist while a registration
is under way). It is needed because the properties speak of a thread that was
started two steps before its client is told. `PInv` holds for `SerialSpec` and
gives `Dedicated`, `NotOffered` and `ImplementsPool`. It adds that assigned CPUs
are distinct and not available, and that a bitmap that was loaded is still the
current one (`Loaded`): exactly what the data race breaks, and why these
theorems need the assumption. `Effect` classifies every step as marking,
returning, losing or not touching a CPU, which gives the refinement.

**MettEagleProofs.** The composition, from the theorems about its parts.
`ActionInvokeProofs` is instantiated with the variables of the system
(`EngineProofs`); `SameNext` says that this instance and the one inside
`MettEagle` have the same steps. Every step of the system is one of the registry or
none of its business (`RegistryStep`), and one of the engine, none of its business,
or the end of a session, which deletes all actions at once (`EngineStep`).

- So the system is an execution of the registry (`RegistryInside`), and its
  theorems hold in it: `SystemTeardown`, `SystemDeletion`, and `SystemPool` as
  long as updates of the bitmap do not overlap.
- The end of a session is no step of the engine. Its invariant survives it
  (`EngineIInv`), so that `SystemEngine` and `SystemExpired` hold through all
  sessions; to the stack of calls and to the workers it is a stutter
  (`SystemImplementsStack`, `SystemContract`), to the table of actions the deletion
  of all of them (`SystemTable`).
- `WorkersServed` is what neither part can say: workers exist only while the
  thread of their client serves it, on a CPU it owns, and no action survives a
  session. `SysInv` relates the two places of one thread, that in the registry
  and that in the engine (`Served`), on top of both invariants.

**CapAllocProofs.** For any number of threads, slots and handles.
`TypeCorrect` and `ScanIsComplete` hold also when a counter overflows;
`CountsAreExact`, `HeldSlotsAreSafe`, `FreeSlotsAreEmpty`, `CapabilitiesStay` and
`ImplementsRefs` assume `FewHandles`: the counter can count the
handles. `CInv` says what each operation may rely on between its atomic
operations (`OpOK`), that a slot is emptied by at most one thread, and that
counters are the cardinalities of the sets of holders. `GainStep` and `DropStep`
are the two ways in which a counter changes. `ScanInv` says which slots a
circular scan has passed, and that each of them was in use at some moment of it:
`freeSince`, the slots that have been free all along, only contains slots still
ahead, or the one the scan started behind.

**BenchClientProofs.** `TypeCorrect`, `Serialized`, `StartTogether`,
`PrintedComplete`, `WakeUpsArrive`, for any number of threads and iterations.
`BInv` says that those who arrived are the threads with the lowest indices
(`InOrder`), which makes `waiting_count` the index of the next one, and which
threads exist at each place of the main thread (`Created`). `WakeUpsArrive` is the
part of `BenchmarkEnds` that is safety: each step that takes a thread out of
`wake`, `check` or `notify` puts it, or a sleeper, into one of them again, or
nobody sleeps.

**WorkerRuntimeProofs.** `FinalOnce`, `ReportsTrue`, `ContractKept` and
`TypeCorrect`, for any strings. `IInv` adds what is known of a C++ worker at each
place (`CppProgress`): which results are possible there. Without it a failure
could not be related to the function it is about, since the message only exists
two steps later.

**Only model-checked.** Liveness (`SilentWorkerEnds`, `CallAnswered`,
`LeaversCleanedUp`, `RegistrationAnswered`, `SlotComesBack`, `BenchmarkEnds`,
`FunctionReported`, `LogReturns`): liveness under fairness is out of the reach of
the proof tools used here.

## 6 Not modelled

- The loader glue (`app_model`, `stack`, `l4re_aux`, `Worker`'s `push_...` and
  `map_initial_caps`): it is sequential and either succeeds or throws, which is
  `Launch` and `LaunchFails`. That the index a worker is told for a capability is the
  one it is mapped to depends on `get_initial_cap` of libloader, which is not in
  the repository.
- Arguments, environment, metadata and the memory limit of a worker: data that
  is copied and never tested by the modelled control flow.
- The stack of the client's threads, the next limit of recursive invocations after
  the counters.
- The file capabilities of Python actions (`manager_base.cc:107`): their slots
  belong to the smart capability they are put into.
- The formatting of log messages and the levels that are silenced.
- The Python 3 runtime, which the manager does not start, and the interpreters.
- Vendored libraries (`libfmt`, `libgtest`), which are nine tenths of the lines of
  the repository's implementation files, tests, examples and build files.

## 7 Plan

Done, in the order of importance: the invocation engine and its stack of calls,
the registry with its pool, the composition of both, the store of a session, the
allocator with its abstract specification, the benchmark client, the runtimes of
workers, the log, the contracts between them, and the proofs of every safety
property, those of the composition included.

Next:

1. `ActionStore` as the client of `SlotRefs`: its steps as those of a reference
   counting allocator, below the limit of the counter. Then the slots of a session
   and the lock-free allocator meet in one specification.
2. `ActionStore` in the composition: the end of a session of `MettEagle` gives
   back every slot (`OnlyStraysLeft`), through all the sessions of a client.
