# Verification of the feature framework

This directory holds TLA+ specifications of the open-vela feature framework
(`src/`), the TLC configurations that model-check them on small instances, and
TLAPS proofs of theorems about every component that is modelled. The framework
lets a script (QuickJS or WAMR) call *features* written in C/C++: a feature is
registered with a description, the script `require`s it and gets an object,
methods of that object run native code, and native code answers through promises,
callbacks, events and tasks posted to the main loop. The features themselves are
under `modules/`.

    tlc -workers 2 -config FeatureManager_all.cfg MCTasksAndCalls.tla
    tlapm FeatureManager_proofs.tla

Paths below are relative to `src/`; `qjs/` stands for `src/backend/qjs/`.

## 1. Inventory

### The framework

| Component | State | Operations | Module |
|---|---|---|---|
| Task queue and handles: `src/feature_manager.cpp`, `src/feature_object_ref.*`, `src/feature_exports.cpp` | `task_queue_` (under `mutex_`), `async_`, `uvloop_`, `ft_ctx_`, the list of instances, `ref_count_` (atomic) and `detached_` of each | `FeaturePost(Ext)`, `runAllTasks`, `FeatureDup/FreeInstanceHandle`, `FeatureSet/UnsetUVLoop`, `FeatureUninit`, `FeatureFreeManager` | `FeatureManager` |
| Permissions: `src/permissions_manager.*`, `src/feature_permission.cpp` | `perms_set_`, one `PermissionsInfo` per waiting call with its duplicated arguments, three kinds of task | a call that needs a permission, the host's callback, `FeatureGrant/RejectPermissions`, removal at detach | `PermissionsManager` |
| Promises and callbacks: `src/promise_manager.*`, `src/callback_manager.h`, `qjs/callback_manager_qjs.h`, `qjs/feature_instance_qjs.cpp` | `promises_`, `curr_pid_`, `callbacks_`, `curr_cid_` | add, resolve, reject, invoke, remove, release at detach | `FeatureInstanceQjs` |
| Events: `src/feature_event_manager.h` | `events_map_`, one `std::list` of callbacks per event, `listener_` | on, off, set, clear, emit, change listener, `clearAllEvents` | `EventManager` |
| Prototypes, instances, interfaces: `qjs/feature_manager_qjs.cpp`, `src/feature_prototype.*`, `qjs/feature_instance_qjs.cpp`, `src/feature_instance.*` | prototype map, `instances_` slots and ids, `feature_node_list_`, the opaque pointer of each script object | require, create and convert an interface, finalizer, collector mark, `uninit` | `FeatureManagerQjs` |
| Calls of members: `src/feature_ffi_templates.h`, `src/feature_common.cpp`, `qjs/feature_manager_qjs.cpp` | slots of converted arguments on the stack, `error_msg_` of the instance | `methodCall`, `accessorGet`, `accessorSet` with their conversions, `FeatureThrowError` | `FfiCalls` |
| Conversion of values: `src/feature_convertor_templates.h`, `src/feature_common.cpp`, `qjs/value_translator_qjs.*`, `src/feature_exports.cpp`, `src/permissions_manager.cpp` | blocks of memory that are freed by their types, references to values of the script, the arguments a waiting call keeps | `convertValueToNative`, `convertValueToTarget`, `convertOptional`, `FeatureFreeValue` of trees, `PermissionsInfo`'s copies and `releaseArgs` | `Conversions` |
| Arrays and values: `src/feature_exports.cpp` | `ref_count` in the header of each value (atomic), `_size`, `_capacity` and `_element` of an array | `FeatureDupValue`, `FeatureFreeValue`, `FeatureStrCopy`, `FeatureCreateArray`, `FeatureArray*` | `FeatureArrays` |

### The features

| Component | State | Operations | Module |
|---|---|---|---|
| Message channel: `modules/message_channel_impl.cpp`, `modules/message_transport.cpp` | task board with a 10 s timer per request, maps of sessions, replies and listeners, reply objects held by a serving process | `sendMessage`, sessions, topics, replies and closes of the other side, broadcasts, onDetached | `MessageRequests`, `MessageListeners` |
| Interconnect: `modules/interconnect_impl.cpp` | the status, messages with their timers, one diagnosis | `send`, `diagnosis`, miwear's reports and answers, timers, shutdown | `Interconnect` |
| Downloads: `modules/request_impl.cpp` | `linklist`, `shareInfo`, `ReqInfo` | `download`, its ends and cancellation, onDetached, onDestroy | `Downloads` |
| Files: `modules/file_impl.cpp` | one request per call, the file system | read, write, delete, move, access, mkdir, rmdir, list on libuv's thread pool | `FileCalls` |
| Zip: `modules/zip_impl.cpp` | `zr_arr` of each instance, the current directory | `decompress` on the pool, its end, onDetached | `ZipWorks` |
| Sensors: `modules/sensor_impl.cpp` | `events[]`, the maps of `multi_events[]` | old and new subscriptions, `getRecentData`, samples, closing topics, onDetached | `Sensors` |
| Locations: `modules/geolocation_impl.cpp` | lists of calls and subscribers, of topics, one timer, a count of references | `getLocation`, `subscribe`, `unsubscribe`, samples, the timer, onDetached, onDestroy | `Locations` |
| Prompts: `modules/prompt_impl.cpp`, `modules/prompt/` | `dialog_callbacks_`; on the thread of the user interface a queue of dialogs | `showDialog`, drawing, buttons, deletion, the events posted back, onDetached | `Prompts` |
| System events: `modules/event_impl.cpp`, `modules/event/` | subscriptions, their lists and counts | subscribe, unsubscribe, samples of a shared topic, onDetached | `SystemEvents` |
| System settings: `modules/system_settings_impl.cpp`, `modules/system_settings/` | `request_set_`, `sub_set_`, `msg_queue_` | get, set, subscribe, unsubscribe, messages, onDetached, onDestroy | `SystemSettings` |
| Stores: `modules/storage_impl.cpp`, `modules/exchange_impl.cpp` | a database of the package, one shared by all; a handle for each call | `get`, `set`, `delete`, `key`, `clear`, `get_sync`; `exchange.get`, `set`, `remove`, `clear`; onDetached | `Stores` |
| Fetch: `modules/fetch_impl.cpp`, `modules/net_utils.cpp` | a list of requests in the prototype | `fetch` with its arguments, the end of a request, onDetached, onDestroy | `Fetches` |
| Media: `modules/media_impl.cpp` | pending previews by id on the application's thread, widgets by the same ids on the user interface's | `previewImage`, the tasks between the two, onDetached | `Previews` |
| Health: `modules/health_impl.cpp` | topics with the calls that wait and the instances subscribed | `getRecentSamples`, `subscribeSample`, `unsubscribeSample`, samples, closes, onDetached, onDestroy | `HealthSamples` |
| Brightness: `modules/brightness_impl.cpp` | a list of nodes for each instance | get, set and keep-on, `brightness_cb`, onDetached | `BrightnessRequests` |
| Package manager: `modules/packagemanager_impl.cpp` | listeners held by the package service, results in the queue of tasks | `install`, `uninstall` and their results on binder threads; the queries | `Packages` |
| Test input: `modules/input_impl.cpp` | one input generator, a request for each gesture | `tap`, `drag`, `swipe`, buttons, `wheel` on the pool; onDestroy | `InputWorks` |
| Crypto: `modules/crypto_impl.cpp`, `modules/crypto_native.cpp`, `modules/cipher_impl.cpp` | `crypto_err`; blocks taken and freed by hand within a call; the keys of an ECDH object | digests, signatures, ciphers, hkdf, btoa and atob; createECDH, generateKeys, setPrivateKey, getters, computeSecret | `CryptoCalls`, `EcdhKeys` |

How they interact. Script, native methods, tasks, finalizers and `uninit` run on
one thread, *main*; native threads of a feature may hold a duplicated handle,
post tasks and drop the handle. Four kinds of foreign code run in the middle of
the framework's own functions: task callbacks (in `runAllTasks`), script
functions (in `resolve`, `reject`, `invokeCallback`, `doEmitEvent`), the host's
permission callback, and a feature's `onDetached`. Any of them may call back
into the framework, and dropping the last reference on a script object runs its
finalizer, which detaches and usually deletes its instance, at that very point.
A feature meets the framework in three places: it duplicates the handle for
work that goes on, it calls functions and settles promises, which may re-enter
it, and its `onDetached` has to end whatever still leads to the instance.
Features share nothing with each other but the loop.

What is hard, and what would make each component correct:

* **Queue and handles** - posts race with the swap of the queue, with the loop
  being unset and with the deletion of the manager; the last reference may go on
  any thread. Correct: exact counts, tasks called once and in order, nothing
  leaked, no use after teardown.
* **Permissions** - a decision takes two queued tasks, in between the instance
  may be detached, the info deleted and its address reused. Correct: a waiting
  call is settled once and its arguments are released once.
* **Promises and callbacks** - the functions run while the data they come from
  is still needed. Correct: one outcome per operation, data alive exactly as
  long as needed, no answer lost that was not shared.
* **Events, system events, sensors, locations** - a live list is walked while
  the functions it calls change it. Correct: nobody is skipped or called twice,
  and nothing goes to an instance that is gone.
* **Lifetime** - detaching one instance can free objects of others, in the
  middle of a walk over the list. Correct: slots and ids agree, opaques are
  alive, everything is detached once and before it is deleted.
* **Requests with a timer** (message channel, interconnect, getLocation) -
  answer, timer and end of the instance race. Correct: one answer, always one.
* **Calls of members, crypto** - many ways out of one function, each with other
  memory in its hands, and script that runs in between and calls the same object
  again. Correct: freed once on every path, and what a script is told is about its
  own call.
* **Works on other threads** (files, zip, prompts, values) - they interleave
  with each other and with the detach of their instance.

### The other parts

| Component | Why it is not modelled |
|---|---|
| Volume, battery, network, vibrator, power, device | wrappers around platform services: a call and an answer within it |
| Product features (activity, imc, mqtt, wechat, package) | on top of the framework, most of them stateless |
| C API of the message channel, server's own functions | no caller in the repository besides the feature |
| WAMR backend | the same shape as the QuickJS backend behind a build option |
| Worker manager | has no user; its `init()` has no caller |
| Registry, main exports, contexts | thin wrappers; their effect on instances is in the modelled actions |
| Tracker, thread checker, logs | diagnostics |
| JIDL compiler, Rust binding, tests | build time or generated; read for what callers do |

`PROJECT.json` lists them with their files, and under `hazards` what in this code
a test would hardly reach, each at its line.

## 2. The modules and the code

Every module keeps the names of the code where it can; the comment at a
definition names the function it models, and `map` in `PROJECT.json` gives the
lines. Definitions marked "Mutant" are plausible bugs; they are not part of any
next-state relation and exist to show that each property can fail.

### The framework

**`FeatureManager`.** `ref` is `ref_count_`, `slot` the pointer in the
prototype's `instances_`, `queue` is `task_queue_`, `batch` the local queue of
`runAllTasks`, `async` and `wakeup` the `uv_async_t`, `ctx` is `ft_ctx_`, and
`main` says what is on main's stack. A native thread's `FeaturePost` is five
steps, because main can run between them: the check of `detached_`
(`PostCheck`), reading the manager through the prototype and duplicating the
handle in `addTask` (`PostDup`), the push under `mutex_` (`PostPush`), the test
of `async_` after the unlock (`PostTest`), and `uv_async_send` (`PostSend`).
`AsyncCallback`, `BeginTask`, `EndTask` and `EndBatch` are `runAllTasks`; while a
task's callback is on the stack (`main = "callback"`) scripts and native code go
on. `DetachBegin` and `DetachEnd` enclose a feature's `onDetached`, in which the
feature may still post. `UnsetUVLoop`, `UninitBegin`, `UninitEnd` and
`FreeManager` are the host's teardown; unset and uninit come in either order.

`TaskMailbox` is the abstract specification: accepted tasks are numbered, called
once each in that order, and the box only closes empty. `FeatureManager` maps
`box` to the batch (without the task that is running) followed by the queue.

**`PermissionsManager`.** A request's info is identified by address, as in the
code, and addresses are reused. `Request` is `FeatureRequestPermissions` with a
host callback installed, `Ask` is `permission_request_task`, `Decide` the host's
grant or reject, `BeginGrant`/`BeginReject`, `FailReturned` and
`CallbackReturned` the task that carries the decision out, split where foreign
code runs, `DropDecision` the same task when it does nothing, `Detach` is
`onDetached`. `LateDecisions = 0` is a host that decides inside its callback, as
the one in `tests/` does; `n > 0` is a host that may decide at any later time, up
to n times on one handle.

**`FeatureInstanceQjs`.** An operation returns a promise, takes
success/fail/complete functions, or takes one plain callback. `stack` holds the
script functions that have been called and not returned, so all their nestings
are explored. `SettleAsync`, `OutcomeReturned` and `CompleteReturned` are
`resolve`/`reject` cut at the calls of script functions; the data is removed when
they return, as in `resolvePromise`. `DetachBegin` and `DetachEnd` enclose the
feature's `onDetached`, which may still settle. `Liberty` says what a called
function may do to its own operation or feature object.

**`EventManager`.** A registration is a list node with a number. `emitting` is
the stack of emissions, each standing on a node, with the history `done` of the
nodes it called. `CallbackReturned` is the increment of the iterator in
`doEmitEvent`.

**`FeatureManagerQjs`.** `slots` and `iid` are `instances_` and `instance_id_`,
`list` is `feature_node_list_`, `opaque` the instances whose script object
carries them, `cb` and `on` what the registered callbacks and event functions
capture. `Finalize` is `__feature_finalizer`, `Collect` the engine's cycle
collector seeing only what `__feature_mark` shows it. `UninitBegin`, `Visit`,
`Advance`, `ClearPrototype`, `UninitEnd` and `FreeManager` are `uninit` and the
destructor, with the two cursors of `detachFeatureInstances`. `condemned` holds
the objects whose reference count has dropped to zero: they are finalized before
anything else goes on, one at a time, as QuickJS does.

**`FeatureArrays`.** One array of strings that the script's thread uses, while
all threads duplicate and free the strings. `Load` and `CompareExchange` are the
two halves of the loops in `FeatureDupValue` and `FeatureFreeValue`. An array
function is one step: what it does to counts is the loop over its elements, in
an order nobody sees. `_element` is as long as the capacity, and slots that were
never written hold `Junk`. `ArrayInsert` is the four insert functions. The
signed and unsigned arithmetic of `FeatureArrayRemove` is kept: with a start
behind the end it grows `_size` (`Beyond`).

**`FfiCalls`.** `frames` is the C stack: the calls of members within each other,
each with its slots (`ffi_arg_buf`), its promise and what its stub returned.
`MethodCall`, `CountArguments`, `ConvertArgument`, `FillOptional`,
`ArgumentsDone`, `InvokeStub`, `StubReturns` and `ReturnMethod` are `methodCall`
in its order; accessors skip what they do not do. Script runs where the code
calls it: in getters of an argument, in the stub, in the fail function of a call
that is refused. `error_msg` is the instance's and so shared by all of them. What a
slot's conversion makes is left to `Conversions`.

**`Conversions`.** A type, a value and the memory of an argument are trees, each a
function of the places of a tree (`Places`, sequences of numbers); what a walk gets
to is `Reaches`, so that nothing is recursive. `Slots` is what the convertor makes
at each place by itself, with its cases `ScalarToNative`, `StructToNative`,
`ArrayToNative` and `MissingToNative`. Parts are converted in order until one is
refused, which leaves the memory behind it zero: `Converted` says which were,
`ToNative` is the memory and `BlocksMade` its blocks. `ToTarget` is the other
convertor, `FreedWith` is `FeatureFreeValue` by the type of the block. One call
goes from `ConvertValueToNative` over `KeepArgs` (the constructor of
`PermissionsInfo`), `CallReturns` and `ScriptDrops` to `ReleaseArgs`, so that a
call which waits outlives the values it was made with. `int` and `double` stand
for the numbers. That an array has no holes and that no function is passed as
JSON is assumed of `Arguments` (`WellFormed`); section 3 says what happens else.

### The features

**`MessageRequests`.** `board` is the real task board, `done` is `is_done_`,
`timer` the timers, `held` what the serving process can still answer and
`linked` the reply objects whose pointers lead into the channel. `OnReply` works
on a copy of the board, so that answered tasks stay; `RequestsDetach` is
`~MessageChannel`, which must cut off them, too.

**`MessageListeners`.** Sessions and topics. A session's id is that of its
service (the code truncates an address), so ids return. `wire` holds oneway
messages on their way; `SelfCloseReturns` and `PeerCloseReturns` are what the two
closing handlers do after the script's `onclose`; `Broadcast` posts a copy of the
listeners and `Deliver` calls them one by one, each of which may use every
method. `cidOf` and `SomeLive` are the instance's `CallbackManager`.

**`Interconnect`.** `sends` is `send_tasks_` with the timer of each,
`diagnosing` the one waiting promise, `MiwearConnectCallback` a report of
miwear with all it settles, `MiwearSendCallback`, `TimerSendCallback` and
`TimerDiagnosisCallback` the other ends, `Shutdown` the end of the context. A
negative timeout is a timer that never fires (`endless`).

**`Downloads`.** `shareInfo` names the unshared download that the next one
cancels. `stack` holds the `__request_cb` calls whose script functions run, each
with the download that was being started when it was called; so endings nest.

**`FileCalls`.** Each system call of a work is a step: `StatFile`, `OpenFile`
with the directory made after a failed open (`CreateParent`), `Transfer`,
`Mkdir`, `RemoveEntries`, `RemoveDir`, `UnlinkOrLook`. Files are inodes, so that
an unlinked file stays while it is open. `AfterWork` calls the script back.

**`ZipWorks`.** `ChangeDirectory` and each `Extract` are steps of a work,
`AfterExtract`, `OutcomeFunctionReturns` and `CompleteFunctionReturns` the after
callback cut at the functions it calls. `cwd` belongs to the process, `astray`
remembers works that wrote while it was another's.

**`Sensors`.** `event` are the subscriptions of the old methods, one for each
sensor and shared by all instances; `user` those of the new ones, whose topics
end with a close callback. `delivering` is a batch between two samples, `misled`
by what an instance that is gone was called. A `Subscribe` whose interval is
refused leaves a "stray" user: freed, in no map, its topic subscribed.

**`Locations`.** `getList` and `subList` are the two lists, `topic_list` the open
topics, `gnss` the batch of samples being delivered, `ticker` and `ref_count`
what keeps the context. `answering` is the instance whose call is settled and
still in front: `SampleAnswered` and `TimerAnswered` go on when its functions
return, the timer (`TimerHandler`) with the next call that is late.

**`Prompts`.** Two threads. `ShowDialog`, `HandleDialogEvent`,
`CompleteReturns` and `PromptsDetach` are on the application's; `InitServerTask`,
`ShowDialogTask`, `DrawDialog`, `Press`, `ViewDeleted`, `FindManager` and
`PostDialogEvent` on that of the user interface. `tasks` and `posted` are the two
queues between them; `FindManager` and `PostDialogEvent` are the test of the weak
pointer and the post after it.

**`SystemEvents`.** The list of an `EventContext` is derived from `subs`, whose
ids grow. `sample` is the sample being delivered with the saved next entry.
`counts` is changed as the code changes it: not by `RemoveSubscribe`.

**`SystemSettings`.** `request` is the object at each address, `msg_queue` the
addresses messages are for, `batch` what `ProcessMessageAsyncCallback` moved out
of the queue. `Allocated` lets an address return while messages still name it.
`calling` is whose functions run; `AnswerReturns` deletes the request that was
settled. A request that is deleted twice, there or in `AsyncClose`, ends the
model: `settings` is "astray".
The device is the repository's mock, which calls back at once; a set of a
property that does not exist tells no subscriber, which `GetProp` covers.

**`CryptoCalls`.** One call on the stack. `held` are the blocks it has, `result`
what its result pointer names, `crypto_err` the message the native functions
share. Digests and signatures are one step; `ParseTopOptions`, `ChooseMode`,
`ParseInternalOptions`, `RunRsa`, `RunAes`, `Encode` and `FreeLabel` are
`system_crypto_operation_handle`; `Hkdf`, `CipherRsa` and `CipherAes` run to their
exit label. `TellScript` calls the functions, which may call crypto again; what
is freed after them is `FreedAtEnd`. The library (uv_ext) may fail anywhere.

**`EcdhKeys`.** One ECDH object. A key is the pair it belongs to, memory nobody
wrote to, or none; `agreed` is the pair the script heard success for.

**`Stores`.** A value is the call that set it, so that a get shows whose value it
found. `StoreWork` hands a call to uv_db or uv_property, `WorkIsDone` is the work,
in any order, `StorageCb` and `ExchangeCb` the callbacks with the functions they
call. `StorageClear` and `StorageGetSync` work at once.

**`Fetches`.** `WrapFetch` and `WrapFetchRefused` are the call with its arguments,
which `Acceptable` and `Carried` judge by their kinds; `linklist` is that of the
prototype; `FetchRequestCb` the callback of uv_ext, `Frees` is `fetch_free`.

**`Previews`.** Two threads with a queue each: `WrapPreviewImage`, `AppPosted` and
`PreviewsDetached` on the application's, `UIPosted`, `WidgetShows` and
`PreviewImageCompleteCB` on that of the user interface. `misled` remembers that
an id led to nothing, or to another's picture.

**`HealthSamples`.** A HealthTopic is in the context of the prototype or made by
one call and known to nobody else. `walk` is where `health_topic_cb` stands:
`HealthTopicCb`, `FunctionReturns` and `NextSample` are its walk over `subList`,
`SampleTaken` settles the call in front and `FrontPopped` takes it off when its
functions return. What the script calls in between are the actions of the
methods. A walk from a node that is freed and a `pop_front` of an empty list end
the model ("astray"). `HealthTopicCloseCb` is one of the closes that were asked
for, `HealthDetached` takes an instance off the lists it can find.

**`BrightnessRequests`.** The build without `CONFIG_SYSTEM_BRIGHTNESS_SERVICE`.
`asked` is a node with its arguments and how often each was freed, `inList` the
list of the instance, `uv` the handle of uv_brightness; `Setup` is any request,
taken or refused, `BrightnessCb` its end, `Detached` the walk of onDetached.
`CbThatLeaves` is a callback whose function drops the instance, `LateCb` one
after a recovery that failed.

**`Packages`.** `observers` are the listeners the package service holds,
`reports` the results in the queue, `claims` the count of handles as the code
changes it. `OnInstallResult` and `OnUninstallResult` come on binder threads,
`ListenerFreed` whenever the service lets go, `HandlePmResult` on the loop;
`PackagesClosed` empties the queue in mode FREE.

**`InputWorks`.** `ir` is the request of a gesture; `WorkBegins` and
`WorkPerforms` are on the pool, `AfterInput` is its callback on the loop.
`strayed` are the gestures whose generator was destroyed before they were
performed.

### The modules for TLC

`ServiceCalls` composes the calls of members with the seven features whose calls
are carried out by a service, a thread or a page; `MCTasksAndCalls` holds it, the
task queue and the conversions; `MCScriptEngine` the three
components that an instance keeps for the script, `MCFeaturesLive` and `MCFeaturesSafe` the
features with and without liveness. Their components share nothing but the loop,
so a behaviour loads one of them, chosen in its initial state, and the others
stay at their beginning; a run of such a module is one run for each component.
Where two components make one promise to the script, the module conjoins their
invariants under a name of its own (`CallsExact`, `AnswersKept`,
`RequestsAccountedFor`, `ResultsHeard`, `ObjectsInStep`, `AnswersOnce`,
`AnswersCome`, `EventsInOrder`, `CryptoExact`); the named conjuncts are in the
modules of the components.
`MCFeatureManager`, `MCFeatureInstanceQjs`, `MCFeatureManagerQjs` and
`MCEventManager` serve runs that expect a violation; `messages_crossing`,
`arrays_insert` and `zip_chdir` check the modules of their components directly.

## 3. What the runs show

Four runs pass.

| Run | Bounds | What it shows |
|---|---|---|
| `manager` | 2 instances, 2 threads, 3 posts, quiescing host; calls 2 deep with 2 and 1 parameters, up to 3 arguments; every type of two levels, with two parts each, and every value that fits it or not; and 7 features, see below | `RefCountExact`, `InOrderOnce`, `NothingLeaks`; the refinement `ImplementsMailbox`; every accepted task is called (`AcceptedTasksRun`). A call is told how it went, nothing of another, and every block is freed once (`CallsExact`); an argument is what was meant, owned while it is used and freed once (`ArgumentsOwned`). What a store or the package service answered is what is told, and their handles come back (`AnswersKept`); ids of previews are never mixed up (`PreviewsInStep`); samples go to those who are there, whatever functions do in the middle of their callback (`HealthInStep`); nodes and arguments of brightness are freed as often as the way of their request says, once but for three ways, and gestures are performed and freed once, also under onDestroy (`RequestsAccountedFor`) |
| `script_engine` | 3 operations, 2 functions, 3 functions deep; 3 instances of 2 features with interfaces, 2 functions that capture each other's objects; 3 requests, 2 instances, 2 addresses, 2 late decisions for each handle, callbacks that detach | one outcome for each operation, its data there from start to settlement, and an answer that was not given a shared function is heard (`ResultsHeard`); an opaque leads to a live instance that is found in its slot, and nothing ends that was not detached (`ObjectsInStep`). Permissions: `SetExact`, `SettledOnce`, `ArgsReleasedOnce` |
| `features_live` | permissions with a host that decides inside its callback (2 requests, 2 addresses); 3 requests of the message channel; 2 messages, 2 diagnoses, 2 reports of miwear; 2 calls of getLocation, 2 instances, 2 topics, batches of 2; 2 dialogs in a queue of 2; 2 fetches of 2 pages | types, and no task reads a deleted info (`TypedAndAlive`); `AnsweredOnce`, `RequestsCutOff`, `OneWayToSettle`, `TopicForActive`, `AnswersOnce` for dialogs and fetches; and what waits comes to its end: `WaitingSettled`, `RequestsSettled`, `ConnectingWaitEnds`, `GetsAndTopicsEnd`, `AnswersCome` |
| `features_safe` | see below | types (`FeaturesTypeOK`), `EventsInOrder` with what the change listener is told, `SnapshotCurrent`, `ListenersCutOff`, `SharedInfoAlive`, `AppendsKept`, `SamplesToLive`, `PublishReaches`, `CalledInTurn`, `CountsExact`, `AnswerOnItsWay`, `ListedUntilFreed`; what crypto tells is true, and its blocks are freed once (`CryptoExact`) |

Bounds of the features in `manager`: 2 calls of the stores on one key each; 3
pictures for 2 ids; 2 calls for samples, 2 pages, 2 types, 3 topics; 3 requests
of brightness; 2 calls of the package manager on one package, installed or not;
3 gestures on 2 threads.

Bounds of `features_safe`: 2 events, 3 functions, 4 registrations, emissions 3
deep; one service and one topic with 2 functions, 3 callback ids and one
broadcast on its way; 4 downloads of 2 instances; 3 file calls of 7 kinds on 2
threads; 2 sensors, 2 users, 2 instances; 2 instances, 2 names and 4
subscriptions of system events; 2 strings, 2 threads, an array of 2; 2
instances, one property, 2 promises, 3 addresses, 4 messages; 3 archives of one
entry, 2 instances, 2 threads; every call of crypto with every subset of its
options and functions, after any other call; one ECDH object, 2 pairs.

Eight runs each find one statement violated; `findings` in `PROJECT.json` quotes
the statement.

| Run | What TLC finds |
|---|---|
| `manager_race` | "Any thread can call `FeaturePost`": a thread that has passed the check, or tested `async_`, and is overtaken by the teardown uses what was deleted. The host has to stop the posting first; nothing in the framework does it. `Quiesce = TRUE` is that host. |
| `instance_reentrant` | a success function that drops the last reference on its feature object frees the `PromiseData` whose `resolve()` is running (`promise_manager.cpp:143`) |
| `event_selfoff` | a callback that takes itself off its event frees the list node the loop of `doEmitEvent` stands on (`feature_event_manager.h:223`) |
| `lifecycle_capture` | detaching one instance can free the next one in the list, to which `detachFeatureInstances` then steps (`feature_manager.cpp:178`) |
| `lifecycle_leak` | an event function that uses its own feature object makes a cycle the collector cannot see (`qjs/feature_instance_qjs.cpp:144`) |
| `messages_crossing` | a session message that is on its way while the server closes the session leaves the server with a reply object that survives the channel it points at (`modules/message_transport.cpp:70`) |
| `arrays_insert` | `FeatureArrayInsertAfter` counts the addresses of references and not the references (`src/feature_exports.cpp:304`) |
| `zip_chdir` | two archives extracted at the same time: one goes into the directory of the other and is reported as a success (`modules/zip_impl.cpp:408`) |

The passing runs leave these behaviours out, each by a named constant; with it
changed the property named here fails, or the memory the code goes on with is
freed:

| Constant | What it leaves out |
|---|---|
| `Quiesce = TRUE` | threads that post during the teardown (`manager_race`) |
| `Liberty = {}` | functions that free the operation they belong to (`instance_reentrant`) |
| `Latitude = {}` | functions passed together with too few arguments, for which no count is compared and the stub runs with empty slots, although a comment says that argc equals fixed_argc (`CallsExact`); a last argument with only a complete function, which is refused in silence; script that runs after `FeatureThrowError`, whose call clears the error; errors thrown in accessors, which the next method call tells |
| `Mishap = {}` | a failing derivation in hkdf and a failing encoding in `cipher.rsa` or `cipher.aes`, which are told as successes (`CryptoAnswersTrue`); an empty iv in `cipher.aes`, for which the key is freed twice (`CryptoBlocksOnce`) |
| `SelfRemoval = FALSE` | callbacks that take themselves off (`event_selfoff`) |
| `Cross = TRUE` | nothing; a walk that would step to a deleted node ends there (`LifecycleEnd`), `lifecycle_capture` shows it |
| `DetachInCallback = FALSE` (live only) | a callback that detaches: the member function on the stack works on a deleted info |
| `Crossing = FALSE` | session messages that cross the close of their session (`messages_crossing`) |
| `Abandon = FALSE` | an unshared download that is refused for its address or outlives its instance: `shareInfo` dangles (`SharedInfoAlive`) |
| `Quit = FALSE` | subscribers of the location that end their own subscription while they are called, and functions of getLocation that drop their own instance: its calls leave `getList`, and `pop_front` then takes off another or none |
| `LeaveEarly = FALSE` | onDetached between the test of the weak pointer and the post, or from a complete function |
| `Careless = FALSE` | functions that end the saved next subscription or detach their own instance, and unsubscribing another instance through equal callback ids |
| `Managed = FALSE`, `Beyond = FALSE` | `FeatureArrayInsertAfter` on references (`arrays_insert`), and removing from behind the end |
| `OptionalsWait = FALSE` | an optional argument that holds an "any" in a call that waits: `dupFtValue` passes it over, and the call runs with a value that may be gone (`ArgumentsOwned`) |
| `ClearFails = FALSE` | a clear that cannot close or open the store: it goes on with a freed handle (`AnswersKept`) |
| `LeaveWithin = FALSE` | functions of a preview that drop their instance: `erase` then works on a deleted map (`PreviewsInStep`) |
| `Dirty = FALSE`, `Abrupt = FALSE` | `malloc` leaving `unzip_success_flag` set, and functions that drop the instance that calls them (`ListedUntilFreed`) |

Five modules leave nothing of the kind out and say instead what the code does.
In `HealthSamples` a function of `subscribeSample` that ends its own subscription
frees the node the walk goes on from (`health_impl.cpp:156`, `:421`), one of
`getRecentSamples` that drops its instance may empty the list before `pop_front`
(`:190`), and in `SystemSettings` a request is deleted twice
(`system_settings_impl.cpp:496`, `:438`): what comes after is undefined, so the
component stops there; `HealthInStep` and `AnswerOnItsWay` hold up to that step
and in all that never take it. A HealthTopic that only its call knows answers an
instance that is gone, which `HealthInStep` allows it and no other. `Sensors`
lets all be called that is called, and `SamplesToLive` says what never is: events
and users the context knows of; one-shot users, a freed one, the rest of a batch
and an unset `complete` do reach instances that are gone. `BrightnessFrees` gives
the number of frees for each way of a request, two for a refused
`setKeepScreenOn`, an answer after a failed recovery, and a function that drops
its instance. That onDestroy destroys the generator under a thread is in
`InputWorks` (`strayed`); what the thread does with it then is not.

**Why the bounds are enough.** Two instances make an operation on one visible at
the other, and a third (in the lifecycle) gives the detach loop a predecessor, a
current and a next node. Two threads can stand at any two points of
`FeaturePost`, with main as the third party, and three posts let one task be in
the queue, one in the batch and one being posted. Three requests over two
addresses force a reuse while another info is alive. Three nested functions let
one operation be settled from within the settlement of another, itself within a
third; four downloads let one ending start another within a third, with one more
running. Four registrations allow removal before and after the cursor and a
function registered again. Three file calls on two threads leave one queued that
starts between two steps of another. Two threads on one string are enough for a
lost update. One entry in an archive is enough as no property counts more.
Two parameters let one be converted when the next fails, and a call with one
more runs within it at any of its steps. Three pictures for two ids make one id
return; two types of samples give a call one topic that answers it and one that
is late. A type of two levels has a part that is refused after one that was made.
`getLocation` refuses a call while more than 100 wait, which leaves no trace; two
calls are never refused. Bounds on counters are constants in the guards (`MaxPosts`,
`LateDecisions`, `MaxDepth`, `MaxNodes`, `MaxFns`, `MaxReplies`, `MaxCid`,
`MaxListeners`, `MaxPosted`, `MaxReports`, `MaxBatch`, `MaxSubs`, `MaxSize`,
`MaxHeld`, `MaxQueued`, `Entries`, `MaxParams`, `MaxNested`, `MaxTypes`, `MaxTopics`, `Ids`).

**Symmetry.** Runs with liveness use none. As components never run together their
sets may share model values and with them the symmetry: in `features_safe` Fn,
Page, Client, Subscriber, Block, Asker and Owner are the two events, and two of
the three file calls are; in `script_engine` Op, Inst and Req are one set, and
Fn, Feat and Addr another. No invariant names a member of these sets.

**Fairness.** In `FeatureManager`: the loop runs the async callback it owes,
callbacks return, a thread inside `FeaturePost` gets on, and a host that has begun
the teardown, three calls in a row (`tests/jidl/test_main.cpp`), completes it. No
thread is forced to post or to release, no script to require or to drop, no
host to start the teardown. In `features_live`: a timer that runs expires
or a transfer that is under way ends (`TimeIsUp`), the loop does what it has to do and the user interface's loop, too
(`LoopSteps`, `UISteps`), all weakly fair. Strongly fair are the two steps that
others may disable again and again: the end of a batch of samples, because a
loop's callback returns whatever its functions subscribe, and the timer of
getLocation, because the loop calls it in each iteration however many samples
come. Nothing is assumed of the serving process, miwear, the positions or the
user. In `FeatureManagerQjs`: the engine finishes frees and collects again, and
`uninit` runs to its end; this is the most favourable scheduling, and the leak is
found under it. `features_live` does not check for deadlock: when everything is
destroyed the system stops. In `manager` the end of a feature with its instances
is named (`ServiceEnds`) and anything else that stops is a deadlock.

**Modelling choices that restrict the models.** The host sets the loop before
scripts run and tears down once. Features create interfaces in methods, not in
`onDetached`. Native code releases a handle outside the detach loop. In the
threaded model the list of instances is a set; it is exact in the
single-threaded one. The engine frees an object on main as soon as its count is
zero (QuickJS; external code, modelled from how `qjs/` uses it). A data race on a
container has no outcome to enumerate and is left out. In `Interconnect` who
hears `onopen`, `onclose`, `onerror` and `onmessage` is left out; in `Downloads`
the progress function, `onDownloadComplete` and the cache of results.

**Observations without a run**, met while modelling:

* *Results.* A function passed to two pending plain-callback operations has one
  callback id, so that the first answer removes it and the second is not heard
  (`callback_manager.h:56`, `permissions_manager.cpp:195`); `UnsharedAnswerHeard`
  states the exact condition. The rest arguments of a call that waits for a
  permission are duplicated and only their array is freed
  (`permissions_manager.cpp:108`).
* *Lifetime.* A handle the native code still owns survives `uninit`, although the
  comment at `qjs/feature_manager_qjs.cpp:698` says all instances are freed there.
  An interface the script never received is detached through its module's
  `onDetached`.
* *Calls.* `accessorSet` returns without freeing what a failed conversion made, and
  `accessorGet` without freeing what it cannot convert
  (`src/feature_ffi_templates.h:314`, `:284`); `CallMemoryFreed` states both.
* *Conversions.* An undefined element of an array aborts the program; a missing
  buffer of a struct is refused, though null is taken; a function that is passed
  as JSON cannot be read back. A struct that cannot be converted for the script
  leaks what it has made, an optional one frees it twice. `isBlackListed` zeroes
  the slot of its caller, whose reference is lost.
* *Crypto.* The calls of encrypt, decrypt and hkdf do not remove the ids of their
  functions. `key`, `buff`, the encoded output and an iv without its length stay
  allocated; `CryptoBlocksOnce` lists them. `generateKeys` without memory calls
  nothing. `setPrivateKey` with a key that is refused by the library has lost the
  pair before.
* *Arrays.* A negative start is not checked. `FeatureArrayRemove` with a start
  behind the end grows the array to that start.
* *Message channel.* `sendMessage` that fails is rejected at once and again by its
  timer. A broadcast ends at the first listener that was unset since, and those
  after it miss it.
* *Interconnect.* A comment says `isReconnected` is false for the first
  connection (`interconnect_impl.cpp:706`), `InvokeConnect` is called with true.
  A pending `onopen` is kept after the phone is lost. The result of
  `uv_miwear_send` is not looked at. Messages that waited are sent in the order
  of their addresses.
* *Downloads.* The cache of results evicts the smallest token, not the oldest
  (`request_impl.cpp:100`).
* *Locations.* A call with a short timeout waits behind one with a long one. A
  function that is none is reported to fail and then subscribed.
* *Prompts.* `prompt_server.cpp:120` speaks of the oldest toast; the oldest dialog
  is dropped there, and its functions are never called.
* *System events.* `removeSubscribe` does not count down `__event_subs_info`, so
  that `publish` is not refused for a name nobody is subscribed to any more.
* *Settings.* With an address that returns, a late message settles the request
  that has it now. `unsubscribe` ends the device's subscription for all instances
  (the mock says so at :187). A refused `getProp` leaves its promise open.
  `~MiwearSettings` deletes requests that its queue still names twice, and
  `ProcessMessageAsyncCallback` one whose functions end their instance; no
  property of a run sees either.
* *Zip.* `unzip_success_flag` is set after an entry that failed, too.
* *Stores.* The code of a failure is positive, so that `complete` hears success.
  An exchange in the scope "application" is always refused. onDestroy closes the
  store while works are under way.
* *Fetch.* A call that is refused leaks its content, and later its handle. A
  request that is cancelled leaves its promise open. An HTTP error resolves.
  Without a body the Content-Type of the header is overwritten with text/plain.
  Of the content types only `application/json` is a real one, so that an object
  sent as `text/plain` is sent as pairs. The content type that is worked out for
  a body is stored and never sent.
* *Media.* The search for an id does not end when all are in use.
* *Health.* A type that is given twice opens a second topic. Without a topic the
  context is never deleted.
* *Brightness.* The code handed to `do_callback` is never below 0, so that fail is
  never called. The build with the service never removes callbacks of
  onbrightnesschanged.
* *Package manager.* `install` refuses a suffix other than rpk and apk but takes a
  name without any. A promise whose listener the service drops stays open. No
  memory rejects with 200 and reports 5101.
* *Test input.* A request is made by `malloc`, so that the initializer of `result`
  never runs; every work sets it. A button with an unknown name is pressed as 0.

## 4. What is proved

Seven modules prove theorems about components, an eighth, `SequenceLemmas`, what
they share about sequences and least elements. A theorem holds for every value
of the constants that the named assumptions of its module allow (finite sets
where counts need them) and, where the column says so, for code that stays
within one of the cases of section 3. All safety properties of the passing runs
are theorems.

| Module | Component | Theorems | The inductive invariant, and why it is needed |
|---|---|---|---|
| `FeatureManager_proofs` | task queue | `RefCountIsExact`, `TasksRunInOrderOnce`, `TypeCorrect`, `Invariance`, `TeardownInOrder`; for `Quiesce` `NothingIsLeaked`, `TeardownIsQuiet` and the refinement `ManagerImplementsMailbox` | `IInv` with `TeardownInv` and `QuietInv`, below |
| | arguments of calls | `ArgumentsAreOwned`, for `~OptionalsWait` | `ArgumentsInv`: who holds the argument by the stage of its call and by whether it waits, in `refs`, `gone` and `dups`. What a conversion does at a place is said by the places above it, so that no induction over types is needed: a part is converted only if what is above it is (`ConvertedAbove`), and the walk that frees by types gets to what was made and to nothing else (`FreedAreMade`) |
| `Answers_proofs` | permissions | `PermissionsSetIsExact`, `PermissionsSettleOnce`, `PermissionsReleaseOnce`, `PermissionsTypesHold`; `PermissionsStayAlive` for `LateDecisions = 0` and `~DetachInCallback` | `PMInv`: a call is settled when its decision begins and its info deleted, by address, when the last callback returns. `Decided`: an info alive is that of a call nobody settled yet, or of the one on the stack; `FrameOf`: the one on the stack keeps its address, or has none for ever. `AliveInv` adds that the info of each queued task is alive and no handle is left after the host's callback |
| | requests of messages | `RequestsAnsweredOnce`, `RequestsAreCutOff`, `RequestsTypesHold` | `RequestsInv`: what each request looks like by the board and its done flag. A second answer is impossible because a waiting request has an armed timer and one that is done has none, although both stay on the board |
| | interconnect | `InterconnectSettlesOnce`, `InterconnectTypesHold` | `ICInv`: a send has its promise while it has one of its ways to end (`SendsOpen`), and the diagnosis which waits was not settled yet |
| | positions | `LocationsHaveTopic`, `LocationsContextCounted`, `LocationsTypesHold` | `LocationsInv` with `SubsInv`: nobody is in the list of subscribers twice, so that removing one removes the instance; `LocationsCountInv`: the references are the timer and the topics, open or closing |
| | dialogs | `PromptsOutcomeThenComplete`, `PromptsTypesHold` | `DialogsInv`: a dialog is in one place of the two threads (`OnePlace`), and an event that is posted stands behind those that are called before it (`EventInOrder`) |
| | fetches | `FetchesSettleOnce`, `FetchesTypesHold` | `FetchesInv`: a fetch is in the list of the prototype exactly while it runs, with all its memory, and nothing was told of it before |
| | all of these | `FeaturesAnswerOnce`, `FeaturesTypedAndAlive` | none beyond theirs |
| `ScriptEngine_proofs` | results of calls | `ResultsTypesHold`, `EngineResultsHeard`, for `"resettle" \notin Liberty` | `ResultsInv`: an id has one operation, a running function was counted when it was called and is on the stack once (`StackInv`), `SettleInv` by how far an operation is settled, `HeardInv` which function is still registered |
| | objects of instances | `LifecycleTypesHold`, `EngineObjectsInStep` | `LifecycleInv`: slots and ids agree (`SlotsInv`), an instance carries its opaque until it is detached (`HoldsInv`), and the walk has every instance that is not detached yet before it, although the one it saved may be deleted (`CursorInv`) |
| `Subscriptions_proofs` | sensors | `SensorsReachLiveOnly`, `SensorsTypesHold` | `SensorsInv`: an open user is a one-shot one or in the maps that every onDetached empties, and what is closed behind a function is a one-shot one (`OpenUsers`) |
| | system events | `SystemEventsReach`, `SystemEventsCalledInTurn`, `SystemEventsTypesHold` | `CountsInv`: each count is at least the number of subscriptions of its name; `TurnInv` and `HeardInv`: which entries the walk has called and which is the saved next one |
| | settings | `SettingsAnswerOnItsWay`, `SettingsTypesHold` | `AnswersInv`: a message only names an address, which may be taken again; requests are those of instances that are there (`RequestsOfLive`), each is that of a promise that waits with a message on its way, or of the one whose functions run (`OneRequestEach`), and a waiting promise has one (`WaitingHaveOne`) |
| | listeners of messages | `ListenersSnapshotCurrent`, `ListenersTypesHold`; `ListenersAreCutOff` for `~Crossing` | `ListenersInv`: an id in a copy that is still in the callback manager is heard on the topic (`CopiesHeard`); `CutInv`: a session has one reply object (`OneReply`), which one that is being closed still has (`OneClosed`) |
| | events of an instance | `EventsEmittedInOrder`, `EventsListenerInformed`, `EventsTypesHold` | `EventsInv`: node numbers grow along each list (`ListInOrder`), and a node made later lies behind everything an emission has passed (`KnownNodes`) |
| `Transfers_proofs` | downloads | `DownloadsSharedAlive`, for `~Abandon`; `DownloadsTypesHold` | `DLInv`: a download that waits on the stack for the one it cancels is apart from all that end, at any depth (`StackInv`) |
| | archives | `ZipRequestsListed`, for `~Abrupt`; `ZipTypesHold` | `ZipInv`: the property, and that functions run and calls are made for instances that are there |
| | values and arrays | `ArraysCountsExact`, `ArraysTypesHold`, for `~Managed` and `~Beyond` | `ArraysInv`: the slots below `_size` hold strings (`ElementsWritten`), and a thread in a loop of compare-and-exchange has a use of its string (`LoopsHold`) |
| `Features_proofs` | files | `FilesKeepAppends`, `FilesTypesHold` | `FilesInv`: a call that appends is not in the text yet (`AppendedOnce`), and an inode with a text was opened by a call, so that one is fresh for a call that makes the file (`OpenedFirst`) |
| | crypto | `CryptoTellsTheTruth`, `CryptoFreesOnce`, for `Mishap = {}` | `PathInv`: at each step which blocks are held and whether the work was done |
| | ECDH objects | `EcdhPairIsKept` | `EcdhInv`: the property, and that an object without data has agreed on nothing |
| | all that `MCFeaturesSafe` loads | `FeaturesTyped`, `FeaturesEventsInOrder`, `FeaturesCryptoExact` | none beyond theirs |
| `ServiceCalls_proofs` | calls of members | `CallsAreExact`, `ServicesCallsExact`, for `Latitude = {}` | `FfiInv`: what each call on the stack looks like by its step; `ThrewInv`: whose message `error_msg_` is |
| | stores | `StoresKeepValues`, for `~ClearFails` | `StoresInv`: what is stored under the key of the only call that wrote it (`SetInv`), and what a get that began after its success has found (`GetInv`) |
| | packages | `PackagesAreHeard` | `PackagesInv`: references are those of listeners and reports, and a result is with the service, in the queue or told |
| | brightness, gestures | `BrightnessFreesAsTold`, `InputsArePerformed`, both with `ServicesRequestsAccountedFor` | `BrightnessInv`, `InputInv`: what a request owns by its step, with the list of an open handle exactly the nodes that are not freed, and a gesture that strays is one whose instance has ended, so that nobody is told of it |
| | pictures | `PreviewsStayInStep`, for `~LeaveWithin`, and `ServicesPreviewsInStep` | `PreviewsInv`: an id returns while the erasure of its last widget may be on its way. `WidgetInv` and `PictureInv` say where an id is by the tasks that name it, and in which order two of them stand |
| | samples | `HealthStaysInStep`, `ServicesHealthInStep` | `HealthInv`: the open topics are a set of pairs that `topicRefs` counts (`TopicsInv`); a call waits no more often than its `num` says, in one list or in several (`WaitsInv`), so the sample that makes `num` zero is its last, and while its functions run it stands first in its list and nowhere else (`WalkInv`); whoever waits at the shared HealthTopic is there (`TopicInv`) |
| | stores and packages | `ServicesAnswersKept` | none beyond theirs |

In `FeatureManager`, `RefCountExact` is not inductive alone: that a finished task
returns its reference says something about the count only if the task in the
batch is known to be the oldest one not yet released. `HistoryInv` says so: batch
and queue, one after the other, are the accepted tasks that have not been
released, in order, and `ran` counts the others plus the one running. `FrameInv`
gives the batch an element while a callback runs and makes it empty outside
`runAllTasks`, and a handle to every thread inside `FeaturePost`. `UnbornInv`
says nobody owns an instance before `Require`, which sets its count to 1.
`IntType` types the counts as integers only: that they are not negative follows
from the accounting, not from any single decrement. `TeardownInv` is the order of
the teardown at each of its points; under a host that stops the posting first,
`QuietInv` adds that nobody is inside `FeaturePost` from the end of `uninit` on
and that the queue is empty behind the last run. From these two follow both that
no reference is left at the end (`NothingIsLeaked`) and the refinement: the
mapped box is closed only when it is empty, and each step adds one task to it,
takes the oldest, or leaves it as it is.

The proof that an invariant is kept has one lemma for each action or pair of
actions, or in `FeatureManager` for each conjunct with one case per action, over
lemmas that say what an action changes. Where a module loads several components
(`MCFeaturesLive`, `MCScriptEngine`, `MCFeaturesSafe`, `ServiceCalls`), one lemma
shows that each of its steps is a step or a stutter of every component, and the
theorems of the components carry over.

Each assumption in the table is a constant of section 3: without it the code
does what the run or the column there says, so the theorem would be false.
`"resettle" \notin Liberty` asks the native code to settle an operation once.

Only model-checked is liveness: `AcceptedTasksRun`, `WaitingSettled`,
`RequestsSettled`, `ConnectingWaitEnds`, `GetsAndTopicsEnd` and `AnswersCome`
need fairness and ENABLED.

## 5. Plan

1. **Features**: who hears interconnect's events, with their pending values; the
   widths of numbers in `Conversions`, and event access.
2. Interfaces that native code creates in `onDetached`: from that of the last
   instance in the list one is added that the walk no longer visits.
3. `feature_node_list_` with its two pointer writes in the threaded model, and the
   WAMR variant of the lifecycle.
