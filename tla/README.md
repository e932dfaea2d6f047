# The Sky engine in TLA+

Sky is a mobile application engine: a shell in C++ and Java that owns a window and three threads, a
compositor for its older mojo viewer, an embedded Dart virtual machine, and a framework in Dart that
builds widgets, lays them out and paints them. What makes the code hard is not what it computes but
when: frames are asked for on one thread, produced on a second and drawn on a third, while the
platform takes surfaces away, pauses the activity and starts other programs; callbacks register and
cancel callbacks; files of a program arrive in any order, or not at all. The modules here model those
parts, TLC checks them on small instances, and TLAPS proves the invariants that matter most for all
values of the constants.

Paths below are relative to `src/`.

## Inventory

| part | state it keeps | operations | talks to |
| --- | --- | --- | --- |
| animator, `sky/shell/ui/animator.cc` | request, frame in progress, paused | request, start, stop, begin, completion | engine (call), GPU thread (task and reply) |
| engine, `sky/shell/ui/engine.cc` | surface and activity flags, metrics, the view and its program | surface news, activity, metrics, run, frame | platform view (tasks), embedder (messages), animator, Dart |
| rasterizer, `sky/shell/gpu/rasterizer.cc` | GL surface, context, Skia surface | surface news, draw | engine and animator (tasks) |
| platform view, `sky/shell/platform_view.cc`, `android/` | the native window, the activity's life | surface created, destroyed, detach | posts to the UI thread; drops engine and rasterizer |
| layer host, `services/sky/compositor` | frame state, surface, ids, textures lent and cached | request, begin, upload, acknowledge, resize, return of resources | document view (calls), surfaces service (messages) |
| frame callbacks, `sky/sdk/lib/base/scheduler.dart` | maps of callbacks, the flag that a frame was asked for | request, cancel, begin frame | view (schedule), tickers, binding |
| tickers, `sky/sdk/lib/animation/animated_simulation.dart` | completer, callback id | start, stop, tick | frame callbacks; listeners that start and stop others |
| library loader, `sky/engine/tonic/dart_library_loader.cc` | jobs, names being fetched, watchers | import, source, completion, failure | provider (streams), virtual machine (requests while it reads), controller (main) |
| render tree, `sky/sdk/lib/rendering/object.dart`, `base/node.dart` | tree, relayout roots, dirty lists | mark, adopt, drop, flush | frame callbacks, widgets |
| widget tree, `sky/sdk/lib/widgets/widget.dart` | widgets, dirty components, mounting changes | build, sync, remove | render tree, microtasks |
| navigator, focus, keyboard, `widgets/navigator.dart`, `focus.dart`, `mojo/keyboard.dart` | history, focused keys, the attached handle | push, pop, focus, show, release | widget tree, keyboard service |
| bundles, `services/asset_bundle`, `dart_snapshot_loader.cc` | temporary files, pipes | unpack, stream | worker threads, engine |
| timers, `sky/engine/tonic/dart_timer_heap.cc` | heap of tasks | add, remove, run | message loop |
| mobile services, `sky/services`, `services/keyboard`, `services/sensors` | a request or a listener each | start, data, finish, fail, close | platform APIs, mojo pipes |

How they interact in one frame: the framework calls `ensureVisualUpdate`; the engine passes it to the
animator; the animator posts `BeginFrame` to its own loop, runs the Dart program in it, hands the picture
to the GPU thread and gets a reply when it has been drawn. The reply begins the next frame if one was
asked for meanwhile. In the viewer the layer host has the place of the animator, and the surfaces service
that of the GPU thread. Both promise the same to their clients, which `FrameScheduler` states.

What is hard, and what correctness means:

* *Frames.* One frame at a time, none that nobody asked for, and every request served, whatever pauses,
  surface changes, cancellations and resizes come in between.
* *Surfaces.* News of windows cross two message loops; they may be late but not lost or reordered, and GL
  objects must not outlive what they belong to.
* *Textures.* A texture is owned by the cache or lent to the service, never both, and fits the surface.
* *Callbacks.* What is registered has a frame to come, what is cancelled is not called, also when a
  callback throws half way through a frame.
* *Loading.* `main` is called once, when every file has come or failed.
* *Trees.* What is dirty is laid out, built and painted, in an order in which nothing is done
  twice or on stale constraints; the list of children is what the widgets say.
* *Programs.* A program that is started is not replaced by one asked for before it, and gets the files of
  its own bundle; timers run until they are cancelled, and not after.
* *Pages.* What one can go back to is a stack, whatever else slides in and out; a page is left out of the
  build only if another covers it, and a popped one goes.

`PROJECT.json` lists the hazards line by line, each with the properties that would catch it, or with
the reason why none does.

## Modules

### Frames of the shell

`MessageLoops` has the loops of the UI and GPU threads as sequences of tasks. `Animator`, `Engine` and
`Rasterizer` have one operator per method; a handler gets the loop without the task that runs it and
says what it appends. `ShellView` composes them: an action per task, message or call from the platform.
The three threads share only the loops, so one handler is one step. The exception is the native window,
which the platform thread releases while the GPU thread may still be told to use it; `RunCreateSurface`
therefore has both outcomes when the window is gone. Dart code runs inside `BeginFrame`, where it may ask
for another frame (`again`), or between tasks (`RunDart`). Tasks are bound to weak pointers, so after
`DropEngine` and `DropRasterizer` they are skipped. A `CHECK` that fails sets `abort`, after which nothing
happens; those that only a failing driver trips (a context that cannot be made or made current) are left
out. A new program (`RunProgram`) replaces the old one in one step; how its files come is the
loader's matter, and how a bundle is unpacked that of `RootBundle`.

`frame` is a history variable, the parity of the number of frames begun. The liveness properties use
it to tell one frame from the next.

### Frames of the viewer

`LayerHost` has the layer host, the surface holder, the resource manager and the texture cache, with
the document view that drives them. The surfaces service executes the calls of its pipe in order, so its
state changes when a call is sent, and its answers come later: acknowledgements, the id namespace,
resources in any grouping. Ids wrap around after `IdSpace` values, as the code's integers do
after many more; that they are not reused too early rests on the assumption that the service returns resources
before it takes too many frames (`MaxHeld`).

`FrameScheduler` is the abstract specification: a request that is pending or not, and at most one frame on
its way. `LayerHost` and `ShellView` instantiate it with their own state.

### Frames of a Dart program

`Scheduler` has the callbacks of `scheduler.dart` and what the binding does at the end of a frame; maps
are functions from ids. `Ticker` adds the tickers and the program. An id is taken from a finite
set and is free again when nobody refers to it: the code's counter never repeats, and since an id that
nobody refers to cannot be told from a new one, nothing is lost. What ticks do besides ticking
is the variable `liberties`, fixed in the initial state: they may throw, restart their own ticker, or
stop another ticker whose tick is due. Properties that hold only for programs that refrain from some of
these say so in their hypothesis.

### Loading a program

`DartLibraryLoader` has jobs by their addresses, which may be used again for new jobs. The provider and the
virtual machine are the environment: streams come or fail in any order, and a completed library asks
for any set of parts and of libraries not asked for before (`AskedFor`), and may name again those that
are being fetched. `AsksForLost` lets it also name libraries that failed. The virtual machine keeps a library it
has created in its table, whether it was loaded or not, and does not ask for it twice, so the runs and the
proofs that need it assume `AsksForLost = FALSE`. With `TRUE` the dangling pointer that `DidFailJob`
leaves in `pending_libraries_` would be used. That `main` is called means that the watcher's callback has
run: it returns without invoking `main` when the virtual machine finds the libraries in error
(`dart_controller.cc:77`).

### The render tree

`RenderTree` has the tree (`parent`, `attached`, and `above`, the ancestors that the code finds by walking
up), the marks `_needsLayout` and `_needsPaint` with the two lists of dirty nodes, and a frame as the code
runs it: a flush of layout that takes nodes off its list and lays out each with its subtree, a flush of
painting, and a program that may do anything between frames. `laying` is the stack of `performLayout` calls
that are running; a layout lays out its children one after the other, and from a layout callback it hands
the program a subtree to change. The code sorts its lists by depth; the model takes nodes
in any order. A paint that throws loses the picture of its display list, and in a debug build those of the
rest of the list. `unseen` and `passed_over` record what the picture shows and what a flush has met outside of
the tree; they are read by properties only.

### The widget tree

`WidgetSync` is `MultiChildRenderObjectWrapper.syncRenderObject`, step by step: two scans from the ends, the
search among old children by key, insertion, removal. It works on the list of siblings of
`ContainerRenderObjectMixin`, whose assertions end a behaviour (`failed`). `Components` has `_dirtyComponents`,
the sorted list that a microtask walks, and builds that mount, keep and remove other components. A widget
that its owner was given and passes on has other builders than the components above it; `builders` and
`above` keep the two apart, because `_order` counts the former.

### Pages

`Navigator` has the history, `push`, `pop`, the build that decides which pages are put into the tree, and the
transitions with what their performances tell the navigator. An entry in the model has the number of its
object, which may be used again when nothing refers to the old one. Frames tick the transitions in any order.

### Timers and bundles

`TimerHeap` has the heap of `dart_timer_heap.cc`, the tasks posted for it, and the `Timer` a program holds.
`RootBundle` has `Engine::RunFromBundle`, the job that copies and unzips the archive on a worker, the
snapshot that is awaited meanwhile, and the pipe to the bundle, which the next isolate takes.

### One run for parts without a common state

`WidgetSync`, `Components`, `TimerHeap`, `RootBundle` and `Navigator` share no variables. `Parts` puts them
side by side: a behaviour is one of one part, chosen in the initial state, and one run checks them all.

### Liberties

Code that is called back may do what its caller cannot bear. Wherever this is so, a variable fixed in the
initial state (`liberties`, `program`, `cancels_itself`, `mixes`, `pops_in_frames`) says which of these things
the program does, and the properties that the code keeps only for programs that refrain from some of them name
these in their hypothesis. What happens to the other programs is under *Findings* below.

## What is checked

| run | instance | what it shows |
| --- | --- | --- |
| `layer_host` | 2 sizes and the empty one, 4 textures, 2 ids, 2 resources held; 461,856 states | tasks agree with the state, textures have one owner and fit the surface, surfaces are not leaked and the embedder shows the current one; the host implements `FrameScheduler` with its fairness |
| `shell_view` | 2 windows, 1 message under way, a new surface while fewer than 2 tasks are posted; 577,315 states | one task carries the frame, surface news arrive in order, scheduled updates have a request standing, a visible view runs, GL objects need a surface; frames begin only on request and one at a time, and keep coming |
| `shell_view_resume` | 1 window | a request made while paused with a frame in progress is never served (finding) |
| `shell_view_window` | 2 windows | a surface may be created for a window that was released (finding) |
| `shell_view_context` | 1 window | a surface destroyed before it was drawn to has no context (finding) |
| `ticker` | 2 tickers, 2 nodes, 4 ids, every set of liberties; 514,326 states | callbacks have a frame to come, ticks are neither doubled nor lost nor made after stop, what is dirty is painted, tickers go on ticking |
| `ticker_stops` | the same | a ticker stopped by the tick of another is ticked all the same (finding) |
| `ticker_restarts` | the same | a tick that restarts its own ticker registers it twice (finding) |
| `library_loader` | 3 libraries, parts, 4 addresses; 2,029 states | the watcher waits for exactly the jobs there are, no library is fetched twice, `main` is called, and last |
| `render_tree` | a view and 3 nodes, of which one is used by programs without liberties only; 2 display lists, 5 sets of liberties; 3.1 million states | marks stop at a boundary, boundaries are above their nodes, a parent that measured a child is dirty with it, painting meets a clean tree, and when no frame is to come nothing is left to lay out or paint |
| `parts` | lists of 3 of 5 widgets synced twice, 4 components, 4 timers, 4 programs, 2 pages besides the first with transitions of 3 steps; 518,189 states | children end in the order of the widgets and keep their render objects; components are built once, none is forgotten and all are built; active timers run and no others; programs do not go back and find their bundle; pages are a stack, only covered ones are left out, popped ones leave |
| `widget_slots` | the children of `parts`, synced once | a component inserts its new root before a render object that has left the list (finding) |

*Bounds.* Two windows let the news of one meet the creation of the next; a third would only repeat it. The
loops are not bounded as such: only the platform waits with a new surface while `MaxTasks` tasks are posted,
and each surface and each frame posts a fixed number. A second message under way would be delivered by the
same actions in the same order, and sending is possible in every state. Two sizes and four textures let a
texture of the old size return after a resize while one is shown, one is at the service and one is cached. Two
tickers are an actor and one that is acted on; four ids are one for each ticker and one for each registration
it may lose. Three nodes below the view are a boundary, a node that needs it and one that moves between them;
a larger tree adds nodes that are marked and laid out in the same way. Lists of three children can lose one,
keep one and move one, and are synced a second time from any list the first left; `button` and `label` with
shared and missing keys are what matching tells apart. Four components are a container, one that builds, and
two that it builds, passes on or puts below each other. A program asked for while one runs and another is on
its way is the third. Two pages pushed over the first cover each other, and are both on their way out when a
third is pushed as soon as one has gone (`MaxEntries` bounds the objects at a time, not the number of pushes).
Three libraries are a main library and two that import each other, and four addresses are one more than the
libraries that can be under way, for parts. One node would do for `DirtyIsScheduled`; two show a mark that
relies on the request of another.

*Fairness.* Message loops run what is posted (`UILoop`, `GPULoop`, `RunBeginFrame`, `RunDidCompleteFrame`),
messages are delivered, the surfaces service acknowledges frames and returns resources, the engine begins
frames it was asked for (which `shell_view` is about, and which has the exception of `shell_view_resume`),
providers answer, microtasks run to their end (`Microtask`, `BuildNavigator`), and frames come while a
transition ticks (`Frame`; that they do is what `Ticker` and the frame modules are about). All of it is weak:
each of these actions stays enabled until it is taken. Nothing is assumed of users, platforms and programs: no
surface, pause, message or request needs ever to come.

*Deadlock* is checked for the compositor and the tickers. The shell stops for good when a `CHECK` fails or
after teardown, and the loader when `main` has been called, so their runs do not check it; nor do those of the
parts, which have run out of work when their bounds are reached, or of children to sync when an assertion has
failed.

*Findings.* Six runs state what an assertion or a comment of the code says, and TLC finds it violated; the
quotations are in `PROJECT.json`. `FramesKeepComing` is the counterpart of `shell_view_resume`: as long
as nothing is requested while the animator is stopped, frames do keep coming. The liberties of programs
stand for more of this kind; each is in a model, and dropping the hypothesis from the property it is named
in lets TLC find it:

* A repeating timer cancelled from its own closure is not in the heap at that moment, and runs for ever
  (`ActiveTimersRun`, `cancels_itself`).
* A build that throws drops the rest of the sorted list. Its components stay dirty, and `setState` on a dirty
  component returns early (`NoneForgotten`, `Throws`).
* Inherited widgets that change mark components that have been built in the pass, which builds them again
  (`BuiltOnce`, `Notifies`). The model goes on as a release build does; in a debug build the assertion
  (`widget.dart:777`) ends the pass.
* A program from a library that starts while a bundle is unpacked is replaced by the older bundle, whose
  assets it has taken (`NeverGoesBack`, `ProgramHasItsBundle`, `mixes`).
* A subtree put back after a flush has passed over a dirty node of it stays dirty and in no list, and a node
  with a display list that changes while out of the tree is painted as it was (`NothingLeftBehind`).
* A layout that throws leaves its node dirty, and a change from a layout callback waits for the next frame's
  flush: either way, as with a subtree put back, dirty nodes can be painted (`PaintsCleanTree`, `Throws`,
  `BuildsInLayout`, `KeepsSubtrees`).
* A page popped by a frame callback, before the tick of that frame that completes its transition, is marked
  fully opaque after its pop: the current page is left out of the build until it has slid out
  (`OnlyCoveredPagesAreLeftOut`, `pops_in_frames`).
* A page popped before its transition has moved has nothing to animate back, so nothing ever
  dismisses it: it stays in the history, invisible and in front. Entries of `RouteState` have no transition
  and stay too (the hypothesis of `PoppedPagesLeave`).

Two more are seen in the code and are not in a model: `RenderObjectWithChildMixin` does not override
`redepthChildren`, so that a node below one may keep a depth that is not greater than its ancestors'
(`sky/sdk/lib/base/README.md:28`); and after the pop of an opaque page the one below comes
with a new transition, while still fully opaque, so that nothing is built behind it as it slides in.

Every property has a mutant: a plausible mistake in a mapped definition (the operators whose
comment starts with "Mistake") under which the run finds the property violated.

## What is proved

All proofs are for any values of the constants that satisfy the named assumptions. The safety properties of
all passing runs are proved; the type invariants of `Ticker`, `DartLibraryLoader` and `RenderTree` are proved
instead of being run.

`LayerHostProofs`. `TasksAlwaysMatchState`: the tasks and acknowledgements outstanding agree with
`state_` and `frame_requested_`. It is inductive with the types of the variables it speaks of
(`SchedulingInv`), because each handler consumes the one task its state allows and leaves the one its new
state needs; two lemmas say what `BeginFrame` and `DidCompleteFrame` do to the scheduling state, whatever is
uploaded. `LayerHostIsFrameScheduler` refines step by step from it: no `BeginFrame` can run while a
frame is in flight. `ServiceHasOneSurface` and `EmbedderIsUpToDate` follow from `SurfaceInv`, about the calls
that create, name and destroy surfaces. `TexturesAreNotShared` and `FramesFit` follow from `TextureInv`: what
is cached, what is lent and what is on its way back are disjoint, and the cache has textures of one size
(`CacheOK`). `TypeCorrect` follows from the three.

`ShellViewProofs`. `TypeCorrect` is inductive as it stands. `OneTaskCarriesTheFrame` needs it: lemmas on
sequences say how posting and taking a task change the number of tasks that carry the frame, and each
handler either moves that task or leaves it alone. `FrameworkIsServed` proves `ScheduledUpdateIsRequested`
and `VisibleViewsRun` proves `RunsWhenVisible`, over every interleaving. `NewsReachRasterizer` proves
`SurfaceNewsLeadToWindow`: news of surfaces alternate in both loops, created and destroyed, and what the GPU
loop holds, followed by what the UI loop holds, leads from what the rasterizer knows to what the platform view
has (`NewsInv`). Its lemmas say what becomes of such a loop when a task that is no news, or one that is, is put
in, taken out, or passed from one loop to the other. `GLObjectsLiveOnSurface` needs it: news of a new surface
do not find the old one. `ShellIsFrameScheduler` is the refinement of `FrameScheduler` by the animator, the
loops and the rasterizer together, step by step: a frame begins only when one was asked for, and not
before the one in flight has been drawn.

`TickerProofs`. `TypeCorrect`; `RegisteredTicksGetFrames`, that a registered callback has asked for a
frame that has not begun; `NoTickerTicksTwice`, that if ticks at worst throw, the two maps hold
just the callbacks tickers could cancel. The last needs that the ticker whose tick runs holds no id, and
that what the frame still has to call is disjoint from what is registered. `EveryTickerGetsTicks` adds the
converse, that every ticker that ticks is registered (`EachIsRegistered`), and `DirtyGetsPainted` that a
dirty node has a frame to come.

`DartLibraryLoaderProofs`. `TypeCorrect`; `WatcherWaitsForJobs` and `MainIsLast` (assuming `~AsksForLost`),
where the invariant adds that nothing happens before loading and after `main`; `NoLibraryIsFetchedTwice`,
where it adds that what is fetched was requested. Lemmas compute the maps a completed job leaves.

`RenderTreeProofs`. `TypeCorrect`, and `MarksStop` for trees of any size and shape: a clean node without a
parent is its own relayout boundary, so that no mark runs off the top. The invariant has that `above` is the
transitive closure of `parent` in a forest with the view on top (`Forest`, `ViewOnTop`), and that the calls of
`performLayout` that run are a chain of nodes in it (`LayingOK`). `RootsStayAbove` proves
`BoundariesAreAbove`. It needs that a node and what is below it are laid out for the same boundary, or the
lower one for a boundary between them (`RootsAgree`), except where a layout has changed the boundary of the
upper node and not come down to the lower one yet (`Stale`); a drop finds no such place, because a callback
runs before its layout has come to any child. `ParentsFollowChildren` proves `ParentsFollow`: a measured child
is no boundary, so marks climb over it (`MeasuredOK`); between its layout and the end of its parent's the
child stays clean, whatever callbacks do elsewhere (`LaidOutAreClean`); and a parent not marked is being laid
out (`ParentsKnow`).

The other two theorems say that dirt gets to where a flush finds it. For layout: a dirty node in the tree
whose parent is clean is in the list, or will be when the pass under way comes to it (`LayoutAwaited`,
`OnePass`), and whoever lists a node asks for a frame (`FrameAsked`). For painting: of the nodes on the way up
from a node whose change has not been painted, one that is dirty will mark it, or one with a display list of
its own is marked (`LooksAwaited`, `PaintAwaited`). Both need that a way up ends: a climb through nodes that
each blame the next would have no last one, and the tree is finite (`ClimbsEnd`, `FirstOnTheWay`, by the
well-foundedness of strict inclusion on the sets `above`). `NothingIsForgotten` (`NothingLeftBehind`) and
`TreesArePaintedClean` (`PaintsCleanTree`) follow: when no frame is to come, nobody waits, and when painting
starts the list of layouts is empty and no node in the tree is dirty. The first is for programs that at worst
build in layouts, the second for those that at worst change the looks of what is out of the tree: each liberty
left out breaks it (see *Findings*).

`PartsProofs`. `NoneIsForgotten` for any number of components, from what the list and the set are while the
microtask runs (`PassOK`); `EachIsBuiltOnce` needs that builders are a chain in the tree above a component
(`TreeOK`), so that `_order` grows along it, and that what the walk has still to build was not built yet, nor
what it will build along (`FirstTime`). `TimersRun`: posted tasks outlive entries of the heap, and ids are not
used again. `RunsGoForward` and `BundlesGoToTheirPrograms`: only the bundle asked for last is awaited, because
binding the pipe anew drops whoever waited on the old one.

`NavigatorProofs`, for any number of pages and any length of transitions. `PagesStack` proves
`PagesAreAStack`, every step of it: an entry whose transition goes back was popped (`OnlyPoppedGoBack`), so
that what `onDismissed` removes is never on the stack. `CoveredPagesRest` proves `OnlyCoveredPagesAreLeftOut`.
That a popped page is not opaque needs that, as long as the navigator is not dirty, and in a frame of a
program that does not pop pages there, who goes forward is on the stack (`ForwardAreOnTheStack`). That a page
left out has come to rest is a race: the page that covers it was marked opaque by the end of its own
transition. The one below wins, because it went first and keeps its lead over the ticks that are left in the
frame (`WillBe`, `LowerIsAhead`), whatever was pushed, popped and removed between them; and what is built anew
below a page on its way in is only what nobody had covered (`NoGaps`).

`WidgetSyncProofs`, for any number of children, any lists of them and any number of syncs. While
`syncRenderObject` runs the list of render objects has three parts: at both ends the roots of the children
that are synced, in their order, and between them the roots of the old children whose turn is still to come
(`Rest`), in theirs (`Shape`). A sync takes a root out of the middle, or puts a new one in, and brings it to
the edge of one end, where `next_sibling` says (`NextSibling`); lemmas on `Without` and `Before` say what that
does to the places of all others (`Removes`, `Inserts`, `Takes`). A new object is none of the list's, because
there are more objects than places that remember one (`NewObjectIsNew`). The slot of a synced child is the
sibling behind it or one that is gone (`Slots`), so that a child whose root is replaced comes back to its
place. The scans step over every old child that was reordered (`Places`). A key that was reordered is that of
a synced child, and so is the key of every old child whose turn is over (`KeysAreKnown`): as keys differ, a
child still to be synced finds the old one with its key if there is one. `SyncOrdersChildren`
(`ChildrenInOrder`) reads off `Shape` when nothing is left in the middle, `KeysKeepNodes` (`NodesAreReused`)
off `Reused`. The invariant says nothing of a list in which an assertion of the code has failed.

*Only model-checked:* everything about liveness (`IsFrameScheduler`'s fairness, `FramesKeepComing`,
`TickersTick`, `MainIsCalled`, `DirtyComponentsGetBuilt`, `PoppedPagesLeave`), which the prover does not
reach. Every safety property that a passing run checks is proved.

## Not modelled, and what could come next

The map covers a small share of the repository: most of it is Blink's platform code, a GPU command buffer, GL
bindings and other code rolled in from Chromium, generated tables, tools, tests and samples. Geometry, painting,
text, the conversion of events and the values of animations are left aside as well: they compute, and nothing
in them depends on an order of steps. `PROJECT.json` has the reason for each part. What is left, in order:

1. `Focus` and `Keyboard` (`focus.dart`, `keyboard.dart`) on top of the widget tree: the focused key and the
   handle that is attached; pointers that are captured (`sky_binding.dart`).
2. Global keys, and widgets built from layout callbacks, which join `Components` to `RenderTree`.
3. The temporary files of bundles, and the loaders and players of the mobile services, whose other side is
   the platform's.
