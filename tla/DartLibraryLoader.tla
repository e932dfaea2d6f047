-------------------------- MODULE DartLibraryLoader --------------------------
(***************************************************************************)
(* sky/engine/tonic/dart_library_loader.cc: loading a Dart program from    *)
(* its source files.  A job fetches one file.  When a library's file is    *)
(* there, the Dart VM reads it and asks for the libraries it imports and   *)
(* the parts it consists of; they become jobs too, caught by a             *)
(* DartDependencyCatcher.  A DependencyWatcher waits for all of them and   *)
(* then calls main.                                                        *)
(*                                                                         *)
(* Jobs are known by their addresses: the address of a deleted job may     *)
(* come back as that of a new one.  A controller loads one program with    *)
(* its loader, so that there is one watcher.                               *)
(***************************************************************************)
EXTENDS FiniteSets

CONSTANTS
    Libraries,
    MainLibrary,
    Part,        \* stands for any part of a library
    Addresses,   \* of jobs
    AsksForLost  \* the VM may ask again for a library whose file was not found

ASSUME LoaderAssumption == /\ MainLibrary \in Libraries
                           /\ Part \notin Libraries
                           /\ AsksForLost \in BOOLEAN

VARIABLES
    pending_libraries,   \* from names to addresses of jobs
    jobs,                \* from addresses to what they fetch
    drained,             \* jobs whose pipe has come
    dependencies,        \* of the watcher, if there is one
    requested,           \* libraries the VM has asked for
    main                 \* whether the watcher's callback, which invokes main, has run

vars == <<pending_libraries, jobs, drained, dependencies, requested, main>>

NotStarted == "not started"
Loading == "loading"
Called == "called"

NoEntries == [x \in {} |-> Part]

Init == /\ pending_libraries = NoEntries
        /\ jobs = NoEntries
        /\ drained = {}
        /\ dependencies = {}
        /\ requested = {}
        /\ main = NotStarted

-----------------------------------------------------------------------------

(* A map with the entries of new over those of old whose keys are in kept. *)
Updated(old, kept, new) == [x \in (DOMAIN old \cap kept) \cup DOMAIN new |->
                                IF x \in DOMAIN new THEN new[x] ELSE old[x]]

(***************************************************************************)
(* What the VM may ask for at once: parts, and libraries it has not asked  *)
(* for, each of them once.  LoadLibrary and Source make jobs of them.      *)
(***************************************************************************)
AskedFor(new) ==
    /\ \A a \in DOMAIN new : new[a] = Part \/ new[a] \notin requested
    /\ \A a, b \in DOMAIN new : new[a] = new[b] => new[a] = Part \/ a = b

NewJobs == UNION {[free -> Libraries \cup {Part}] : free \in SUBSET (Addresses \ DOMAIN jobs)}

(* Names in pending_libraries whose jobs exist. *)
Fetched == {name \in DOMAIN pending_libraries :
                /\ pending_libraries[name] \in DOMAIN jobs
                /\ jobs[pending_libraries[name]] = name}

(* Addresses of the jobs of libraries in new, by name. *)
AddressOf(new) == [name \in {new[a] : a \in DOMAIN new} \ {Part} |->
                       CHOOSE a \in DOMAIN new : new[a] = name]

(* Mistake: what the completed library imports is forgotten. *)
DidResolveDependencyOnly(job, new_dependencies) ==
    LET left == dependencies \ {job}
    IN  /\ dependencies' = (IF job \in dependencies THEN left ELSE dependencies)
        /\ main' = (IF job \in dependencies /\ left = {} THEN Called ELSE main)

(* Mistake: the resolved dependency is not erased when others take its place. *)
DidResolveDependencyKeepsJob(job, new_dependencies) ==
    LET left == (IF new_dependencies = {} THEN dependencies \ {job} ELSE dependencies)
                \cup new_dependencies
    IN  /\ dependencies' = (IF job \in dependencies THEN left ELSE dependencies)
        /\ main' = (IF job \in dependencies /\ left = {} THEN Called ELSE main)

(***************************************************************************)
(* ~WatcherSignaler and DidResolveDependency.  The callback of a watcher   *)
(* that has nothing left to wait for calls main.                           *)
(***************************************************************************)
DidResolveDependency(job, new_dependencies) ==
    LET left == (dependencies \ {job}) \cup new_dependencies
    IN  /\ dependencies' = (IF job \in dependencies THEN left ELSE dependencies)
        /\ main' = (IF job \in dependencies /\ left = {} THEN Called ELSE main)

(* DartController::RunFromLibrary. *)
RunFromLibrary ==
    /\ main = NotStarted
    /\ main' = Loading
    /\ \E job \in Addresses :
           /\ jobs' = [a \in {job} |-> MainLibrary]
           /\ pending_libraries' = [name \in {MainLibrary} |-> job]
           /\ dependencies' = {job}
    /\ requested' = {MainLibrary}
    /\ UNCHANGED drained

(* Job::OnStreamAvailable with a pipe. *)
OnStreamAvailable(job) ==
    /\ job \in DOMAIN jobs \ drained
    /\ drained' = drained \cup {job}
    /\ UNCHANGED <<pending_libraries, jobs, dependencies, requested, main>>

(* Mistake: nobody learns that the job is gone. *)
DidFailJobSilently(job) ==
    /\ job \in DOMAIN jobs \ drained
    /\ jobs' = Updated(jobs, Addresses \ {job}, NoEntries)
    /\ UNCHANGED <<pending_libraries, drained, dependencies, requested, main>>

(* Job::OnStreamAvailable without a pipe.  The name stays in pending_libraries. *)
DidFailJob(job) ==
    /\ job \in DOMAIN jobs \ drained
    /\ jobs' = Updated(jobs, Addresses \ {job}, NoEntries)
    /\ DidResolveDependency(job, {})
    /\ UNCHANGED <<pending_libraries, drained, requested>>

(* Mistake: new jobs are not entered in pending_libraries. *)
DidCompleteImportJobForgetsNames(job) ==
    /\ job \in drained
    /\ jobs[job] # Part
    /\ \E new \in NewJobs, again \in SUBSET (DOMAIN pending_libraries \ {jobs[job]}) :
           /\ AskedFor(new)
           /\ AsksForLost \/ again \subseteq Fetched
           /\ jobs' = Updated(jobs, Addresses \ {job}, new)
           /\ pending_libraries' =
                  Updated(pending_libraries, Libraries \ {jobs[job]}, NoEntries)
           /\ requested' = requested \cup DOMAIN AddressOf(new)
           /\ DidResolveDependency(job,
                  DOMAIN new \cup {pending_libraries[name] : name \in again})
    /\ drained' = drained \ {job}

(***************************************************************************)
(* The file of a library is complete: Dart_LoadLibrary reads it and asks   *)
(* for new files, and perhaps again for libraries that are pending.  It    *)
(* never asks for the library it is reading.                               *)
(***************************************************************************)
DidCompleteImportJob(job) ==
    /\ job \in drained
    /\ jobs[job] # Part
    /\ \E new \in NewJobs, again \in SUBSET (DOMAIN pending_libraries \ {jobs[job]}) :
           /\ AskedFor(new)
           /\ AsksForLost \/ again \subseteq Fetched
           /\ jobs' = Updated(jobs, Addresses \ {job}, new)
           /\ pending_libraries' =
                  Updated(pending_libraries, Libraries \ {jobs[job]}, AddressOf(new))
           /\ requested' = requested \cup DOMAIN AddressOf(new)
           /\ DidResolveDependency(job,
                  DOMAIN new \cup {pending_libraries[name] : name \in again})
    /\ drained' = drained \ {job}

(* The file of a part is complete: Dart_LoadSource asks for nothing. *)
DidCompleteSourceJob(job) ==
    /\ job \in drained
    /\ jobs[job] = Part
    /\ jobs' = Updated(jobs, Addresses \ {job}, NoEntries)
    /\ DidResolveDependency(job, {})
    /\ drained' = drained \ {job}
    /\ UNCHANGED <<pending_libraries, requested>>

-----------------------------------------------------------------------------

Answer == \E job \in Addresses : \/ OnStreamAvailable(job)
                                 \/ DidFailJob(job)
                                 \/ DidCompleteImportJob(job)
                                 \/ DidCompleteSourceJob(job)

Next == RunFromLibrary \/ Answer

SafeSpec == Init /\ [][Next]_vars

(* The provider answers every request, and every pipe is closed some time. *)
Spec == SafeSpec /\ WF_vars(Answer)

-----------------------------------------------------------------------------
(* Properties *)

(* Every variable holds a value the program can hold. *)
TypeOK ==
    /\ \E names \in SUBSET Libraries : pending_libraries \in [names -> Addresses]
    /\ \E addresses \in SUBSET Addresses : jobs \in [addresses -> Libraries \cup {Part}]
    /\ drained \subseteq DOMAIN jobs
    /\ dependencies \subseteq Addresses
    /\ requested \subseteq Libraries
    /\ main \in {NotStarted, Loading, Called}

(***************************************************************************)
(* While the program loads, the watcher waits for the jobs there are:      *)
(* none that is gone, which would keep main from being called, and no less *)
(* than all, or main would be called too early.                            *)
(***************************************************************************)
WaitsForEveryJob == main = Loading => dependencies = DOMAIN jobs /\ dependencies # {}

(* main is called when nothing is left to load, libraries imported by others included. *)
MainComesLast == main = Called => DOMAIN jobs = {}

(***************************************************************************)
(* pending_libraries knows the one job of every library that is fetched:   *)
(* a second import of it waits for that job instead of making another one, *)
(* whose file Dart_LoadLibrary would refuse.                               *)
(***************************************************************************)
PendingKnowsEveryJob ==
    \A a \in DOMAIN jobs : jobs[a] # Part =>
        jobs[a] \in DOMAIN pending_libraries /\ pending_libraries[jobs[a]] = a

(***************************************************************************)
(* The callback is invoked when the dependencies are satisfied, transitive *)
(* ones included (comment of DependencyWatcher), and however many of them  *)
(* failed.                                                                 *)
(***************************************************************************)
MainIsCalled == main = Loading ~> main = Called
=============================================================================
