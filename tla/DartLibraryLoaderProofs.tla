----------------------- MODULE DartLibraryLoaderProofs -----------------------
(***************************************************************************)
(* Proofs about DartLibraryLoader, for any program and any order of        *)
(* answers.                                                                *)
(***************************************************************************)
EXTENDS DartLibraryLoader, TLAPS

LEMMA UpdatedDomain ==
    ASSUME NEW old, NEW kept, NEW new
    PROVE  DOMAIN Updated(old, kept, new) = (DOMAIN old \cap kept) \cup DOMAIN new
  BY DEF Updated

LEMMA UpdatedValue ==
    ASSUME NEW old, NEW kept, NEW new, NEW x \in DOMAIN Updated(old, kept, new)
    PROVE  Updated(old, kept, new)[x] = IF x \in DOMAIN new THEN new[x] ELSE old[x]
  BY DEF Updated

LEMMA UpdatedType ==
    ASSUME NEW old, NEW kept, NEW new, NEW Keys, NEW Values,
           \E keys \in SUBSET Keys : old \in [keys -> Values],
           \E keys \in SUBSET Keys : new \in [keys -> Values]
    PROVE  \E keys \in SUBSET Keys : Updated(old, kept, new) \in [keys -> Values]
<1>1. PICK k1 \in SUBSET Keys : old \in [k1 -> Values]
  OBVIOUS
<1>2. PICK k2 \in SUBSET Keys : new \in [k2 -> Values]
  OBVIOUS
<1>3. Updated(old, kept, new) \in [(k1 \cap kept) \cup k2 -> Values]
  BY <1>1, <1>2 DEF Updated
<1> QED
  BY <1>1, <1>2, <1>3

LEMMA NoEntriesType ==
    ASSUME NEW Keys, NEW Values
    PROVE  /\ DOMAIN NoEntries = {}
           /\ \E keys \in SUBSET Keys : NoEntries \in [keys -> Values]
<1>1. DOMAIN NoEntries = {}
  BY DEF NoEntries
<1>2. NoEntries \in [{} -> Values]
  BY DEF NoEntries
<1> QED
  BY <1>1, <1>2

LEMMA NewJobsType ==
    ASSUME NEW new \in NewJobs
    PROVE  /\ DOMAIN new \subseteq Addresses \ DOMAIN jobs
           /\ \A a \in DOMAIN new : new[a] \in Libraries \cup {Part}
           /\ \E free \in SUBSET Addresses : new \in [free -> Libraries \cup {Part}]
<1>1. PICK free \in SUBSET (Addresses \ DOMAIN jobs) : new \in [free -> Libraries \cup {Part}]
  BY DEF NewJobs
<1> QED
  BY <1>1

(* AddressOf inverts new on the names of libraries. *)
LEMMA AddressOfValue ==
    ASSUME NEW new, NEW name \in DOMAIN AddressOf(new)
    PROVE  AddressOf(new)[name] \in DOMAIN new /\ new[AddressOf(new)[name]] = name
<1>1. AddressOf(new)[name] = CHOOSE a \in DOMAIN new : new[a] = name
  BY DEF AddressOf
<1>2. \E a \in DOMAIN new : new[a] = name
  BY DEF AddressOf
<1> QED
  BY <1>1, <1>2

LEMMA AddressOfDomain ==
    ASSUME NEW new
    PROVE  DOMAIN AddressOf(new) = {new[a] : a \in DOMAIN new} \ {Part}
  BY DEF AddressOf

LEMMA AddressOfType ==
    ASSUME NEW new \in NewJobs
    PROVE  \E names \in SUBSET Libraries : AddressOf(new) \in [names -> Addresses]
<1>1. DOMAIN AddressOf(new) \subseteq Libraries
  <2>1. ASSUME NEW name \in DOMAIN AddressOf(new) PROVE name \in Libraries
    <3>1. name # Part
      BY AddressOfDomain
    <3>2. AddressOf(new)[name] \in DOMAIN new /\ new[AddressOf(new)[name]] = name
      BY AddressOfValue
    <3> QED
      BY <3>1, <3>2, NewJobsType
  <2> QED
    BY <2>1
<1>2. \A name \in DOMAIN AddressOf(new) : AddressOf(new)[name] \in Addresses
  BY NewJobsType, AddressOfValue
<1>3. AddressOf(new) = [name \in DOMAIN AddressOf(new) |-> AddressOf(new)[name]]
  BY DEF AddressOf
<1>4. AddressOf(new) \in [DOMAIN AddressOf(new) -> Addresses]
  BY <1>2, <1>3
<1> QED
  BY <1>1, <1>4

-----------------------------------------------------------------------------

(* The type invariant needs to know that nothing is fetched before the start. *)
IdleAtFirst == main = NotStarted => DOMAIN jobs = {}

Typed == TypeOK /\ IdleAtFirst

LEMMA TypeInit == Init => Typed
  BY NoEntriesType DEF Init, Typed, TypeOK, IdleAtFirst

LEMMA ResolvedType ==
    ASSUME TypeOK, NEW job, NEW new_dependencies \in SUBSET Addresses,
           DidResolveDependency(job, new_dependencies)
    PROVE  /\ dependencies' \subseteq Addresses
           /\ main' \in {Called, main}
  BY DEF TypeOK, DidResolveDependency

LEMMA TypeStep == Typed /\ [Next]_vars => Typed'
<1> SUFFICES ASSUME Typed, [Next]_vars PROVE Typed'
  OBVIOUS
<1>0. /\ \E names \in SUBSET Libraries : pending_libraries \in [names -> Addresses]
      /\ \E addresses \in SUBSET Addresses : jobs \in [addresses -> Libraries \cup {Part}]
      /\ drained \subseteq DOMAIN jobs
      /\ dependencies \subseteq Addresses
      /\ requested \subseteq Libraries
      /\ main \in {NotStarted, Loading, Called}
      /\ main = NotStarted => DOMAIN jobs = {}
  BY DEF Typed, TypeOK, IdleAtFirst
<1>1. ASSUME RunFromLibrary PROVE Typed'
  <2>1. PICK job \in Addresses : /\ jobs' = [a \in {job} |-> MainLibrary]
                                 /\ pending_libraries' = [name \in {MainLibrary} |-> job]
                                 /\ dependencies' = {job}
    BY <1>1 DEF RunFromLibrary
  <2>2. jobs' \in [{job} -> Libraries \cup {Part}]
    BY <2>1, LoaderAssumption
  <2>3. pending_libraries' \in [{MainLibrary} -> Addresses]
    BY <2>1
  <2>4. drained' = {} /\ main' = Loading /\ requested' = {MainLibrary}
    <3>1. main = NotStarted /\ drained' = drained /\ main' = Loading /\ requested' = {MainLibrary}
      BY <1>1 DEF RunFromLibrary
    <3>2. DOMAIN jobs = {}
      BY <1>0, <3>1
    <3>3. drained = {}
      BY <1>0, <3>2
    <3> QED
      BY <3>1, <3>3
  <2>5. /\ \E names \in SUBSET Libraries : pending_libraries' \in [names -> Addresses]
        /\ \E addresses \in SUBSET Addresses : jobs' \in [addresses -> Libraries \cup {Part}]
    BY <2>2, <2>3, LoaderAssumption
  <2> QED
    BY <2>1, <2>4, <2>5, LoaderAssumption
       DEF Typed, TypeOK, IdleAtFirst, NotStarted, Loading
<1>2. ASSUME NEW job \in Addresses, OnStreamAvailable(job) PROVE Typed'
  BY <1>0, <1>2 DEF OnStreamAvailable, Typed, TypeOK, IdleAtFirst
<1>3. ASSUME NEW job \in DOMAIN jobs, NEW new,
             \E keys \in SUBSET Addresses : new \in [keys -> Libraries \cup {Part}],
             NEW deps \in SUBSET Addresses,
             jobs' = Updated(jobs, Addresses \ {job}, new),
             DidResolveDependency(job, deps),
             drained' = drained \ {job},
             requested' \subseteq Libraries,
             \E names \in SUBSET Libraries : pending_libraries' \in [names -> Addresses]
      PROVE  Typed'
  <2>1. \E keys \in SUBSET Addresses : jobs' \in [keys -> Libraries \cup {Part}]
    BY <1>0, <1>3, UpdatedType
  <2>2. DOMAIN jobs' = (DOMAIN jobs \cap (Addresses \ {job})) \cup DOMAIN new
    <3>1. DOMAIN Updated(jobs, Addresses \ {job}, new)
              = (DOMAIN jobs \cap (Addresses \ {job})) \cup DOMAIN new
      BY DEF Updated
    <3>2. jobs' = Updated(jobs, Addresses \ {job}, new)
      BY <1>3
    <3> QED
      BY <3>1, <3>2, Zenon
  <2>3. drained' \subseteq DOMAIN jobs'
    BY <1>0, <1>3, <2>2
  <2>4. dependencies' \subseteq Addresses /\ main' \in {Called, main}
    BY <1>3, ResolvedType DEF Typed
  <2>5. main' \in {Loading, Called}
    BY <1>0, <1>3, <2>4
  <2> QED
    BY <1>3, <2>1, <2>3, <2>4, <2>5 DEF Typed, TypeOK, IdleAtFirst, NotStarted, Loading, Called
<1>4. ASSUME NEW job \in Addresses, DidFailJob(job) PROVE Typed'
  <2>1. /\ drained' = drained \ {job}
        /\ requested' = requested
        /\ pending_libraries' = pending_libraries
    BY <1>4 DEF DidFailJob
  <2>2. /\ job \in DOMAIN jobs
        /\ jobs' = Updated(jobs, Addresses \ {job}, NoEntries)
        /\ DidResolveDependency(job, {})
    BY <1>4 DEF DidFailJob
  <2>3. \E keys \in SUBSET Addresses : NoEntries \in [keys -> Libraries \cup {Part}]
    BY NoEntriesType
  <2> QED
    BY <1>0, <1>3, <2>1, <2>2, <2>3
<1>5. ASSUME NEW job \in Addresses, DidCompleteSourceJob(job) PROVE Typed'
  <2>1. /\ drained' = drained \ {job}
        /\ requested' = requested
        /\ pending_libraries' = pending_libraries
    BY <1>5 DEF DidCompleteSourceJob
  <2>2. /\ job \in DOMAIN jobs
        /\ jobs' = Updated(jobs, Addresses \ {job}, NoEntries)
        /\ DidResolveDependency(job, {})
    BY <1>0, <1>5 DEF DidCompleteSourceJob
  <2>3. \E keys \in SUBSET Addresses : NoEntries \in [keys -> Libraries \cup {Part}]
    BY NoEntriesType
  <2> QED
    BY <1>0, <1>3, <2>1, <2>2, <2>3
<1>6. ASSUME NEW job \in Addresses, DidCompleteImportJob(job) PROVE Typed'
  <2>1. PICK new \in NewJobs, again \in SUBSET (DOMAIN pending_libraries \ {jobs[job]}) :
            /\ AskedFor(new)
            /\ AsksForLost \/ again \subseteq Fetched
            /\ jobs' = Updated(jobs, Addresses \ {job}, new)
            /\ pending_libraries' =
                   Updated(pending_libraries, Libraries \ {jobs[job]}, AddressOf(new))
            /\ requested' = requested \cup DOMAIN AddressOf(new)
            /\ DidResolveDependency(job,
                   DOMAIN new \cup {pending_libraries[name] : name \in again})
    BY <1>6 DEF DidCompleteImportJob
  <2>2. job \in DOMAIN jobs /\ drained' = drained \ {job}
    BY <1>0, <1>6 DEF DidCompleteImportJob
  <2>3. \E keys \in SUBSET Addresses : new \in [keys -> Libraries \cup {Part}]
    BY NewJobsType
  <2>4. \E names \in SUBSET Libraries : AddressOf(new) \in [names -> Addresses]
    BY AddressOfType
  <2>5. \E names \in SUBSET Libraries : pending_libraries' \in [names -> Addresses]
    BY <1>0, <2>1, <2>4, UpdatedType
  <2>6. requested' \subseteq Libraries
    BY <1>0, <2>1, <2>4
  <2>7. DOMAIN new \cup {pending_libraries[name] : name \in again} \in SUBSET Addresses
    BY <1>0, NewJobsType
  <2> QED
    BY <1>3, <2>1, <2>2, <2>3, <2>5, <2>6, <2>7
<1>7. CASE UNCHANGED vars
  BY <1>0, <1>7 DEF vars, Typed, TypeOK, IdleAtFirst
<1> QED
  BY <1>1, <1>2, <1>4, <1>5, <1>6, <1>7 DEF Next, Answer

(***************************************************************************)
(* The type invariant: no drainer without its job, no address but of jobs. *)
(***************************************************************************)
THEOREM TypeCorrect == SafeSpec => []TypeOK
<1>1. Typed => TypeOK
  BY DEF Typed
<1> QED
  BY <1>1, TypeInit, TypeStep, PTL DEF SafeSpec

-----------------------------------------------------------------------------
(***************************************************************************)
(* The watcher.  Its dependencies are the jobs as long as no dependency is *)
(* added that is gone already, which pending_libraries could only supply   *)
(* if a failed library stayed in it and the VM asked for it again.         *)
(***************************************************************************)
(* Nothing is fetched before the start, nor once main was called. *)
IdleUnlessLoading == main # Loading => DOMAIN jobs = {}

Watched == Typed /\ IdleUnlessLoading /\ WaitsForEveryJob

(* A job is done and leaves new ones behind, all of which the watcher learns of. *)
LEMMA WatcherFollows ==
    ASSUME Watched, NEW job \in DOMAIN jobs, NEW new, NEW again \in SUBSET (DOMAIN jobs \ {job}),
           jobs' = Updated(jobs, Addresses \ {job}, new),
           DidResolveDependency(job, DOMAIN new \cup again)
    PROVE  IdleUnlessLoading' /\ WaitsForEveryJob'
<1>1. main = Loading
  BY DEF Watched, IdleUnlessLoading
<1>2. dependencies = DOMAIN jobs
  BY <1>1 DEF Watched, WaitsForEveryJob
<1>3. DOMAIN jobs' = (DOMAIN jobs \ {job}) \cup DOMAIN new
  <2>1. DOMAIN jobs \subseteq Addresses
    BY DEF Watched, Typed, TypeOK
  <2>2. DOMAIN Updated(jobs, Addresses \ {job}, new)
            = (DOMAIN jobs \cap (Addresses \ {job})) \cup DOMAIN new
    BY DEF Updated
  <2>3. DOMAIN jobs' = (DOMAIN jobs \cap (Addresses \ {job})) \cup DOMAIN new
    BY <2>2, Zenon
  <2> QED
    BY <2>1, <2>3
<1>4. dependencies' = (dependencies \ {job}) \cup (DOMAIN new \cup again)
  BY <1>2 DEF DidResolveDependency
<1>5. dependencies' = DOMAIN jobs'
  BY <1>2, <1>3, <1>4
<1>6. main' = IF dependencies' = {} THEN Called ELSE main
  BY <1>2, <1>4 DEF DidResolveDependency
<1>7. CASE dependencies' = {}
  BY <1>5, <1>6, <1>7 DEF IdleUnlessLoading, WaitsForEveryJob, Loading, Called
<1>8. CASE dependencies' # {}
  BY <1>1, <1>5, <1>6, <1>8 DEF IdleUnlessLoading, WaitsForEveryJob
<1> QED
  BY <1>7, <1>8

LEMMA WatchedStep ==
    ASSUME ~AsksForLost, Watched, [Next]_vars
    PROVE  Watched'
<1>0. Typed'
  BY TypeStep DEF Watched
<1>1. ASSUME RunFromLibrary PROVE Watched'
  <2>1. PICK job \in Addresses : /\ jobs' = [a \in {job} |-> MainLibrary]
                                 /\ pending_libraries' = [name \in {MainLibrary} |-> job]
                                 /\ dependencies' = {job}
    BY <1>1 DEF RunFromLibrary
  <2>2. main' = Loading
    BY <1>1 DEF RunFromLibrary
  <2>3. DOMAIN jobs' = {job} /\ jobs'[job] = MainLibrary
    BY <2>1
  <2>4. DOMAIN pending_libraries' = {MainLibrary} /\ pending_libraries'[MainLibrary] = job
    BY <2>1
  <2> QED
    BY <1>0, <2>1, <2>2, <2>3, <2>4
       DEF Watched, IdleUnlessLoading, WaitsForEveryJob
<1>2. ASSUME NEW job \in Addresses, OnStreamAvailable(job) PROVE Watched'
  BY <1>0, <1>2
     DEF OnStreamAvailable, Watched, IdleUnlessLoading, WaitsForEveryJob
<1>3. ASSUME NEW job \in Addresses, DidFailJob(job) PROVE Watched'
  <2>1. IdleUnlessLoading' /\ WaitsForEveryJob'
    <3>1. /\ job \in DOMAIN jobs
          /\ jobs' = Updated(jobs, Addresses \ {job}, NoEntries)
          /\ DidResolveDependency(job, {})
      BY <1>3 DEF DidFailJob
    <3>2. DOMAIN NoEntries \cup {} = {}
      BY NoEntriesType
    <3> QED
      BY <3>1, <3>2, WatcherFollows
  <2> QED
    BY <1>0, <2>1 DEF Watched
<1>4. ASSUME NEW job \in Addresses, DidCompleteSourceJob(job) PROVE Watched'
  <2>1. /\ job \in DOMAIN jobs
        /\ jobs[job] = Part
        /\ jobs' = Updated(jobs, Addresses \ {job}, NoEntries)
        /\ DidResolveDependency(job, {})
        /\ pending_libraries' = pending_libraries
    BY <1>4 DEF DidCompleteSourceJob, Watched, Typed, TypeOK
  <2>2. IdleUnlessLoading' /\ WaitsForEveryJob'
    <3>2. DOMAIN NoEntries \cup {} = {}
      BY NoEntriesType
    <3> QED
      BY <2>1, <3>2, WatcherFollows
  <2> QED
    BY <1>0, <2>2 DEF Watched
<1>5. ASSUME NEW job \in Addresses, DidCompleteImportJob(job) PROVE Watched'
  <2>1. PICK new \in NewJobs, again \in SUBSET (DOMAIN pending_libraries \ {jobs[job]}) :
            /\ AskedFor(new)
            /\ AsksForLost \/ again \subseteq Fetched
            /\ jobs' = Updated(jobs, Addresses \ {job}, new)
            /\ pending_libraries' =
                   Updated(pending_libraries, Libraries \ {jobs[job]}, AddressOf(new))
            /\ DidResolveDependency(job,
                   DOMAIN new \cup {pending_libraries[name] : name \in again})
    BY <1>5 DEF DidCompleteImportJob
  <2>2. job \in DOMAIN jobs
    BY <1>5 DEF DidCompleteImportJob, Watched, Typed, TypeOK
  <2>4. {pending_libraries[name] : name \in again} \in SUBSET (DOMAIN jobs \ {job})
    BY <2>1 DEF Fetched
  <2>5. IdleUnlessLoading' /\ WaitsForEveryJob'
    BY <2>1, <2>2, <2>4, WatcherFollows
  <2> QED
    BY <1>0, <2>5 DEF Watched
<1>6. CASE UNCHANGED vars
  BY <1>0, <1>6 DEF vars, Watched, IdleUnlessLoading, WaitsForEveryJob
<1> QED
  BY <1>1, <1>2, <1>3, <1>4, <1>5, <1>6 DEF Next, Answer

(* Watched is an invariant unless the VM asks again for a library that was not found. *)
LEMMA WatcherKnows ==
    ASSUME ~AsksForLost
    PROVE  SafeSpec => []Watched
<1>1. Init => Watched
  <2> SUFFICES ASSUME Init PROVE Watched
    OBVIOUS
  <2>1. Typed
    BY TypeInit
  <2>2. DOMAIN jobs = {} /\ DOMAIN pending_libraries = {} /\ main = NotStarted
    BY NoEntriesType DEF Init
  <2> QED
    BY <2>1, <2>2
       DEF Watched, IdleUnlessLoading, WaitsForEveryJob, NotStarted, Loading
<1>2. Watched /\ [Next]_vars => Watched'
  BY WatchedStep
<1> QED
  BY <1>1, <1>2, PTL DEF SafeSpec

(***************************************************************************)
(* Unless the VM asks again for a library that was not found, the watcher  *)
(* waits for just the jobs there are (WaitsForEveryJob), ...               *)
(***************************************************************************)
THEOREM WatcherWaitsForJobs ==
    ASSUME ~AsksForLost
    PROVE  SafeSpec => []WaitsForEveryJob
<1>1. Watched => WaitsForEveryJob
  BY DEF Watched
<1> QED
  BY <1>1, WatcherKnows, PTL

(* ... and main is called when there are none left (MainComesLast). *)
THEOREM MainIsLast ==
    ASSUME ~AsksForLost
    PROVE  SafeSpec => []MainComesLast
<1>1. Watched => MainComesLast
  BY DEF Watched, IdleUnlessLoading, MainComesLast, Loading, Called
<1> QED
  BY <1>1, WatcherKnows, PTL

-----------------------------------------------------------------------------
(***************************************************************************)
(* The jobs of libraries.  That pending_libraries knows them is inductive  *)
(* together with the VM having asked for whatever is fetched: what it asks *)
(* for next is then nothing that has a job.                                *)
(***************************************************************************)
FetchedWereRequested == \A a \in DOMAIN jobs : jobs[a] # Part => jobs[a] \in requested

Known == Typed /\ PendingKnowsEveryJob /\ FetchedWereRequested

(* A job goes away and leaves nothing behind, and no name is erased. *)
LEMMA KnownWithout ==
    ASSUME Known, NEW job, jobs' = Updated(jobs, Addresses \ {job}, NoEntries),
           pending_libraries' = pending_libraries, requested' = requested
    PROVE  PendingKnowsEveryJob' /\ FetchedWereRequested'
<1>1. ASSUME NEW a \in DOMAIN jobs' PROVE a \in DOMAIN jobs /\ jobs'[a] = jobs[a]
  BY <1>1, NoEntriesType DEF Updated
<1> QED
  BY <1>1 DEF Known, PendingKnowsEveryJob, FetchedWereRequested

LEMMA KnownStep == Known /\ [Next]_vars => Known'
<1> SUFFICES ASSUME Known, [Next]_vars PROVE Known'
  OBVIOUS
<1>0. Typed'
  BY TypeStep DEF Known
<1>1. ASSUME RunFromLibrary PROVE Known'
  <2>1. PICK job \in Addresses : /\ jobs' = [a \in {job} |-> MainLibrary]
                                 /\ pending_libraries' = [name \in {MainLibrary} |-> job]
    BY <1>1 DEF RunFromLibrary
  <2>2. requested' = {MainLibrary}
    BY <1>1 DEF RunFromLibrary
  <2>3. DOMAIN jobs' = {job} /\ jobs'[job] = MainLibrary
    BY <2>1
  <2>4. DOMAIN pending_libraries' = {MainLibrary} /\ pending_libraries'[MainLibrary] = job
    BY <2>1
  <2> QED
    BY <1>0, <2>2, <2>3, <2>4 DEF Known, PendingKnowsEveryJob, FetchedWereRequested
<1>2. ASSUME NEW job \in Addresses, OnStreamAvailable(job) PROVE Known'
  BY <1>0, <1>2 DEF OnStreamAvailable, Known, PendingKnowsEveryJob, FetchedWereRequested
<1>3. ASSUME NEW job \in Addresses, DidFailJob(job) PROVE Known'
  BY <1>0, <1>3, KnownWithout DEF DidFailJob, Known
<1>4. ASSUME NEW job \in Addresses, DidCompleteSourceJob(job) PROVE Known'
  BY <1>0, <1>4, KnownWithout DEF DidCompleteSourceJob, Known
<1>5. ASSUME NEW job \in Addresses, DidCompleteImportJob(job) PROVE Known'
  <2>1. PICK new \in NewJobs :
            /\ AskedFor(new)
            /\ jobs' = Updated(jobs, Addresses \ {job}, new)
            /\ pending_libraries' =
                   Updated(pending_libraries, Libraries \ {jobs[job]}, AddressOf(new))
            /\ requested' = requested \cup DOMAIN AddressOf(new)
    BY <1>5 DEF DidCompleteImportJob
  <2>2. job \in DOMAIN jobs /\ jobs[job] # Part
    BY <1>5 DEF DidCompleteImportJob, Known, Typed, TypeOK
  <2>3. ASSUME NEW a \in DOMAIN jobs', jobs'[a] # Part
        PROVE  /\ jobs'[a] \in DOMAIN pending_libraries'
               /\ pending_libraries'[jobs'[a]] = a
               /\ jobs'[a] \in requested'
    <3>1. CASE a \in DOMAIN new
      <4>1. jobs'[a] = new[a]
        BY <2>1, <2>3, <3>1 DEF Updated
      <4>2. new[a] \in DOMAIN AddressOf(new)
        BY <2>3, <3>1, <4>1 DEF AddressOf
      <4>3. AddressOf(new)[new[a]] = a
        BY <2>1, <2>3, <3>1, <4>1, <4>2, AddressOfValue DEF AskedFor
      <4>4. /\ new[a] \in DOMAIN pending_libraries'
            /\ pending_libraries'[new[a]] = AddressOf(new)[new[a]]
        BY <2>1, <4>2 DEF Updated
      <4> QED
        BY <2>1, <4>1, <4>2, <4>3, <4>4
    <3>2. CASE a \notin DOMAIN new
      <4>1. a \in DOMAIN jobs \ {job} /\ jobs'[a] = jobs[a]
        BY <2>1, <2>3, <3>2 DEF Updated
      <4>2. /\ jobs[a] \in DOMAIN pending_libraries
            /\ pending_libraries[jobs[a]] = a
            /\ jobs[a] \in requested
        BY <2>3, <4>1 DEF Known, PendingKnowsEveryJob, FetchedWereRequested
      <4>3. jobs[a] # jobs[job]
        BY <2>2, <4>1, <4>2 DEF Known, PendingKnowsEveryJob
      <4>4. jobs[a] \notin DOMAIN AddressOf(new)
        <5>1. \A b \in DOMAIN new : new[b] = Part \/ new[b] \notin requested
          BY <2>1 DEF AskedFor
        <5>2. jobs[a] # Part
          BY <2>3, <4>1
        <5> QED
          BY <4>2, <5>1, <5>2, AddressOfValue
      <4>5. jobs[a] \in DOMAIN pending_libraries \cap (Libraries \ {jobs[job]})
        BY <4>2, <4>3 DEF Known, Typed, TypeOK
      <4> QED
        BY <2>1, <4>1, <4>2, <4>4, <4>5 DEF Updated
    <3> QED
      BY <3>1, <3>2
  <2> QED
    BY <1>0, <2>3 DEF Known, PendingKnowsEveryJob, FetchedWereRequested
<1>6. CASE UNCHANGED vars
  BY <1>0, <1>6 DEF vars, Known, PendingKnowsEveryJob, FetchedWereRequested
<1> QED
  BY <1>1, <1>2, <1>3, <1>4, <1>5, <1>6 DEF Next, Answer

(***************************************************************************)
(* pending_libraries knows the job of every library that is fetched        *)
(* (PendingKnowsEveryJob), whatever the VM asks for again.                 *)
(***************************************************************************)
THEOREM NoLibraryIsFetchedTwice == SafeSpec => []PendingKnowsEveryJob
<1>1. Init => Known
  <2> SUFFICES ASSUME Init PROVE Known
    OBVIOUS
  <2>1. DOMAIN jobs = {}
    BY NoEntriesType DEF Init
  <2> QED
    BY <2>1, TypeInit DEF Known, PendingKnowsEveryJob, FetchedWereRequested
<1>2. Known => PendingKnowsEveryJob
  BY DEF Known
<1> QED
  BY <1>1, <1>2, KnownStep, PTL DEF SafeSpec
=============================================================================
