----------------------------- MODULE PartsProofs -----------------------------
(***************************************************************************)
(* Proofs about three of the parts: the components of a widget tree, the   *)
(* timers of a program, and the bundles that programs are started from.    *)
(***************************************************************************)
EXTENDS Components, TimerHeap, RootBundle, FiniteSetTheorems, TLAPS

-----------------------------------------------------------------------------
(***************************************************************************)
(* NoneForgotten and BuiltOnce for any number of components.  The second   *)
(* needs to know the tree: the builders of a component are above it, and   *)
(* any two of them are one the builder of the other, so that the order of  *)
(* a builder is less than that of what it builds.                          *)
(***************************************************************************)

ComponentsTypeOK == /\ mounted \subseteq Components
                    /\ above \in [Components -> SUBSET Components]
                    /\ builders \in [Components -> SUBSET Components]
                    /\ dirty \subseteq Components
                    /\ dirty_components \subseteq Components
                    /\ sorted \subseteq Components
                    /\ walked \subseteq Components
                    /\ in_render \in BOOLEAN
                    /\ build_scheduled \in BOOLEAN
                    /\ built \subseteq Components
                    /\ built_twice \in BOOLEAN
                    /\ liberties \subseteq BuildLiberties

(* The list exists while the microtask runs, which empties the set of dirty components. *)
PassOK == IF in_render THEN build_scheduled /\ dirty_components = {}
          ELSE sorted = {} /\ walked = {}

(* What a build chooses, spelled out. *)
Builds(c, gone, fresh, at, marked) ==
    /\ gone \in Removable(c)
    /\ fresh \subseteq New(gone)
    /\ at \in Places(c, gone)
    /\ marked \subseteq Components \ gone
    /\ liberties \subseteq {Throws} => marked = {}
    /\ mounted' = (mounted \ gone) \cup fresh
    /\ above' = [d \in Components |-> IF d \in fresh THEN above[at[2]] \cup {at[2]} ELSE above[d]]
    /\ builders' = [d \in Components |->
           IF d \in fresh /\ c # Container THEN builders[at[1]] \cup {at[1]}
           ELSE IF d \in fresh THEN {}
           ELSE builders[d]]
    /\ dirty' = (dirty \ ({c} \cup (BuiltBy(c) \ gone) \cup fresh)) \cup marked \cup gone
    /\ Absorb(c, marked)
    /\ built' = built \cup {c} \cup (BuiltBy(c) \ gone) \cup fresh
    /\ built_twice' = (built_twice
                         \/ built \cap ({c} \cup (BuiltBy(c) \ gone) \cup fresh) # {})

LEMMA BuildChooses ==
    ASSUME ComponentsTypeOK, NEW c \in Components, Build(c)
    PROVE  \E gone, fresh, at, marked : Builds(c, gone, fresh, at, marked)
<1> DEFINE Rebuilt(gone, fresh) == (BuiltBy(c) \ gone) \cup fresh
           May(fresh) == CASE SetsState \in liberties -> (mounted \cup fresh) \ {c, Container}
                           [] liberties \cap {SetsState, Notifies} = {Notifies} ->
                                  Below(c) \ BuiltBy(c)
                           [] OTHER -> {}
<1>1. PICK gone \in Removable(c) :
      \E fresh \in {{}} \cup {{d} : d \in New(gone)} :
      \E at \in Places(c, gone) :
      \E marked \in SUBSET ((May(fresh) \ gone) \ (dirty \ Rebuilt(gone, fresh))) :
          /\ mounted' = (mounted \ gone) \cup fresh
          /\ above' = [d \in Components |-> IF d \in fresh THEN above[at[2]] \cup {at[2]}
                                            ELSE above[d]]
          /\ builders' = [d \in Components |->
                 IF d \in fresh /\ c # Container THEN builders[at[1]] \cup {at[1]}
                 ELSE IF d \in fresh THEN {}
                 ELSE builders[d]]
          /\ dirty' = (dirty \ ({c} \cup Rebuilt(gone, fresh))) \cup marked \cup gone
          /\ Absorb(c, marked)
          /\ built' = built \cup {c} \cup Rebuilt(gone, fresh)
          /\ built_twice' = (built_twice \/ built \cap ({c} \cup Rebuilt(gone, fresh)) # {})
  BY DEF Build
<1>2. PICK fresh \in {{}} \cup {{d} : d \in New(gone)}, at \in Places(c, gone) :
      \E marked \in SUBSET ((May(fresh) \ gone) \ (dirty \ Rebuilt(gone, fresh))) :
          /\ mounted' = (mounted \ gone) \cup fresh
          /\ above' = [d \in Components |-> IF d \in fresh THEN above[at[2]] \cup {at[2]}
                                            ELSE above[d]]
          /\ builders' = [d \in Components |->
                 IF d \in fresh /\ c # Container THEN builders[at[1]] \cup {at[1]}
                 ELSE IF d \in fresh THEN {}
                 ELSE builders[d]]
          /\ dirty' = (dirty \ ({c} \cup Rebuilt(gone, fresh))) \cup marked \cup gone
          /\ Absorb(c, marked)
          /\ built' = built \cup {c} \cup Rebuilt(gone, fresh)
          /\ built_twice' = (built_twice \/ built \cap ({c} \cup Rebuilt(gone, fresh)) # {})
  BY <1>1
<1>3. PICK marked \in SUBSET ((May(fresh) \ gone) \ (dirty \ Rebuilt(gone, fresh))) :
          /\ mounted' = (mounted \ gone) \cup fresh
          /\ above' = [d \in Components |-> IF d \in fresh THEN above[at[2]] \cup {at[2]}
                                            ELSE above[d]]
          /\ builders' = [d \in Components |->
                 IF d \in fresh /\ c # Container THEN builders[at[1]] \cup {at[1]}
                 ELSE IF d \in fresh THEN {}
                 ELSE builders[d]]
          /\ dirty' = (dirty \ ({c} \cup Rebuilt(gone, fresh))) \cup marked \cup gone
          /\ Absorb(c, marked)
          /\ built' = built \cup {c} \cup Rebuilt(gone, fresh)
          /\ built_twice' = (built_twice \/ built \cap ({c} \cup Rebuilt(gone, fresh)) # {})
  BY <1>2
<1>4. fresh \subseteq New(gone)
  OBVIOUS
<1>5. New(gone) \subseteq Components
  BY DEF New
<1>6. May(fresh) \subseteq Components
  BY <1>4, <1>5 DEF ComponentsTypeOK, Below
<1>7. liberties \subseteq {Throws} => May(fresh) = {}
  BY DEF Throws, SetsState, Notifies
<1>8. marked \subseteq Components \ gone /\ (liberties \subseteq {Throws} => marked = {})
  BY <1>6, <1>7
<1>9. Builds(c, gone, fresh, at, marked)
  BY <1>3, <1>4, <1>8 DEF Builds
<1>. QED  BY <1>9

(* A builder and a place are components. *)
LEMMA PlacesAreMounted ==
    ASSUME ComponentsTypeOK, NEW c \in Components, NEW gone, NEW at \in Places(c, gone)
    PROVE  at[1] \in Components /\ at[2] \in Components
BY DEF Places, ComponentsTypeOK, Below, BuiltBy

-----------------------------------------------------------------------------
(* Types, and the list *)

Sound == ComponentsTypeOK /\ PassOK

LEMMA SoundInit == ComponentsInit => Sound
BY ComponentAssumption DEF ComponentsInit, Sound, ComponentsTypeOK, PassOK

LEMMA SoundBuild ==
    ASSUME Sound, NEW c \in Components, Build(c)
    PROVE  Sound'
<1> USE DEF Sound
<1>1. PICK gone, fresh, at, marked : Builds(c, gone, fresh, at, marked)
  BY BuildChooses
<1>2. at[1] \in Components /\ at[2] \in Components
  BY <1>1, PlacesAreMounted DEF Builds
<1>3. gone \subseteq Components /\ fresh \subseteq Components /\ marked \subseteq Components
  BY <1>1 DEF Builds, Removable, New, Below, ComponentsTypeOK
<1>4. mounted' \subseteq Components /\ dirty' \subseteq Components /\ built' \subseteq Components
  BY <1>1, <1>3 DEF Builds, BuiltBy, ComponentsTypeOK
<1>5. above' \in [Components -> SUBSET Components]
  BY <1>1, <1>2 DEF Builds, ComponentsTypeOK
<1>6. builders' \in [Components -> SUBSET Components]
  BY <1>1, <1>2 DEF Builds, ComponentsTypeOK
<1>7. sorted' \subseteq Components /\ walked' \subseteq Components
        /\ dirty_components' = dirty_components
  BY <1>1, <1>3 DEF Builds, Absorb, ComponentsTypeOK
<1>8. built_twice' \in BOOLEAN
  <2>1. built_twice' = (built_twice
            \/ built \cap ({c} \cup (BuiltBy(c) \ gone) \cup fresh) # {})
    BY <1>1 DEF Builds
  <2>. QED  BY <2>1, Zenon
<1>9. in_render /\ UNCHANGED <<in_render, build_scheduled, liberties>>
  BY DEF Build, IsNext
<1>. QED  BY <1>4, <1>5, <1>6, <1>7, <1>8, <1>9 DEF ComponentsTypeOK, PassOK

LEMMA SoundNext == Sound /\ [ComponentsNext]_components_vars => Sound'
<1> SUFFICES ASSUME Sound, [ComponentsNext]_components_vars PROVE Sound'
  OBVIOUS
<1> USE DEF Sound
<1>1. ASSUME StartBuild PROVE Sound'
  BY <1>1 DEF StartBuild, ComponentsTypeOK, PassOK, tree
<1>2. ASSUME EndBuild PROVE Sound'
  <2>1. PICK marked \in SUBSET (mounted \ (dirty \cup {Container})) :
            /\ dirty' = dirty \cup marked
            /\ dirty_components' = dirty_components \cup marked
            /\ build_scheduled' = (marked # {})
    BY <1>2 DEF EndBuild
  <2>2. build_scheduled' \in BOOLEAN
    BY <2>1, Zenon
  <2>. QED  BY <1>2, <2>1, <2>2 DEF EndBuild, ComponentsTypeOK, PassOK, tree, counts
<1>3. ASSUME NEW c \in Components, PassBy(c) PROVE Sound'
  BY <1>3 DEF PassBy, IsNext, ComponentsTypeOK, PassOK, tree, counts
<1>4. ASSUME NEW c \in Components, Build(c) PROVE Sound'
  BY <1>4, SoundBuild
<1>5. ASSUME AbortBuild PROVE Sound'
  BY <1>5 DEF AbortBuild, ComponentsTypeOK, PassOK, tree, counts
<1>6. ASSUME NEW c \in Components, SetState(c) PROVE Sound'
  BY <1>6 DEF SetState, ScheduleBuild, ComponentsTypeOK, PassOK, tree, counts
<1>7. CASE UNCHANGED components_vars
  BY <1>7 DEF components_vars, tree, pass, counts, ComponentsTypeOK, PassOK
<1>. QED  BY <1>1, <1>2, <1>3, <1>4, <1>5, <1>6, <1>7 DEF ComponentsNext, Microtask

-----------------------------------------------------------------------------
(* NoneForgotten *)

LEMMA RememberedNext == Sound /\ NoneForgotten /\ [ComponentsNext]_components_vars => NoneForgotten'
<1> SUFFICES ASSUME Sound, NoneForgotten, [ComponentsNext]_components_vars PROVE NoneForgotten'
  OBVIOUS
<1> USE DEF Sound
<1>1. ASSUME StartBuild PROVE NoneForgotten'
  BY <1>1 DEF StartBuild, NoneForgotten, PassOK, tree
<1>2. ASSUME EndBuild PROVE NoneForgotten'
  <2>1. PICK marked \in SUBSET (mounted \ (dirty \cup {Container})) :
            /\ dirty' = dirty \cup marked
            /\ dirty_components' = dirty_components \cup marked
            /\ build_scheduled' = (marked # {})
    BY <1>2 DEF EndBuild
  <2>2. Throws \notin liberties => mounted \cap dirty = {}
    BY <1>2 DEF EndBuild, NoneForgotten, PassOK
  <2>. QED  BY <1>2, <2>1, <2>2 DEF EndBuild, NoneForgotten, tree
<1>3. ASSUME NEW c \in Components, PassBy(c) PROVE NoneForgotten'
  BY <1>3 DEF PassBy, NoneForgotten, tree
<1>4. ASSUME NEW c \in Components, Build(c) PROVE NoneForgotten'
  <2>1. PICK gone, fresh, at, marked : Builds(c, gone, fresh, at, marked)
    BY <1>4, BuildChooses
  <2>2. in_render /\ UNCHANGED <<in_render, build_scheduled, liberties>>
    BY <1>4 DEF Build, IsNext
  <2>3. ASSUME NEW d \in mounted' \cap dirty', Throws \notin liberties
        PROVE  d \in sorted' \ walked'
    <3>0. /\ mounted' = (mounted \ gone) \cup fresh
          /\ dirty' = (dirty \ ({c} \cup (BuiltBy(c) \ gone) \cup fresh)) \cup marked \cup gone
          /\ fresh \cap gone = {}
      BY <2>1 DEF Builds, New
    <3>1. d \in marked \/ (d \in mounted \cap dirty /\ d # c)
      BY <3>0, Zenon
    <3>2. CASE d \in marked
      BY <2>1, <3>2 DEF Builds, Absorb
    <3>3. CASE d \in mounted \cap dirty /\ d # c
      BY <2>1, <2>2, <2>3, <3>3 DEF Builds, Absorb, NoneForgotten, PassOK
    <3>. QED  BY <3>1, <3>2, <3>3
  <2>. QED  BY <2>2, <2>3 DEF NoneForgotten, PassOK
<1>5. ASSUME AbortBuild PROVE NoneForgotten'
  BY <1>5 DEF AbortBuild, NoneForgotten
<1>6. ASSUME NEW c \in Components, SetState(c) PROVE NoneForgotten'
  BY <1>6 DEF SetState, ScheduleBuild, NoneForgotten, tree
<1>7. CASE UNCHANGED components_vars
  BY <1>7 DEF components_vars, tree, pass, counts, NoneForgotten
<1>. QED  BY <1>1, <1>2, <1>3, <1>4, <1>5, <1>6, <1>7 DEF ComponentsNext, Microtask

(***************************************************************************)
(* A mounted dirty component is where the microtask finds it, and the      *)
(* microtask will run, in every program whose builds do not throw          *)
(* (_scheduleBuild and _buildDirtyComponents of widget.dart).              *)
(***************************************************************************)
THEOREM NoneIsForgotten == ComponentsSpec => []NoneForgotten
<1>1. ComponentsInit => Sound /\ NoneForgotten
  BY SoundInit DEF ComponentsInit, NoneForgotten
<1>2. Sound /\ NoneForgotten /\ [ComponentsNext]_components_vars => (Sound /\ NoneForgotten)'
  BY SoundNext, RememberedNext
<1>. QED  BY <1>1, <1>2, PTL DEF ComponentsSpec

-----------------------------------------------------------------------------
(* BuiltOnce *)

(* Between mounted components; another keeps what it had when it went. *)
TreeOK ==
    /\ Container \in mounted
    /\ above[Container] = {}
    /\ \A d \in mounted :
           /\ builders[d] \subseteq above[d]
           /\ above[d] \subseteq mounted
           /\ d \notin above[d]
           /\ \A p \in builders[d] : builders[p] \subseteq builders[d]
           /\ \A p, q \in builders[d] : p = q \/ p \in builders[q] \/ q \in builders[p]

(* Whom the walk will build has not been built, nor has what it will build along. *)
ToBuild == {c \in sorted \ walked : c \in dirty \cap mounted \/ c = Container}

FirstTime == \A c \in ToBuild : ({c} \cup BuiltBy(c)) \cap built = {}

OnceInv == /\ Sound
           /\ TreeOK
           /\ liberties \subseteq {Throws} => FirstTime /\ ~built_twice

LEMMA OrderOfBuilder ==
    ASSUME ComponentsTypeOK, TreeOK, NEW c \in mounted, NEW d \in builders[c]
    PROVE  Order(d) < Order(c)
<1>1. d \in mounted /\ d \notin builders[d] /\ builders[d] \subseteq builders[c]
  BY DEF TreeOK
<1>2. builders[c] \in SUBSET Components /\ IsFiniteSet(Components)
  BY ComponentAssumption DEF ComponentsTypeOK
<1>3. IsFiniteSet(builders[c])
  BY <1>2, FS_Subset
<1>4. builders[d] # builders[c]
  BY <1>1
<1>5. /\ IsFiniteSet(builders[d])
      /\ Cardinality(builders[d]) <= Cardinality(builders[c])
      /\ Cardinality(builders[d]) # Cardinality(builders[c])
  BY <1>1, <1>3, <1>4, FS_Subset
<1>6. Cardinality(builders[c]) \in Nat /\ Cardinality(builders[d]) \in Nat
  BY <1>3, <1>5, FS_CardinalityType
<1>. QED  BY <1>5, <1>6 DEF Order

LEMMA OrdersAreNumbers ==
    ASSUME ComponentsTypeOK, NEW c \in Components
    PROVE  Order(c) \in Int
<1>1. builders[c] \in SUBSET Components /\ IsFiniteSet(Components)
  BY ComponentAssumption DEF ComponentsTypeOK
<1>. QED  BY <1>1, FS_Subset, FS_CardinalityType DEF Order

(* Where a new component may be is still there after the build. *)
LEMMA PlacesStay ==
    ASSUME ComponentsTypeOK, TreeOK, NEW c \in mounted,
           NEW gone \in Removable(c), NEW at \in Places(c, gone)
    PROVE  /\ c \notin gone
           /\ Container \notin gone
           /\ at[1] \in mounted \ gone
           /\ at[2] \in mounted \ gone
           /\ builders[at[1]] \cup {at[1]} \subseteq above[at[2]] \cup {at[2]}
           /\ at[1] = c \/ (c \in builders[at[1]] /\ at[1] \notin gone)
           /\ above[at[2]] \cap gone = {}
           /\ \A d \in mounted \ gone : above[d] \cap gone = {}
<1>1. gone \subseteq Below(c) /\ \A d \in gone : Below(d) \subseteq gone
  BY DEF Removable
<1>2. c \notin gone
  BY <1>1 DEF Below, TreeOK
<1>3. Container \notin gone
  BY <1>1 DEF Below, TreeOK
<1>4. \A d \in mounted \ gone : above[d] \cap gone = {}
  BY <1>1 DEF Below
<1>5. /\ at[1] \in {c} \cup (BuiltBy(c) \ gone)
      /\ at[2] \in ({c} \cup Below(c)) \ gone
      /\ \/ at[2] = at[1]
         \/ at[1] \in above[at[2]] /\ builders[at[2]] = builders[at[1]] \cup {at[1]}
  BY DEF Places
<1>6. at[1] \in mounted \ gone /\ at[2] \in mounted \ gone
  BY <1>2, <1>5 DEF Below, BuiltBy
<1>7. builders[at[1]] \cup {at[1]} \subseteq above[at[2]] \cup {at[2]}
  <2>1. builders[at[2]] \subseteq above[at[2]]
    BY <1>6 DEF TreeOK
  <2>. QED  BY <1>5, <2>1
<1>8. at[1] = c \/ (c \in builders[at[1]] /\ at[1] \notin gone)
  <2>1. at[1] = c \/ (at[1] \in BuiltBy(c) /\ at[1] \notin gone)
    BY <1>5
  <2>. QED  BY <2>1, Zenon DEF BuiltBy
<1>. QED  BY <1>2, <1>3, <1>4, <1>6, <1>7, <1>8

LEMMA TreeBuild ==
    ASSUME Sound, TreeOK, NEW c \in Components, c \in mounted, NEW gone, NEW fresh, NEW at, NEW marked,
           Builds(c, gone, fresh, at, marked)
    PROVE  TreeOK'
<1>1. /\ gone \in Removable(c)
      /\ at \in Places(c, gone)
      /\ mounted' = (mounted \ gone) \cup fresh
      /\ fresh \cap (mounted \cup gone) = {}
      /\ fresh \subseteq Components
  BY DEF Builds, New
<1>2. ComponentsTypeOK
  BY DEF Sound
<1>3. /\ c \notin gone
      /\ Container \notin gone
      /\ at[1] \in mounted \ gone
      /\ at[2] \in mounted \ gone
      /\ builders[at[1]] \cup {at[1]} \subseteq above[at[2]] \cup {at[2]}
      /\ above[at[2]] \cap gone = {}
      /\ \A d \in mounted \ gone : above[d] \cap gone = {}
  BY <1>1, <1>2, PlacesStay
<1>4. ASSUME NEW d \in mounted \ gone
      PROVE  above'[d] = above[d] /\ builders'[d] = builders[d]
  BY <1>1, <1>2 DEF Builds, ComponentsTypeOK
<1>5. ASSUME NEW d \in fresh
      PROVE  /\ above'[d] = above[at[2]] \cup {at[2]}
             /\ builders'[d] = IF c # Container THEN builders[at[1]] \cup {at[1]} ELSE {}
  BY <1>1 DEF Builds
<1>6. Container \in mounted' /\ above'[Container] = {}
  BY <1>1, <1>3, <1>4 DEF TreeOK
<1>7. ASSUME NEW d \in mounted \ gone
      PROVE  /\ builders'[d] \subseteq above'[d]
             /\ above'[d] \subseteq mounted'
             /\ d \notin above'[d]
             /\ \A p \in builders'[d] : builders'[p] \subseteq builders'[d]
             /\ \A p, q \in builders'[d] : p = q \/ p \in builders'[q] \/ q \in builders'[p]
  <2>1. builders[d] \subseteq above[d] /\ above[d] \subseteq mounted \ gone /\ d \notin above[d]
    BY <1>3, <1>7 DEF TreeOK
  <2>2. \A p \in builders[d] : builders'[p] = builders[p]
    BY <2>1, <1>4
  <2>3. /\ \A p \in builders[d] : builders[p] \subseteq builders[d]
        /\ \A p, q \in builders[d] : p = q \/ p \in builders[q] \/ q \in builders[p]
    BY <1>7 DEF TreeOK
  <2>. QED  BY <1>1, <1>4, <1>7, <2>1, <2>2, <2>3
<1>8. ASSUME NEW d \in fresh
      PROVE  /\ builders'[d] \subseteq above'[d]
             /\ above'[d] \subseteq mounted'
             /\ d \notin above'[d]
             /\ \A p \in builders'[d] : builders'[p] \subseteq builders'[d]
             /\ \A p, q \in builders'[d] : p = q \/ p \in builders'[q] \/ q \in builders'[p]
  <2>1. above'[d] \subseteq mounted \ gone
    BY <1>3, <1>5, <1>8 DEF TreeOK
  <2>2. builders'[d] \subseteq above'[d]
    BY <1>3, <1>5, <1>8
  <2>3. d \notin above'[d]
    BY <1>1, <1>8, <2>1
  <2>4. \A p \in builders'[d] : builders'[p] = builders[p]
    BY <1>4, <2>1, <2>2
  <2>5. CASE c = Container
    BY <1>1, <1>5, <1>8, <2>1, <2>2, <2>3, <2>5
  <2>6. CASE c # Container
    <3>1. builders'[d] = builders[at[1]] \cup {at[1]}
      BY <1>5, <1>8, <2>6
    <3>2. /\ \A p \in builders[at[1]] : builders[p] \subseteq builders[at[1]]
          /\ \A p, q \in builders[at[1]] : p = q \/ p \in builders[q] \/ q \in builders[p]
      BY <1>3 DEF TreeOK
    <3>3. \A p \in builders'[d] : builders[p] \subseteq builders'[d]
      BY <3>1, <3>2
    <3>4. \A p, q \in builders'[d] : p = q \/ p \in builders[q] \/ q \in builders[p]
      BY <3>1, <3>2
    <3>. QED  BY <1>1, <2>1, <2>2, <2>3, <2>4, <3>3, <3>4
  <2>. QED  BY <2>5, <2>6
<1>. QED  BY <1>1, <1>6, <1>7, <1>8 DEF TreeOK

(* A component that is still to be built is not among those just built. *)
LEMMA FirstTimeBuild ==
    ASSUME Sound, TreeOK, FirstTime, ~built_twice, liberties \subseteq {Throws},
           NEW c \in Components, c \in mounted, c \in ToBuild, IsNext(c),
           NEW gone, NEW fresh, NEW at, NEW marked, Builds(c, gone, fresh, at, marked)
    PROVE  FirstTime' /\ ~built_twice'
<1>0. ComponentsTypeOK
  BY DEF Sound
<1> DEFINE now == {c} \cup (BuiltBy(c) \ gone) \cup fresh
<1>1. /\ gone \in Removable(c)
      /\ at \in Places(c, gone)
      /\ mounted' = (mounted \ gone) \cup fresh
      /\ fresh \cap (mounted \cup gone \cup sorted \cup built) = {}
      /\ fresh \subseteq Components
      /\ marked = {}
      /\ dirty' = (dirty \ now) \cup gone
      /\ sorted' = sorted
      /\ walked' = walked \cup {c}
      /\ built' = built \cup now
      /\ built_twice' = (built_twice \/ built \cap now # {})
  BY DEF Builds, New, Absorb
<1>2. built \cap now = {}
  BY <1>1 DEF FirstTime, ToBuild
<1>3. ~built_twice'
  BY <1>1, <1>2
<1>4. /\ at[1] \in mounted \ gone
      /\ c \notin gone /\ Container \notin gone
      /\ at[1] = c \/ (c \in builders[at[1]] /\ at[1] \notin gone)
  BY <1>0, <1>1, PlacesStay
<1>5. ASSUME NEW d \in ToBuild'
      PROVE  ({d} \cup BuiltBy(d)') \cap built' = {}
  <2>1. d \in sorted \ walked /\ d # c /\ d \in Components
    BY <1>0, <1>1, <1>5 DEF ToBuild, ComponentsTypeOK
  <2>2. d = Container \/ (d \in dirty \cap mounted /\ d \notin now /\ d \notin gone)
    <3>1. d = Container \/ (d \in dirty' /\ d \in mounted')
      BY <1>5 DEF ToBuild
    <3>2. d \notin fresh
      BY <1>1, <2>1
    <3>. QED  BY <1>1, <3>1, <3>2
  <2>3. d \in mounted \ gone /\ d \in ToBuild
    BY <1>4, <2>1, <2>2 DEF TreeOK, ToBuild
  <2>4. Container \notin mounted \/ \A e \in mounted : c \in builders[e] => e # Container
    BY DEF TreeOK
  <2>5. Order(c) <= Order(d)
    BY <2>1 DEF IsNext
  <2>6. d \notin builders[c]
    <3>1. d \in builders[c] => Order(d) < Order(c)
      BY <1>0, OrderOfBuilder
    <3>2. Order(c) \in Int /\ Order(d) \in Int
      BY <1>0, <2>1, OrdersAreNumbers
    <3>. QED  BY <2>5, <3>1, <3>2
  <2>7. c \notin builders[d]
    <3>1. CASE d = Container
      BY <3>1 DEF TreeOK
    <3>2. CASE d # Container
      BY <2>2, <2>3, <3>2 DEF BuiltBy
    <3>. QED  BY <3>1, <3>2
  <2>8. ASSUME NEW e \in mounted, e = c \/ c \in builders[e]
        PROVE  d \notin builders[e] /\ d # e
    BY <2>1, <2>6, <2>7, <2>8 DEF TreeOK
  <2>9. d \notin now
    BY <1>1, <2>1, <2>8 DEF BuiltBy
  <2>10. ASSUME NEW e \in BuiltBy(d)'
         PROVE  e \notin built'
    <3>1. e \in mounted' /\ d \in builders'[e]
      BY <2>10 DEF BuiltBy
    <3>2. CASE e \in fresh
      <4>1. builders'[e] = IF c # Container THEN builders[at[1]] \cup {at[1]} ELSE {}
        BY <1>1, <3>2 DEF Builds
      <4>2. d \in builders[at[1]] \/ d = at[1]
        BY <3>1, <4>1
      <4>. QED  BY <1>4, <2>8, <4>2
    <3>3. CASE e \in mounted \ gone
      <4>1. builders'[e] = builders[e]
        BY <1>0, <1>1, <3>3 DEF Builds, ComponentsTypeOK
      <4>2. e \in BuiltBy(d)
        BY <3>1, <3>3, <4>1 DEF BuiltBy
      <4>3. e \notin built
        BY <2>3, <4>2 DEF FirstTime
      <4>4. e # c /\ e \notin BuiltBy(c)
        BY <2>8, <3>1, <3>3, <4>1 DEF BuiltBy
      <4>. QED  BY <1>1, <3>3, <4>3, <4>4
    <3>. QED  BY <1>1, <3>1, <3>2, <3>3
  <2>11. d \notin built
    BY <2>3 DEF FirstTime
  <2>. QED  BY <1>1, <2>9, <2>10, <2>11
<1>. QED  BY <1>3, <1>5 DEF FirstTime

LEMMA OnceNext == OnceInv /\ [ComponentsNext]_components_vars => OnceInv'
<1> SUFFICES ASSUME OnceInv, [ComponentsNext]_components_vars PROVE OnceInv'
  OBVIOUS
<1>0. Sound' /\ Sound /\ TreeOK
  BY SoundNext DEF OnceInv
<1>1. ASSUME StartBuild PROVE OnceInv'
  BY <1>0, <1>1 DEF StartBuild, OnceInv, TreeOK, FirstTime, tree
<1>2. ASSUME EndBuild PROVE OnceInv'
  <2>1. sorted' = {} /\ UNCHANGED <<tree, counts, liberties>>
    BY <1>2 DEF EndBuild
  <2>. QED  BY <1>0, <2>1 DEF OnceInv, TreeOK, FirstTime, ToBuild, tree, counts
<1>3. ASSUME NEW c \in Components, PassBy(c) PROVE OnceInv'
  <2>1. /\ walked' = walked \cup {c}
        /\ UNCHANGED <<tree, dirty, sorted, counts, liberties>>
    BY <1>3 DEF PassBy
  <2>2. ToBuild' \subseteq ToBuild /\ \A d \in Components : BuiltBy(d)' = BuiltBy(d)
    BY <2>1 DEF ToBuild, BuiltBy, tree
  <2>3. ToBuild \subseteq Components
    BY <1>0 DEF Sound, ComponentsTypeOK, ToBuild
  <2>4. FirstTime => FirstTime'
    BY <2>1, <2>2, <2>3 DEF FirstTime, counts
  <2>. QED  BY <1>0, <2>1, <2>4 DEF OnceInv, TreeOK, tree, counts
<1>4. ASSUME NEW c \in Components, Build(c) PROVE OnceInv'
  <2>1. PICK gone, fresh, at, marked : Builds(c, gone, fresh, at, marked)
    BY <1>0, <1>4, BuildChooses DEF Sound
  <2>2. IsNext(c) /\ c \in ToBuild /\ c \in mounted /\ liberties' = liberties
    BY <1>0, <1>4 DEF Build, IsNext, ToBuild, TreeOK
  <2>3. TreeOK'
    BY <1>0, <2>1, <2>2, TreeBuild
  <2>4. liberties \subseteq {Throws} => FirstTime' /\ ~built_twice'
    BY <1>0, <2>1, <2>2, FirstTimeBuild DEF OnceInv
  <2>. QED  BY <1>0, <2>2, <2>3, <2>4 DEF OnceInv
<1>5. ASSUME AbortBuild PROVE OnceInv'
  <2>1. sorted' = {} /\ UNCHANGED <<tree, counts, liberties>>
    BY <1>5 DEF AbortBuild
  <2>. QED  BY <1>0, <2>1 DEF OnceInv, TreeOK, FirstTime, ToBuild, tree, counts
<1>6. ASSUME NEW c \in Components, SetState(c) PROVE OnceInv'
  <2>1. sorted' = {} /\ UNCHANGED <<tree, counts, liberties>>
    BY <1>0, <1>6 DEF SetState, Sound, PassOK
  <2>. QED  BY <1>0, <2>1 DEF OnceInv, TreeOK, FirstTime, ToBuild, tree, counts
<1>7. CASE UNCHANGED components_vars
  <2>1. UNCHANGED <<mounted, above, builders, dirty, sorted, walked, built, built_twice, liberties>>
    BY <1>7 DEF components_vars, tree, pass, counts
  <2>. QED  BY <1>0, <2>1 DEF OnceInv, TreeOK, FirstTime, ToBuild, BuiltBy
<1>. QED  BY <1>1, <1>2, <1>3, <1>4, <1>5, <1>6, <1>7 DEF ComponentsNext, Microtask

(***************************************************************************)
(* However many components there are: in a program that sets state between *)
(* builds, the walk in the order of _order builds each of them once        *)
(* (_buildDirtyComponents and _sync of widget.dart).                       *)
(***************************************************************************)
THEOREM EachIsBuiltOnce == ComponentsSpec => []BuiltOnce
<1>1. ComponentsInit => OnceInv
  <2>1. ASSUME ComponentsInit PROVE TreeOK /\ FirstTime /\ ~built_twice
    BY <2>1, ComponentAssumption DEF ComponentsInit, TreeOK, FirstTime, ToBuild
  <2>. QED  BY <2>1, SoundInit DEF OnceInv
<1>2. OnceInv => BuiltOnce
  BY DEF OnceInv, BuiltOnce
<1>. QED  BY <1>1, <1>2, OnceNext, PTL DEF ComponentsSpec

-----------------------------------------------------------------------------
(***************************************************************************)
(* ActiveTimersRun for any number of timers.  A task of the message loop   *)
(* outlives the entry of the heap it was posted for, never the other way   *)
(* round, and ids are not given twice: that is the inductive invariant.    *)
(***************************************************************************)

Given == 1..(next_timer_id - 1)

TimersTypeOK == /\ next_timer_id \in Nat \ {0}
                /\ heap \subseteq Given
                /\ repeating \subseteq Given
                /\ posted \subseteq Given
                /\ running \in Given \cup {0}
                /\ active \subseteq Given
                /\ cancels_itself \in BOOLEAN

(* Whoever is in the heap has a task to come, and nobody runs twice at a time. *)
TasksAreComing == heap \subseteq posted /\ running \notin posted

ActiveAre == ~cancels_itself => active = heap \cup (repeating \cap {running})

TimersInv == TimersTypeOK /\ TasksAreComing /\ ActiveAre

LEMMA TimersInitEstablishes == TimersInit => TimersInv
  BY DEF TimersInit, TimersInv, TimersTypeOK, TasksAreComing, ActiveAre, Given

LEMMA TimersStepPreserves == TimersInv /\ [TimersNext]_timers_vars => TimersInv'
<1> SUFFICES ASSUME TimersInv, [TimersNext]_timers_vars PROVE TimersInv'
  OBVIOUS
<1> USE DEF TimersInv, TimersTypeOK, TasksAreComing, ActiveAre, Given
<1>1. ASSUME NEW repeats \in BOOLEAN, Add(repeats) PROVE TimersInv'
  <2>1. next_timer_id' \in Nat \ {0} /\ Given \subseteq Given' /\ next_timer_id \in Given'
    BY <1>1 DEF Add
  <2>2. next_timer_id \notin Given /\ next_timer_id # 0
    OBVIOUS
  <2>3. TimersTypeOK'
    BY <1>1, <2>1 DEF Add
  <2>4. repeating' \cap {running'} = repeating \cap {running}
    BY <1>1, <2>2 DEF Add
  <2>. QED  BY <1>1, <2>2, <2>3, <2>4 DEF Add
<1>2. ASSUME NEW id \in 1..MaxTimers, Cancel(id) PROVE TimersInv'
  BY <1>2 DEF Cancel, RemoveTimer
<1>3. ASSUME NEW id \in 1..MaxTimers, Run(id) PROVE TimersInv'
  <2>1. CASE id \in heap
    <3>1. TimersTypeOK' /\ TasksAreComing'
      BY <1>3, <2>1 DEF Run
    <3>2. ActiveAre'
      BY <1>3, <2>1 DEF Run
    <3>. QED  BY <3>1, <3>2
  <2>2. CASE id \notin heap
    BY <1>3, <2>2 DEF Run
  <2>. QED  BY <2>1, <2>2
<1>4. CASE EndRun
  BY <1>4 DEF EndRun
<1>5. CASE UNCHANGED timers_vars
  BY <1>5 DEF timers_vars
<1>. QED  BY <1>1, <1>2, <1>3, <1>4, <1>5 DEF TimersNext

(***************************************************************************)
(* However many timers there are, unless one is cancelled from its own     *)
(* closure those that will run (DartTimerHeap::Run) are the active ones.   *)
(***************************************************************************)
THEOREM TimersRun == TimersSpec => []ActiveTimersRun
<1>1. TimersInv => ActiveTimersRun
  BY DEF TimersInv, TimersTypeOK, TasksAreComing, ActiveAre, ActiveTimersRun, Given
<1>. QED  BY <1>1, TimersInitEstablishes, TimersStepPreserves, PTL DEF TimersSpec

-----------------------------------------------------------------------------
(***************************************************************************)
(* NeverGoesBack and ProgramHasItsBundle for any number of programs.  In a *)
(* program that runs from bundles only, the one bundle that is waited for  *)
(* is the one the engine has a pipe to, and it is the last one asked for.  *)
(***************************************************************************)

BundlesTypeOK == /\ asked \in Nat
                 /\ root_bundle \in 0..asked
                 /\ waiting \subseteq 1..asked
                 /\ isolate \in [program : 0..asked, bundle : 0..asked]
                 /\ mixes \in BOOLEAN

OnlyTheLastIsAwaited ==
    ~mixes => /\ waiting \subseteq {root_bundle}
              /\ root_bundle # 0 => root_bundle > isolate.program
              /\ isolate.bundle = isolate.program

BundlesInv == BundlesTypeOK /\ OnlyTheLastIsAwaited

LEMMA BundlesInitEstablishes == BundlesInit => BundlesInv
  BY DEF BundlesInit, BundlesInv, BundlesTypeOK, OnlyTheLastIsAwaited

(* A step that starts no program leaves the isolate alone; one that does goes forward. *)
LEMMA BundlesStepPreserves ==
    ASSUME BundlesInv, [BundlesNext]_bundles_vars
    PROVE  /\ BundlesInv'
           /\ ~mixes => isolate'.program > isolate.program \/ isolate' = isolate
<1> USE DEF BundlesInv, BundlesTypeOK, OnlyTheLastIsAwaited
<1>1. CASE RunFromBundle
  <2>1. root_bundle' = asked + 1 /\ asked' = asked + 1 /\ isolate' = isolate /\ mixes' = mixes
    BY <1>1 DEF RunFromBundle, Bind
  <2>2. waiting' = (waiting \ {root_bundle}) \cup {asked + 1}
    BY <1>1 DEF RunFromBundle, Bind
  <2>3. BundlesTypeOK'
    BY <2>1, <2>2
  <2>4. isolate.program <= asked /\ asked \in Nat
    OBVIOUS
  <2>5. ~mixes' => waiting' \subseteq {root_bundle'}
    BY <2>1, <2>2
  <2>6. isolate'.program = isolate.program /\ isolate'.bundle = isolate.bundle
    BY <2>1
  <2>7. ~mixes' => isolate'.bundle = isolate'.program
    BY <2>1, <2>6
  <2>8. root_bundle' > isolate'.program
    BY <2>1, <2>4, <2>6
  <2>9. OnlyTheLastIsAwaited'
    BY <2>5, <2>7, <2>8
  <2>. QED  BY <2>1, <2>3, <2>9, Zenon
<1>2. CASE RunFromLibrary
  <2>1. mixes /\ mixes' = mixes
    BY <1>2 DEF RunFromLibrary
  <2>2. /\ asked' = asked + 1
        /\ isolate' = [program |-> asked + 1, bundle |-> root_bundle]
        /\ root_bundle' = 0
        /\ waiting' \subseteq waiting
    BY <1>2 DEF RunFromLibrary, CreateView
  <2>3. BundlesTypeOK'
    BY <2>1, <2>2
  <2>. QED  BY <2>1, <2>3, Zenon
<1>3. CASE TakeRootBundleHandle
  BY <1>3 DEF TakeRootBundleHandle
<1>4. ASSUME NEW n \in 1..MaxPrograms, RunFromSnapshotStream(n)
      PROVE  /\ BundlesInv'
             /\ ~mixes => isolate'.program > isolate.program \/ isolate' = isolate
  <2>1. n \in waiting /\ n \in 1..asked /\ asked' = asked /\ mixes' = mixes
    BY <1>4 DEF RunFromSnapshotStream
  <2>2. /\ isolate' = [program |-> n, bundle |-> root_bundle]
        /\ root_bundle' = 0
        /\ waiting' \subseteq waiting \ {n}
    BY <1>4 DEF RunFromSnapshotStream, CreateView
  <2>3. BundlesTypeOK'
    BY <2>1, <2>2
  <2>4. CASE mixes
    BY <2>1, <2>3, <2>4
  <2>5. CASE ~mixes
    <3>1. n = root_bundle /\ n > isolate.program /\ waiting' = {}
      BY <2>1, <2>2, <2>5
    <3>. QED  BY <2>1, <2>2, <2>3, <3>1
  <2>. QED  BY <2>4, <2>5
<1>5. ASSUME NEW n \in 1..MaxPrograms, NEW success \in BOOLEAN,
             OnZippedAssetsAvailable(n, success) \/ OnUnzippedAssetsAvailable(n, success)
      PROVE  /\ BundlesInv'
             /\ ~mixes => isolate'.program > isolate.program \/ isolate' = isolate
  BY <1>5 DEF OnZippedAssetsAvailable, OnUnzippedAssetsAvailable
<1>6. CASE UNCHANGED bundles_vars
  BY <1>6 DEF bundles_vars
<1>. QED  BY <1>1, <1>2, <1>3, <1>4, <1>5, <1>6 DEF BundlesNext

(***************************************************************************)
(* However many bundles are asked for, and in whatever order their jobs    *)
(* end (AssetUnpackerJob), the engine never starts an older one.           *)
(***************************************************************************)
THEOREM RunsGoForward == BundlesSpec => NeverGoesBack
<1>1. BundlesInv /\ [BundlesNext]_bundles_vars
        => [~mixes => isolate'.program > isolate.program \/ isolate' = isolate]_bundles_vars
  BY BundlesStepPreserves
<1>. QED  BY <1>1, BundlesInitEstablishes, BundlesStepPreserves, PTL DEF BundlesSpec, NeverGoesBack

(***************************************************************************)
(* The isolate of a program from a bundle is given that bundle             *)
(* (Engine::DidCreateIsolate).                                             *)
(***************************************************************************)
THEOREM BundlesGoToTheirPrograms == BundlesSpec => []ProgramHasItsBundle
<1>1. BundlesInv => ProgramHasItsBundle
  BY DEF BundlesInv, OnlyTheLastIsAwaited, ProgramHasItsBundle
<1>. QED  BY <1>1, BundlesInitEstablishes, BundlesStepPreserves, PTL DEF BundlesSpec
=============================================================================
