--------------------------- MODULE LayerHostProofs ---------------------------
(***************************************************************************)
(* Proofs about LayerHost for any sizes, ids and textures.                 *)
(***************************************************************************)
EXTENDS LayerHost, TLAPS

(***************************************************************************)
(* The part of the type invariant the scheduling argument needs.           *)
(***************************************************************************)
SchedulingTypeOK ==
    /\ state \in {Ready, Waiting}
    /\ frame_requested \in BOOLEAN
    /\ begin_posted \in Nat
    /\ complete_posted \in Nat
    /\ unacked \in Nat
    /\ frame \in {0, 1}

SchedulingInv == SchedulingTypeOK /\ TasksMatchState

(***************************************************************************)
(* What BeginFrame does to the scheduling state, whatever it uploads.      *)
(***************************************************************************)
LEMMA BeginFrameEffect ==
    ASSUME NEW again \in BOOLEAN, NEW completions \in Nat, NEW acks \in Nat,
           BeginFrame(again, completions, acks)
    PROVE  /\ frame_requested' = again
           /\ state' = Waiting
           /\ frame' = 1 - frame
           /\ complete_posted' \in Nat
           /\ unacked' \in Nat
           /\ complete_posted' + unacked' = completions + acks + 1
<1>1. CASE physical_size = EmptySize
  BY <1>1 DEF BeginFrame
<1>2. CASE physical_size # EmptySize
  <2>1. complete_posted' = completions /\ unacked' = acks + 1
    BY <1>2 DEF BeginFrame, Upload
  <2>2. QED
    BY <2>1 DEF BeginFrame
<1>3. QED
  BY <1>1, <1>2

(***************************************************************************)
(* What DidCompleteFrame does to it.                                       *)
(***************************************************************************)
LEMMA DidCompleteFrameEffect ==
    ASSUME NEW again \in BOOLEAN, NEW completions \in Nat, NEW acks \in Nat,
           DidCompleteFrame(again, completions, acks)
    PROVE  \/ /\ frame_requested
              /\ frame_requested' = again
              /\ state' = Waiting
              /\ frame' = 1 - frame
              /\ complete_posted' \in Nat
              /\ unacked' \in Nat
              /\ complete_posted' + unacked' = completions + acks + 1
           \/ /\ ~frame_requested
              /\ frame_requested' = frame_requested
              /\ state' = Ready
              /\ frame' = frame
              /\ complete_posted' = completions
              /\ unacked' = acks
BY BeginFrameEffect DEF DidCompleteFrame

LEMMA SchedulingStep ==
    ASSUME SchedulingInv, [Next]_vars
    PROVE  SchedulingInv'
<1> USE DEF SchedulingInv, SchedulingTypeOK, TasksMatchState, Ready, Waiting
<1>1. CASE SetNeedsAnimate
  BY <1>1 DEF SetNeedsAnimate
<1>2. CASE RunBeginFrame
  <2>1. PICK again \in BOOLEAN : BeginFrame(again, complete_posted, unacked)
    BY <1>2 DEF RunBeginFrame
  <2>2. begin_posted > 0 /\ begin_posted' = begin_posted - 1
    BY <1>2 DEF RunBeginFrame
  <2>3. QED
    BY <2>1, <2>2, BeginFrameEffect
<1>3. CASE RunDidCompleteFrame
  <2>1. complete_posted > 0 /\ UNCHANGED begin_posted
    BY <1>3 DEF RunDidCompleteFrame
  <2>2. PICK again \in BOOLEAN :
            DidCompleteFrame(again, complete_posted - 1, unacked)
    BY <1>3 DEF RunDidCompleteFrame
  <2>3. complete_posted - 1 \in Nat
    BY <2>1
  <2>4. QED
    BY <2>1, <2>2, <2>3, DidCompleteFrameEffect
<1>4. CASE AcknowledgeFrame
  <2>1. unacked > 0 /\ UNCHANGED begin_posted
    BY <1>4 DEF AcknowledgeFrame
  <2>2. PICK again \in BOOLEAN :
            DidCompleteFrame(again, complete_posted, unacked - 1)
    BY <1>4 DEF AcknowledgeFrame
  <2>3. unacked - 1 \in Nat
    BY <2>1
  <2>4. QED
    BY <2>1, <2>2, <2>3, DidCompleteFrameEffect
<1>5. CASE ServiceReturnsResources
  BY <1>5 DEF ServiceReturnsResources, scheduling
<1>6. CASE SetIdNamespace
  BY <1>6 DEF SetIdNamespace, scheduling
<1>7. CASE OnViewBoundsChanged
  BY <1>7 DEF OnViewBoundsChanged, scheduling
<1>8. CASE OnViewDestroyed
  BY <1>8 DEF OnViewDestroyed, scheduling
<1>9. CASE UNCHANGED vars
  BY <1>9 DEF vars, scheduling
<1>10. QED
  BY <1>1, <1>2, <1>3, <1>4, <1>5, <1>6, <1>7, <1>8, <1>9 DEF Next

(***************************************************************************)
(* The tasks outstanding always agree with the state of the host, so no    *)
(* DCHECK of LayerHost::BeginFrame or DidCompleteFrame can fail.           *)
(***************************************************************************)
THEOREM SchedulingInvariant == SafeSpec => [](SchedulingInv)
<1>1. Init => SchedulingInv
  <2> SUFFICES ASSUME Init
               PROVE  SchedulingInv
    OBVIOUS
  <2>1. SchedulingTypeOK
    BY DEF Init, SchedulingTypeOK
  <2>2. TasksMatchState
    BY DEF Init, TasksMatchState, Ready, Waiting
  <2>3. QED
    BY <2>1, <2>2 DEF SchedulingInv
<1>2. SchedulingInv /\ [Next]_vars => SchedulingInv'
  BY SchedulingStep
<1>3. QED
  BY <1>1, <1>2, PTL DEF SafeSpec

THEOREM TasksAlwaysMatchState == SafeSpec => []TasksMatchState
<1>1. SchedulingInv => TasksMatchState
  BY DEF SchedulingInv
<1>2. QED
  BY <1>1, SchedulingInvariant, PTL
-----------------------------------------------------------------------------
(* LayerHost implements FrameScheduler: the step-by-step part. *)

LEMMA DidCompleteFrameRefines ==
    ASSUME SchedulingInv, NEW again \in BOOLEAN,
           NEW completions \in Nat, NEW acks \in Nat,
           completions + acks + 1 = complete_posted + unacked,
           DidCompleteFrame(again, completions, acks)
    PROVE  FS!Finish \/ FS!FinishAndBegin
<1>1. state = Waiting /\ complete_posted + unacked = 1
  BY DEF SchedulingInv, SchedulingTypeOK, TasksMatchState, Ready, Waiting
<1>2. CASE frame_requested
  BY <1>1, <1>2, DidCompleteFrameEffect DEF FS!FinishAndBegin
<1>3. CASE ~frame_requested
  BY <1>1, <1>3, DidCompleteFrameEffect DEF FS!Finish
<1>4. QED
  BY <1>2, <1>3

LEMMA RefinementStep ==
    ASSUME SchedulingInv, [Next]_vars
    PROVE  [FS!Next]_(FS!vars)
<1> USE DEF SchedulingInv, SchedulingTypeOK
<1>1. CASE SetNeedsAnimate
  BY <1>1 DEF SetNeedsAnimate, FS!Request, FS!Next
<1>2. CASE RunBeginFrame
  <2>1. PICK again \in BOOLEAN : BeginFrame(again, complete_posted, unacked)
    BY <1>2 DEF RunBeginFrame
  <2>2. frame_requested /\ complete_posted + unacked = 0
    <3>1. begin_posted > 0
      BY <1>2 DEF RunBeginFrame
    <3>2. state = Ready /\ frame_requested
      BY <3>1 DEF TasksMatchState
    <3>3. QED
      BY <3>2 DEF TasksMatchState, Ready, Waiting
  <2>3. /\ frame_requested' \in BOOLEAN
        /\ frame' = 1 - frame
        /\ complete_posted' + unacked' = complete_posted + unacked + 1
    BY <2>1, BeginFrameEffect
  <2>4. FS!Begin
    BY <2>2, <2>3 DEF FS!Begin
  <2>5. QED
    BY <2>4 DEF FS!Next
<1>3. CASE RunDidCompleteFrame
  <2>1. PICK again \in BOOLEAN :
            DidCompleteFrame(again, complete_posted - 1, unacked)
    BY <1>3 DEF RunDidCompleteFrame
  <2>2. /\ complete_posted - 1 \in Nat
        /\ complete_posted - 1 + unacked + 1 = complete_posted + unacked
    BY <1>3 DEF RunDidCompleteFrame
  <2>3. FS!Finish \/ FS!FinishAndBegin
    BY <2>1, <2>2, DidCompleteFrameRefines
  <2>4. QED
    BY <2>3 DEF FS!Next
<1>4. CASE AcknowledgeFrame
  <2>1. PICK again \in BOOLEAN :
            DidCompleteFrame(again, complete_posted, unacked - 1)
    BY <1>4 DEF AcknowledgeFrame
  <2>2. /\ unacked - 1 \in Nat
        /\ complete_posted + (unacked - 1) + 1 = complete_posted + unacked
    BY <1>4 DEF AcknowledgeFrame
  <2>3. FS!Finish \/ FS!FinishAndBegin
    BY <2>1, <2>2, DidCompleteFrameRefines
  <2>4. QED
    BY <2>3 DEF FS!Next
<1>5. CASE UNCHANGED scheduling
  BY <1>5 DEF scheduling, FS!vars
<1>6. QED
  <2>1. ServiceReturnsResources \/ SetIdNamespace \/ OnViewBoundsChanged
          \/ OnViewDestroyed \/ UNCHANGED vars => UNCHANGED scheduling
    BY DEF ServiceReturnsResources, SetIdNamespace, OnViewBoundsChanged,
           OnViewDestroyed, vars
  <2>2. QED
    BY <1>1, <1>2, <1>3, <1>4, <1>5, <2>1 DEF Next

(***************************************************************************)
(* Every behaviour of the layer host is one of the frame scheduler: frames *)
(* begin only when asked for, and one at a time.                           *)
(***************************************************************************)
THEOREM LayerHostIsFrameScheduler == SafeSpec => FS!SafeSpec
<1>1. Init => FS!Init
  <2> SUFFICES ASSUME Init
               PROVE  FS!Init
    OBVIOUS
  <2>1. QED
    BY DEF Init, FS!Init
<1>2. SchedulingInv /\ [Next]_vars => [FS!Next]_(FS!vars)
  BY RefinementStep
<1>3. QED
  BY <1>1, <1>2, SchedulingInvariant, PTL DEF SafeSpec, FS!SafeSpec
-----------------------------------------------------------------------------
(***************************************************************************)
(* Surfaces, textures and resources.  What is outside the scheduling state *)
(* changes in four ways: a picture is uploaded, resources come back, the   *)
(* namespace arrives, or the view changes.                                 *)
(***************************************************************************)
content == <<document, holder, manager, service, embedded_id>>

Uploads == \E acks \in Nat : Upload(physical_size, acks) /\ physical_size # EmptySize /\ UNCHANGED document

LEMMA ContentStep ==
    ASSUME SchedulingInv, [Next]_vars
    PROVE  \/ Uploads
           \/ ServiceReturnsResources
           \/ SetIdNamespace
           \/ OnViewBoundsChanged
           \/ OnViewDestroyed
           \/ UNCHANGED content
<1>1. ASSUME NEW again \in BOOLEAN, NEW completions, NEW acks \in Nat,
             BeginFrame(again, completions, acks)
      PROVE  Uploads \/ UNCHANGED content
  BY <1>1 DEF BeginFrame, Uploads, content
<1>2. ASSUME NEW again \in BOOLEAN, NEW completions, NEW acks \in Nat,
             DidCompleteFrame(again, completions, acks)
      PROVE  Uploads \/ UNCHANGED content
  BY <1>1, <1>2 DEF DidCompleteFrame, content
<1>3. unacked \in Nat /\ (unacked > 0 => unacked - 1 \in Nat)
  BY DEF SchedulingInv, SchedulingTypeOK
<1>4. CASE SetNeedsAnimate
  BY <1>4 DEF SetNeedsAnimate, content
<1>5. CASE RunBeginFrame
  BY <1>1, <1>3, <1>5 DEF RunBeginFrame
<1>6. CASE RunDidCompleteFrame
  BY <1>2, <1>3, <1>6 DEF RunDidCompleteFrame
<1>7. CASE AcknowledgeFrame
  BY <1>2, <1>3, <1>7 DEF AcknowledgeFrame
<1>8. CASE UNCHANGED vars
  BY <1>8 DEF vars, content
<1>. QED  BY <1>4, <1>5, <1>6, <1>7, <1>8 DEF Next

-----------------------------------------------------------------------------
(***************************************************************************)
(* The surface.  No id is announced before the namespace is known, so that *)
(* the first announcement has nothing to correct.                          *)
(***************************************************************************)
AnySize == Sizes \cup {EmptySize}

SurfaceTypeOK == /\ physical_size \in AnySize
                 /\ root \in BOOLEAN
                 /\ local_id \in SurfaceIds \cup {NoSurface}
                 /\ surface_size \in AnySize
                 /\ id_namespace_known \in BOOLEAN
                 /\ embedded_id \in SurfaceIds \cup {NoSurface}

SurfaceInv == /\ SurfaceTypeOK
              /\ OneLiveSurface
              /\ EmbedderShowsCurrentSurface
              /\ ~id_namespace_known => embedded_id = NoSurface

LEMMA NextId ==
    ASSUME NEW id \in Nat, NEW n \in Nat \ {0}
    PROVE  (id % n) + 1 \in 1 .. n
  BY SMT

LEMMA SurfaceStep ==
    ASSUME SchedulingInv, SurfaceInv, [Next]_vars
    PROVE  SurfaceInv'
<1>. USE DEF SurfaceInv, SurfaceTypeOK, OneLiveSurface, EmbedderShowsCurrentSurface, NoSurface
<1>1. CASE Uploads
  <2>1. SetSize(physical_size) /\ UNCHANGED <<physical_size, root, id_namespace_known>>
    BY <1>1 DEF Uploads, Upload, document
  <2>2. (local_id % IdSpace) + 1 \in SurfaceIds /\ 0 \notin SurfaceIds
    BY NextId, LayerHostAssumption DEF SurfaceIds
  <2>3. CASE UNCHANGED <<local_id, surface_size, surfaces, embedded_id>>
    BY <2>1, <2>3
  <2>4. CASE /\ local_id' = (local_id % IdSpace) + 1
             /\ surfaces' = (surfaces \ {local_id}) \cup {local_id'}
             /\ surface_size' = physical_size
             /\ IF id_namespace_known THEN SetQualifiedId(local_id')
                                      ELSE UNCHANGED embedded_id
    BY <2>1, <2>2, <2>4 DEF SetQualifiedId
  <2>. QED  BY <2>1, <2>3, <2>4 DEF SetSize
<1>2. CASE ServiceReturnsResources
  BY <1>2 DEF ServiceReturnsResources, document, holder
<1>3. CASE SetIdNamespace
  <2>1. id_namespace_known' \in BOOLEAN /\ id_namespace_known'
    BY <1>3, Zenon DEF SetIdNamespace
  <2>. QED  BY <1>3, <2>1 DEF SetIdNamespace, SetQualifiedId, document, service
<1>4. CASE OnViewBoundsChanged
  BY <1>4 DEF OnViewBoundsChanged, AnySize, holder, service
<1>5. CASE OnViewDestroyed
  <2>1. root' \in BOOLEAN /\ ~root'
    BY <1>5, Zenon DEF OnViewDestroyed
  <2>. QED  BY <1>5, <2>1 DEF OnViewDestroyed, holder, service
<1>6. CASE UNCHANGED content
  BY <1>6 DEF content, document, holder, service
<1>. QED  BY <1>1, <1>2, <1>3, <1>4, <1>5, <1>6, ContentStep

(***************************************************************************)
(* Frames go to the one surface the holder believes it has                 *)
(* (OneLiveSurface), and the embedder shows it                             *)
(* (EmbedderShowsCurrentSurface), whatever comes first: the namespace, the *)
(* first frame or a new size.                                              *)
(***************************************************************************)
THEOREM SurfaceInvariant == SafeSpec => []SurfaceInv
<1>1. Init => SurfaceInv
  <2>. SUFFICES ASSUME Init PROVE SurfaceInv
    OBVIOUS
  <2>1. /\ root \in BOOLEAN
        /\ id_namespace_known \in BOOLEAN
        /\ ~id_namespace_known
    BY Zenon DEF Init
  <2>2. /\ physical_size \in AnySize
        /\ surface_size \in AnySize
        /\ local_id = NoSurface
        /\ surfaces = {}
        /\ embedded_id = NoSurface
    BY DEF Init, AnySize
  <2>. QED  BY <2>1, <2>2, Zenon
            DEF SurfaceInv, SurfaceTypeOK, OneLiveSurface, EmbedderShowsCurrentSurface
<1>. QED  BY <1>1, SurfaceStep, SchedulingInvariant, PTL DEF SafeSpec

THEOREM ServiceHasOneSurface == SafeSpec => []OneLiveSurface
<1>1. SurfaceInv => OneLiveSurface
  BY DEF SurfaceInv
<1>. QED  BY <1>1, SurfaceInvariant, PTL

THEOREM EmbedderIsUpToDate == SafeSpec => []EmbedderShowsCurrentSurface
<1>1. SurfaceInv => EmbedderShowsCurrentSurface
  BY DEF SurfaceInv
<1>. QED  BY <1>1, SurfaceInvariant, PTL

-----------------------------------------------------------------------------
(***************************************************************************)
(* Textures and resources.  The cache holds textures of one size only, so  *)
(* that whatever CreateTexture finds fits; and no two of them are the      *)
(* same, so that taking one leaves none behind under its name.             *)
(***************************************************************************)
TextureTypeOK == /\ next_resource_id \in ResourceIds
                 /\ DOMAIN resource_to_texture_map \subseteq ResourceIds
                 /\ \A r \in DOMAIN resource_to_texture_map : resource_to_texture_map[r] \in Texture
                 /\ available_textures \subseteq Texture
                 /\ cache_size \in AnySize
                 /\ shown \in ResourceIds \cup {NoResource}

CacheOK == /\ \A t \in available_textures : t.size = cache_size
           /\ \A t, u \in available_textures : t.name = u.name => t = u

TextureInv == TextureTypeOK /\ CacheOK /\ TextureHasOneOwner /\ FrameFitsSurface

LEMMA NextResource ==
    ASSUME TextureTypeOK
    PROVE  /\ (next_resource_id + 1) % (IdSpace + 1) \in ResourceIds
           /\ NoResource \notin ResourceIds
  BY LayerHostAssumption DEF TextureTypeOK, ResourceIds, NoResource

(* What CreateTexture hands out: nobody else has it, and it has the size asked for. *)
LEMMA CreatedTexture ==
    ASSUME TextureInv, NEW size, NEW texture \in Texture, CreateTexture(size, texture)
    PROVE  /\ texture.size = size
           /\ \A r \in DOMAIN resource_to_texture_map :
                  resource_to_texture_map[r].name # texture.name
           /\ available_textures' \subseteq available_textures
           /\ \A t \in available_textures' : t.name # texture.name /\ t.size = size
           /\ cache_size' = size
<1>. USE DEF TextureInv, CacheOK, TextureHasOneOwner
<1>1. CASE GetTexture(size, texture)
  <2>1. /\ cache_size' = size
        /\ size = cache_size
        /\ texture \in available_textures
        /\ available_textures' = available_textures \ {texture}
    BY <1>1 DEF GetTexture, Usable
  <2>. QED  BY <2>1
<1>2. CASE /\ texture.name \in FreeNames
           /\ texture.size = size
           /\ cache_size' = size
           /\ available_textures' = {}
  BY <1>2 DEF FreeNames, MappedTextures
<1>. QED  BY <1>1, <1>2 DEF CreateTexture

LEMMA TextureUpload ==
    ASSUME TextureInv, SurfaceInv, Uploads
    PROVE  TextureInv'
<1>1. PICK texture \in Texture : /\ CreateTexture(physical_size, texture)
                                 /\ CreateTransferableResource(texture)
  BY DEF Uploads, Upload
<1>2. /\ shown' = next_resource_id
      /\ held' = held \cup {next_resource_id}
      /\ surface_size' = physical_size
  BY DEF Uploads, Upload, SetSize
<1>3. /\ texture.size = physical_size
      /\ \A r \in DOMAIN resource_to_texture_map : resource_to_texture_map[r].name # texture.name
      /\ available_textures' \subseteq available_textures
      /\ \A t \in available_textures' : t.name # texture.name /\ t.size = physical_size
      /\ cache_size' = physical_size
  BY <1>1, CreatedTexture
<1>4. /\ DOMAIN resource_to_texture_map' = DOMAIN resource_to_texture_map \cup {next_resource_id}
      /\ resource_to_texture_map'[next_resource_id] = texture
      /\ \A r \in DOMAIN resource_to_texture_map \ {next_resource_id} :
             resource_to_texture_map'[r] = resource_to_texture_map[r]
  BY <1>1 DEF CreateTransferableResource
<1>5. TextureTypeOK'
  <2>1. next_resource_id' \in ResourceIds
    BY <1>1, NextResource DEF CreateTransferableResource, TextureInv
  <2>. QED  BY <1>2, <1>3, <1>4, <2>1 DEF TextureInv, TextureTypeOK, SurfaceInv, SurfaceTypeOK, ResourceIds, NoResource
<1>6. CacheOK'
  BY <1>3 DEF TextureInv, CacheOK
<1>7. TextureHasOneOwner'
  BY <1>2, <1>3, <1>4 DEF TextureInv, TextureHasOneOwner
<1>8. FrameFitsSurface'
  BY <1>2, <1>3, <1>4 DEF FrameFitsSurface
<1>. QED  BY <1>5, <1>6, <1>7, <1>8 DEF TextureInv

LEMMA TextureReturn ==
    ASSUME TextureInv, ServiceReturnsResources
    PROVE  TextureInv'
<1>1. PICK returned \in SUBSET (held \ {shown}) :
          /\ ReturnResources(returned)
          /\ held' = held \ returned
          /\ UNCHANGED <<surface_size, next_resource_id, cache_size, shown>>
  BY DEF ServiceReturnsResources, holder
<1>2. held = DOMAIN resource_to_texture_map
  BY DEF TextureInv, TextureHasOneOwner
<1>3. /\ DOMAIN resource_to_texture_map' = DOMAIN resource_to_texture_map \ returned
      /\ \A r \in DOMAIN resource_to_texture_map \ returned :
             resource_to_texture_map'[r] = resource_to_texture_map[r]
  BY <1>1 DEF ReturnResources
<1>4. \A t \in available_textures' :
          \/ t \in available_textures
          \/ /\ t.size = cache_size
             /\ \E r \in returned : r \in DOMAIN resource_to_texture_map /\ t = resource_to_texture_map[r]
  BY <1>1 DEF ReturnResources, PutTextures
<1>5. TextureTypeOK'
  BY <1>1, <1>3, <1>4 DEF TextureInv, TextureTypeOK
<1>6. CacheOK'
  BY <1>1, <1>4 DEF TextureInv, CacheOK, TextureHasOneOwner
<1>7. TextureHasOneOwner'
  BY <1>1, <1>2, <1>3, <1>4 DEF TextureInv, TextureHasOneOwner
<1>8. FrameFitsSurface'
  BY <1>1, <1>3 DEF TextureInv, FrameFitsSurface
<1>. QED  BY <1>5, <1>6, <1>7, <1>8 DEF TextureInv

LEMMA TextureStep ==
    ASSUME SchedulingInv, SurfaceInv, TextureInv, [Next]_vars
    PROVE  TextureInv'
<1>1. CASE UNCHANGED <<surface_size, manager, service>>
  BY <1>1 DEF manager, service, TextureInv, TextureTypeOK, CacheOK, TextureHasOneOwner, FrameFitsSurface
<1>2. CASE SetIdNamespace \/ OnViewBoundsChanged \/ OnViewDestroyed \/ UNCHANGED content
  BY <1>1, <1>2 DEF SetIdNamespace, OnViewBoundsChanged, OnViewDestroyed, content, holder
<1>. QED  BY <1>2, TextureUpload, TextureReturn, ContentStep

(***************************************************************************)
(* The page is never painted into a texture the compositor may read        *)
(* (TextureHasOneOwner), and what a surface shows fits it                  *)
(* (FrameFitsSurface), however resizes and returned resources interleave   *)
(* and whenever ids come round again.                                      *)
(***************************************************************************)
THEOREM TextureInvariant == SafeSpec => []TextureInv
<1>1. Init => TextureInv
  <2>. SUFFICES ASSUME Init PROVE TextureInv
    OBVIOUS
  <2>1. DOMAIN resource_to_texture_map = {}
    BY DEF Init
  <2>2. /\ next_resource_id \in ResourceIds
        /\ shown = NoResource
        /\ held = {}
        /\ available_textures = {}
        /\ cache_size \in AnySize
    BY LayerHostAssumption DEF Init, ResourceIds, AnySize
  <2>. QED  BY <2>1, <2>2 DEF TextureInv, TextureTypeOK, CacheOK, TextureHasOneOwner, FrameFitsSurface
<1>. QED  BY <1>1, TextureStep, SchedulingInvariant, SurfaceInvariant, PTL DEF SafeSpec

THEOREM TexturesAreNotShared == SafeSpec => []TextureHasOneOwner
<1>1. TextureInv => TextureHasOneOwner
  BY DEF TextureInv
<1>. QED  BY <1>1, TextureInvariant, PTL

THEOREM FramesFit == SafeSpec => []FrameFitsSurface
<1>1. TextureInv => FrameFitsSurface
  BY DEF TextureInv
<1>. QED  BY <1>1, TextureInvariant, PTL

(***************************************************************************)
(* The type invariant follows from the three.                              *)
(***************************************************************************)
THEOREM TypeCorrect == SafeSpec => []TypeOK
<1>1. SchedulingInv /\ SurfaceInv /\ TextureInv => TypeOK
  <2>. SUFFICES ASSUME SchedulingInv, SurfaceInv, TextureInv PROVE TypeOK
    OBVIOUS
  <2>1. surfaces \subseteq SurfaceIds /\ held \subseteq ResourceIds
    BY DEF SurfaceInv, SurfaceTypeOK, OneLiveSurface, TextureInv, TextureTypeOK, TextureHasOneOwner
  <2>. QED  BY <2>1 DEF TypeOK, SchedulingInv, SchedulingTypeOK, SurfaceInv, SurfaceTypeOK, AnySize,
                        TextureInv, TextureTypeOK
<1>. QED  BY <1>1, SchedulingInvariant, SurfaceInvariant, TextureInvariant, PTL
=============================================================================
