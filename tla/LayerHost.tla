------------------------------ MODULE LayerHost ------------------------------
(***************************************************************************)
(* The frame pipeline of the mojo viewer, services/sky: LayerHost and the  *)
(* objects it owns (SurfaceHolder, ResourceManager, TextureCache), driven  *)
(* by DocumentView on one thread and by the surfaces service over mojo     *)
(* pipes.  Handlers run to completion on the viewer's message loop; every  *)
(* action below is one of them.                                            *)
(*                                                                         *)
(* The surfaces service is external.  It executes the calls of its one     *)
(* pipe in order, so its state is updated when the call is sent and only   *)
(* its answers (acknowledged frames, returned resources, the namespace)    *)
(* are asynchronous.                                                       *)
(***************************************************************************)
EXTENDS Naturals, FiniteSets

CONSTANTS
    Sizes,        \* non-empty sizes a view can have
    EmptySize,    \* a size with no area
    IdSpace,      \* surface and resource ids cycle through IdSpace values
    Textures,     \* names of GL textures
    MaxHeld       \* resources the service holds when it accepts a frame

ASSUME LayerHostAssumption ==
    /\ EmptySize \notin Sizes
    /\ IdSpace \in Nat \ {0}
    /\ MaxHeld \in Nat \ {0}

SurfaceIds == 1 .. IdSpace
ResourceIds == 0 .. IdSpace
NoSurface == 0
Texture == [name : Textures, size : Sizes]

VARIABLES
    (* LayerHost *)
    state, frame_requested,
    (* tasks on the message loop and acknowledgements still to come *)
    begin_posted, complete_posted, unacked,
    (* DocumentView: the bounds of the root view, whether it still exists *)
    physical_size, root,
    (* SurfaceHolder *)
    local_id, surface_size, id_namespace_known,
    (* ResourceManager and TextureCache *)
    next_resource_id, resource_to_texture_map, available_textures, cache_size,
    (* surfaces service and view manager: live surfaces, the resource each *)
    (* shows, all resources held, the surface id set on the root view      *)
    surfaces, shown, held, embedded_id,
    (* history: parity of the number of frames begun, read by FS only *)
    frame

scheduling == <<state, frame_requested, begin_posted, complete_posted, unacked,
                frame>>
document == <<physical_size, root>>
holder == <<local_id, surface_size, id_namespace_known>>
manager == <<next_resource_id, resource_to_texture_map, available_textures,
             cache_size>>
service == <<surfaces, shown, held>>
vars == <<scheduling, document, holder, manager, service, embedded_id>>

Ready == "kReadyForFrame"
Waiting == "kWaitingForFrameAcknowldgement"
NoResource == IdSpace + 1

-----------------------------------------------------------------------------

Init == /\ state = Ready
        /\ frame_requested = FALSE
        /\ begin_posted = 0
        /\ complete_posted = 0
        /\ unacked = 0
        /\ frame = 0
        /\ physical_size \in Sizes \cup {EmptySize}
        /\ root = TRUE
        /\ local_id = NoSurface
        /\ surface_size = EmptySize
        /\ id_namespace_known = FALSE
        /\ next_resource_id = 0
        /\ resource_to_texture_map = <<>>
        /\ available_textures = {}
        /\ cache_size = EmptySize
        /\ surfaces = {}
        /\ shown = NoResource
        /\ held = {}
        /\ embedded_id = NoSurface

-----------------------------------------------------------------------------
(* ResourceManager and TextureCache *)

MappedTextures == {resource_to_texture_map[r] : r \in DOMAIN resource_to_texture_map}

FreeNames == Textures \ {t.name : t \in MappedTextures \cup available_textures}

(* What the cache has for a request: a size other than the last one empties it. *)
Usable(size) == IF size = cache_size THEN available_textures ELSE {}

(* TextureCache::GetTexture, when it finds one. *)
GetTexture(size, texture) ==
    /\ cache_size' = size
    /\ texture \in Usable(size)
    /\ available_textures' = Usable(size) \ {texture}

(* ResourceManager::CreateTexture: from the cache, or new when that is empty. *)
CreateTexture(size, texture) ==
    \/ GetTexture(size, texture)
    \/ /\ Usable(size) = {}
       /\ texture.name \in FreeNames
       /\ texture.size = size
       /\ cache_size' = size
       /\ available_textures' = {}

(* Mistake: the counter is wider than the id and does not wrap with it. *)
CreateTransferableResourceNoWrap(texture) ==
    /\ next_resource_id' = next_resource_id + 1
    /\ resource_to_texture_map' =
           [r \in DOMAIN resource_to_texture_map \cup {next_resource_id} |->
               IF r = next_resource_id THEN texture
                                       ELSE resource_to_texture_map[r]]

(***************************************************************************)
(* ResourceManager::CreateTransferableResource: the painted texture leaves *)
(* the layer for the map, under the next id.                               *)
(***************************************************************************)
CreateTransferableResource(texture) ==
    /\ next_resource_id' = (next_resource_id + 1) % (IdSpace + 1)
    /\ resource_to_texture_map' =
           [r \in DOMAIN resource_to_texture_map \cup {next_resource_id} |->
               IF r = next_resource_id THEN texture
                                       ELSE resource_to_texture_map[r]]

(* Mistake: a returned texture is cached whatever its size. *)
PutTexturesOfAnySize(textures) ==
    available_textures' = available_textures \cup textures

(* TextureCache::PutTexture drops a texture that no longer has the size asked for. *)
PutTextures(textures) ==
    available_textures' =
        available_textures \cup {t \in textures : t.size = cache_size}

(* Mistake: the returned resource keeps its entry in the map. *)
ReturnResourcesKeepsEntry(returned) ==
    /\ UNCHANGED resource_to_texture_map
    /\ PutTextures({resource_to_texture_map[r] :
                        r \in returned \cap DOMAIN resource_to_texture_map})

(***************************************************************************)
(* ResourceManager::ReturnResources: the service hands back resources.     *)
(***************************************************************************)
ReturnResources(returned) ==
    /\ resource_to_texture_map' =
           [r \in DOMAIN resource_to_texture_map \ returned |->
               resource_to_texture_map[r]]
    /\ PutTextures({resource_to_texture_map[r] :
                        r \in returned \cap DOMAIN resource_to_texture_map})

-----------------------------------------------------------------------------
(* SurfaceHolder *)

(* OnSurfaceIdAvailable reaches DocumentView, which forgets the id once its view is gone. *)
SetQualifiedId(id) == embedded_id' = IF root THEN id ELSE embedded_id

(* Mistake: the surface of the old size is not destroyed. *)
SetSizeLeaksSurface(size) ==
    \/ /\ local_id # NoSurface
       /\ surface_size = size
       /\ UNCHANGED <<local_id, surface_size, surfaces, embedded_id>>
    \/ /\ local_id = NoSurface \/ surface_size # size
       /\ local_id' = (local_id % IdSpace) + 1
       /\ surfaces' = surfaces \cup {local_id'}
       /\ surface_size' = size
       /\ IF id_namespace_known THEN SetQualifiedId(local_id')
                                ELSE UNCHANGED embedded_id

(***************************************************************************)
(* SurfaceHolder::SetSize keeps the surface while the size is the same and *)
(* replaces it, under the next local id, when it is not.                   *)
(***************************************************************************)
SetSize(size) ==
    \/ /\ local_id # NoSurface
       /\ surface_size = size
       /\ UNCHANGED <<local_id, surface_size, surfaces, embedded_id>>
    \/ /\ local_id = NoSurface \/ surface_size # size
       /\ local_id' = (local_id % IdSpace) + 1
       /\ surfaces' = (surfaces \ {local_id}) \cup {local_id'}
       /\ surface_size' = size
       /\ IF id_namespace_known THEN SetQualifiedId(local_id')
                                ELSE UNCHANGED embedded_id

-----------------------------------------------------------------------------
(* LayerHost *)

(***************************************************************************)
(* LayerHost::Upload, with the texture Layer::Display painted: resize the  *)
(* surface, export the texture as a resource, submit the frame.  acks is   *)
(* the number of acknowledgements outstanding before the submission.       *)
(***************************************************************************)
Upload(size, acks) ==
    /\ \E texture \in Texture : /\ CreateTexture(size, texture)
                                /\ CreateTransferableResource(texture)
    /\ SetSize(size)
    /\ shown' = next_resource_id
    /\ held' = held \cup {next_resource_id}
    /\ unacked' = acks + 1
    /\ UNCHANGED id_namespace_known

(***************************************************************************)
(* LayerHost::BeginFrame.  The client's BeginFrame runs Dart code, which   *)
(* may ask for another frame (again), and resizes the layer to the view.   *)
(* A layer without area is not painted: only its completion is posted.     *)
(* completions and acks are what the run loop still holds for this object  *)
(* when the handler starts.                                                *)
(***************************************************************************)
BeginFrame(again, completions, acks) ==
    /\ frame_requested' = again
    /\ state' = Waiting
    /\ frame' = 1 - frame
    /\ \/ /\ physical_size = EmptySize
          /\ complete_posted' = completions + 1
          /\ unacked' = acks
          /\ UNCHANGED <<holder, manager, service, embedded_id>>
       \/ /\ physical_size # EmptySize
          /\ complete_posted' = completions
          /\ Upload(physical_size, acks)
    /\ UNCHANGED document

(* Mistake: a request made while the frame was in flight is left for SetNeedsAnimate. *)
DidCompleteFrameForgetsRequest(again, completions, acks) ==
    /\ ~again
    /\ state' = Ready
    /\ complete_posted' = completions
    /\ unacked' = acks
    /\ UNCHANGED <<frame_requested, frame, document, holder, manager, service,
                   embedded_id>>

(***************************************************************************)
(* LayerHost::DidCompleteFrame begins the next frame at once when one was  *)
(* asked for in the meantime.                                              *)
(***************************************************************************)
DidCompleteFrame(again, completions, acks) ==
    \/ /\ frame_requested
       /\ BeginFrame(again, completions, acks)
    \/ /\ ~frame_requested
       /\ ~again
       /\ state' = Ready
       /\ complete_posted' = completions
       /\ unacked' = acks
       /\ UNCHANGED <<frame_requested, frame, document, holder, manager,
                      service, embedded_id>>

(* Mistake: SetNeedsAnimate does not look at state_ and posts while a frame is in flight. *)
SetNeedsAnimateAlwaysPosts ==
    /\ ~frame_requested
    /\ frame_requested' = TRUE
    /\ begin_posted' = begin_posted + 1
    /\ UNCHANGED <<state, complete_posted, unacked, frame, document, holder,
                   manager, service, embedded_id>>

(* LayerHost::SetNeedsAnimate, called by DocumentView::ScheduleFrame. *)
SetNeedsAnimate ==
    /\ ~frame_requested
    /\ frame_requested' = TRUE
    /\ begin_posted' = IF state = Ready THEN begin_posted + 1 ELSE begin_posted
    /\ UNCHANGED <<state, complete_posted, unacked, frame, document, holder, manager,
                   service, embedded_id>>

(* The task BeginFrameSoon posted runs. *)
RunBeginFrame ==
    /\ begin_posted > 0
    /\ begin_posted' = begin_posted - 1
    /\ \E again \in BOOLEAN : BeginFrame(again, complete_posted, unacked)

(* The completion posted for a frame without area runs. *)
RunDidCompleteFrame ==
    /\ complete_posted > 0
    /\ \E again \in BOOLEAN :
           DidCompleteFrame(again, complete_posted - 1, unacked)
    /\ UNCHANGED begin_posted

-----------------------------------------------------------------------------
(* The surfaces service and the view manager *)

(***************************************************************************)
(* The service acknowledges a submitted frame: SubmitFrame's callback.  It *)
(* takes the next frame only while it holds at most MaxHeld resources.     *)
(***************************************************************************)
AcknowledgeFrame ==
    /\ unacked > 0
    /\ Cardinality(held) <= MaxHeld
    /\ \E again \in BOOLEAN :
           DidCompleteFrame(again, complete_posted, unacked - 1)
    /\ UNCHANGED begin_posted

(* Resources a newer frame replaced come back, in any grouping and at any time. *)
ServiceReturnsResources ==
    \E returned \in SUBSET (held \ {shown}) \ {{}} :
        /\ ReturnResources(returned)
        /\ held' = held \ returned
        /\ UNCHANGED <<scheduling, document, holder, next_resource_id,
                       cache_size, surfaces, shown, embedded_id>>

(* Mistake: the surface created before the namespace arrived is never announced. *)
SetIdNamespaceSilent ==
    /\ ~id_namespace_known
    /\ id_namespace_known' = TRUE
    /\ UNCHANGED <<scheduling, document, local_id, surface_size, manager,
                   service, embedded_id>>

(* SurfaceHolder::SetIdNamespace, the answer to GetIdNamespace. *)
SetIdNamespace ==
    /\ ~id_namespace_known
    /\ id_namespace_known' = TRUE
    /\ IF local_id # NoSurface THEN SetQualifiedId(local_id)
                               ELSE UNCHANGED embedded_id
    /\ UNCHANGED <<scheduling, document, local_id, surface_size, manager,
                   service>>

(* DocumentView::OnViewBoundsChanged hands the new size to the view. *)
OnViewBoundsChanged ==
    /\ root
    /\ physical_size' \in (Sizes \cup {EmptySize}) \ {physical_size}
    /\ UNCHANGED <<scheduling, root, holder, manager, service, embedded_id>>

(* DocumentView::OnViewDestroyed: frames go on, but no view is left to embed them. *)
OnViewDestroyed ==
    /\ root
    /\ root' = FALSE
    /\ UNCHANGED <<scheduling, physical_size, holder, manager, service,
                   embedded_id>>

-----------------------------------------------------------------------------

Next == \/ SetNeedsAnimate
        \/ RunBeginFrame
        \/ RunDidCompleteFrame
        \/ AcknowledgeFrame
        \/ ServiceReturnsResources
        \/ SetIdNamespace
        \/ OnViewBoundsChanged
        \/ OnViewDestroyed

SafeSpec == Init /\ [][Next]_vars

(***************************************************************************)
(* The message loop runs what was posted and the service answers; nothing  *)
(* obliges the page to ask for a frame or the view to change.              *)
(***************************************************************************)
Fairness == /\ WF_vars(RunBeginFrame)
            /\ WF_vars(RunDidCompleteFrame)
            /\ WF_vars(AcknowledgeFrame)
            /\ WF_vars(ServiceReturnsResources)

Spec == SafeSpec /\ Fairness

-----------------------------------------------------------------------------
(* Properties *)

(* Every variable holds a value the program can hold; the counts stay finite. *)
TypeOK ==
    /\ state \in {Ready, Waiting}
    /\ frame_requested \in BOOLEAN
    /\ begin_posted \in Nat
    /\ complete_posted \in Nat
    /\ unacked \in Nat
    /\ frame \in {0, 1}
    /\ physical_size \in Sizes \cup {EmptySize}
    /\ root \in BOOLEAN
    /\ local_id \in SurfaceIds \cup {NoSurface}
    /\ surface_size \in Sizes \cup {EmptySize}
    /\ id_namespace_known \in BOOLEAN
    /\ next_resource_id \in ResourceIds
    /\ DOMAIN resource_to_texture_map \subseteq ResourceIds
    /\ \A r \in DOMAIN resource_to_texture_map :
           resource_to_texture_map[r] \in Texture
    /\ available_textures \subseteq Texture
    /\ cache_size \in Sizes \cup {EmptySize}
    /\ surfaces \subseteq SurfaceIds
    /\ shown \in ResourceIds \cup {NoResource}
    /\ held \subseteq ResourceIds
    /\ embedded_id \in SurfaceIds \cup {NoSurface}

(***************************************************************************)
(* The tasks outstanding on the loop and at the service agree with the     *)
(* state of the host, so the DCHECKs of BeginFrame (62, 65) and of         *)
(* DidCompleteFrame (145) hold whenever one of them runs.  A second        *)
(* BeginFrame posted next to the first, or an acknowledgement that arrives *)
(* for a frame nobody waits for, would break it.                           *)
(***************************************************************************)
TasksMatchState ==
    /\ begin_posted = IF state = Ready /\ frame_requested THEN 1 ELSE 0
    /\ complete_posted + unacked = IF state = Waiting THEN 1 ELSE 0

(***************************************************************************)
(* A texture has one owner: the cache, or exactly one resource.  The page  *)
(* is never painted into a texture the compositor may still be reading.    *)
(***************************************************************************)
TextureHasOneOwner ==
    /\ \A r1, r2 \in DOMAIN resource_to_texture_map :
           resource_to_texture_map[r1].name = resource_to_texture_map[r2].name
               => r1 = r2
    /\ \A t \in available_textures, r \in DOMAIN resource_to_texture_map :
           t.name # resource_to_texture_map[r].name
    /\ held = DOMAIN resource_to_texture_map

(***************************************************************************)
(* The frame a surface shows was painted into a texture of the surface's   *)
(* own size, across resizes that come while textures are at the service.   *)
(***************************************************************************)
FrameFitsSurface ==
    shown # NoResource =>
        /\ shown \in DOMAIN resource_to_texture_map
        /\ resource_to_texture_map[shown].size = surface_size

(***************************************************************************)
(* The service has exactly the surface the holder believes it has: frames  *)
(* are submitted to a live surface and replaced surfaces are not leaked.   *)
(***************************************************************************)
OneLiveSurface ==
    surfaces = IF local_id = NoSurface THEN {} ELSE {local_id}

(***************************************************************************)
(* While its view exists, the embedder shows the current surface, whether  *)
(* the namespace arrived before the first frame, after it, or in between   *)
(* two resizes.                                                            *)
(***************************************************************************)
EmbedderShowsCurrentSurface ==
    root /\ id_namespace_known => embedded_id = local_id

FS == INSTANCE FrameScheduler WITH
          pending <- frame_requested,
          in_flight <- complete_posted + unacked,
          frame <- frame

(***************************************************************************)
(* The host is a frame scheduler: frames begin only when asked for, one at *)
(* a time, and (by the fairness of the loop and of the service) every      *)
(* request is served.                                                      *)
(***************************************************************************)
IsFrameScheduler == FS!Spec
=============================================================================
