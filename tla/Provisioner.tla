----------------------------- MODULE Provisioner -----------------------------
(***************************************************************************)
(* The Kubernetes provisioner (k8sprovisioner/): Provision and Delete, run *)
(* by the controller library, which retries them until they succeed.  One  *)
(* worker per claim at a time, all claims of one StorageClass.             *)
(*                                                                         *)
(* The library hands Provision the StorageClass object of its cache, which *)
(* Provision annotates in place and sends to the API server; that refuses  *)
(* an object of an older version than its own.  obj[v] is the annotation   *)
(* of the cache's object of version v.  Every PersistentVolume was made by *)
(* Provision, with both of its id annotations, but may have been edited.   *)
(*                                                                         *)
(* Claims and classes that are refused for their form (a selector, an      *)
(* annotation that is no number, no serverAddr or poolName) change nothing *)
(* and are left out.                                                       *)
(***************************************************************************)
EXTENDS Registry

CONSTANTS
    OwnPool,        \* claim -> the pool id in its own annotation, or 0
    ByHand,         \* what pool 1 may be before the provisioner starts
    MaxVersion,     \* bounds of the model: class updates,
    MaxFaults,      \*   answers with an error,
    MaxCrashes,     \*   ends of the server or of the provisioner,
    MaxEdits        \*   annotations removed from PersistentVolumes

ASSUME ProvisionerAssumption ==
    /\ IsFiniteSet(Claims) /\ OwnPool \in [Claims -> Ids]
    /\ ByHand \subseteq {"none", "class", "other"}
    /\ MaxVersion \in Nat /\ MaxFaults \in Nat /\ MaxCrashes \in Nat
    /\ MaxEdits \in Nat

VARIABLES
    class,      \* the StorageClass in the API: its annotation and version
    cached,     \* the version in the library's cache
    obj,        \* the annotation of each version's object, as left in memory
    work,       \* per claim: the worker's local variables
    pv,         \* per claim: its PersistentVolume
    strikes,    \* ghost: per claim, how often (0, 1, 2 or more) a
                \*   DeleteVolume for it was carried out
    budget      \* how many faults, crashes and edits happened; ghost: how many
                \*   volumes were on their way to the library when the process ended

vars == <<up, reg, saved, torn, stores, class, cached, obj, work, pv, strikes, budget>>

Versions == 0..MaxVersion
Class    == [pool : Ids, version : Versions]
Worker   == [pc : {"idle", "list", "newpool", "annotate", "update", "create",
                   "get", "store", "drop", "remove"},
             version : Versions, pool : Ids, vol : Ids]
Idle     == [pc |-> "idle", version |-> 0, pool |-> 0, vol |-> 0]
Notes    == {"pool", "vol"}     \* the id annotations
PV       == [phase : {"none", "bound", "released", "gone"}, pool : Ids, vol : Ids,
             noted : SUBSET Notes]
NoPV     == [phase |-> "none", pool |-> 0, vol |-> 0, noted |-> {}]
Key(c)   == <<pv[c].pool, pv[c].vol>>

api     == <<class, cached, obj>>
At(c, pc)   == work[c].pc = pc
Go(c, pc)   == work' = [work EXCEPT ![c].pc = pc]
GiveUp(c)   == work' = [work EXCEPT ![c] = Idle]
NoFault     == UNCHANGED budget
Fault       == /\ budget.faults < MaxFaults
               /\ budget' = [budget EXCEPT !.faults = @ + 1]
FaultUnless(w) == /\ ~w => budget.faults < MaxFaults
                  /\ budget' = [budget EXCEPT !.faults = IF w THEN @ ELSE @ + 1]

-----------------------------------------------------------------------------
(* Provision                                                               *)

\* The pool id: the claim's annotation, else the class object's, else unknown.
\* The class object is annotated unless its annotation was read and found.
\* Mutant: the annotation of the class object is not looked at.
PoolKnown_claimOnly(c) == OwnPool[c]
PoolKnown(c) == IF OwnPool[c] # 0 THEN OwnPool[c] ELSE obj[cached]
Annotated(c) == OwnPool[c] = 0 /\ obj[cached] # 0

Provision(c) ==
    /\ pv[c] = NoPV /\ At(c, "idle")
    /\ work' = [work EXCEPT ![c] =
         [pc |-> IF PoolKnown(c) = 0 THEN "list"
                 ELSE IF Annotated(c) THEN "create" ELSE "annotate",
          version |-> cached, pool |-> PoolKnown(c), vol |-> 0]]
    /\ NoFault
    /\ UNCHANGED <<registry, api, pv, strikes>>

\* A call finds no server; Provision, and Delete with it, returns the error.
Unavailable(c) ==
    /\ ~up /\ work[c].pc \in {"list", "newpool", "create", "drop"}
    /\ GiveUp(c) /\ NoFault
    /\ UNCHANGED <<registry, api, pv, strikes>>

ListPools(c) ==
    /\ up /\ At(c, "list")
    /\ \/ \E p \in PoolsOfClass :
            work' = [work EXCEPT ![c].pc = "annotate", ![c].pool = p] /\ NoFault
       \/ PoolsOfClass = {} /\ Go(c, "newpool") /\ NoFault
       \/ Fault /\ GiveUp(c)
    /\ UNCHANGED <<registry, api, pv, strikes>>

\* Two workers can both come here, and each makes a pool of this name.
CreatePool(c) ==
    /\ up /\ At(c, "newpool")
    /\ IF FreePoolIds = {}
       THEN GiveUp(c) /\ NoFault /\ UNCHANGED registry
       ELSE LET p == Min(FreePoolIds)
            IN  \/ /\ Succeeds(WithPool(p), stores) /\ NoFault
                   /\ work' = [work EXCEPT ![c].pc = "annotate", ![c].pool = p]
                \/ Fails(reg, WithPool(p), {stores}, stores) /\ Fault /\ GiveUp(c)
    /\ UNCHANGED <<api, pv, strikes>>

\* In place, in the object the cache and other workers share.
Annotate(c) ==
    /\ At(c, "annotate")
    /\ obj' = [obj EXCEPT ![work[c].version] = work[c].pool]
    /\ Go(c, "update") /\ NoFault
    /\ UNCHANGED <<registry, class, cached, pv, strikes>>

\* The object is sent as it is now; a stale one is refused, and one that is as
\* the API has it makes no new version.
UpdateClass(c) ==
    LET v    == work[c].version
        same == obj[v] = class.pool
    IN  /\ At(c, "update")
        /\ \/ /\ v = class.version /\ (same \/ v < MaxVersion)
              /\ class' = IF same THEN class ELSE [pool |-> obj[v], version |-> v + 1]
              /\ \/ Go(c, "create") /\ NoFault
                 \/ GiveUp(c) /\ Fault
           \/ v # class.version /\ GiveUp(c) /\ NoFault /\ UNCHANGED class
           \/ GiveUp(c) /\ Fault /\ UNCHANGED class
        /\ UNCHANGED <<registry, cached, obj, pv, strikes>>

CreateVolume(c) ==
    LET p == work[c].pool
        v == NextVolumeId
    IN  /\ up /\ At(c, "create")
        /\ \/ /\ v = 0                              \* no id left
              /\ GiveUp(c) /\ NoFault /\ UNCHANGED registry
           \/ /\ v # 0 /\ ~HasPool(reg, p)
              /\ reg' = Raised(v) /\ GiveUp(c) /\ NoFault
              /\ UNCHANGED <<up, saved, torn, stores>>
           \/ /\ v # 0 /\ HasPool(reg, p) /\ reg.vols[<<p, v>>] # Nobody
              /\ reg' = Raised(v) /\ Go(c, "get") /\ NoFault   \* AlreadyExists
              /\ UNCHANGED <<up, saved, torn, stores>>
           \/ /\ v # 0 /\ HasPool(reg, p) /\ reg.vols[<<p, v>>] = Nobody
              /\ LET s == WithVolume(p, v, c)
                     t == stores \cup {<<v, c>>}
                 IN  \/ /\ Succeeds(s, t) /\ NoFault
                        /\ work' = [work EXCEPT ![c].pc = "store", ![c].vol = v]
                     \/ Fails(Raised(v), s, {stores, t}, t) /\ Fault /\ GiveUp(c)
        /\ UNCHANGED <<api, pv, strikes>>

\* The process starts anew: no worker runs, the cache is what the API has.
Cut == {c \in Claims : At(c, "store")}
FreshProcess ==
    /\ work' = [c \in Claims |-> Idle]
    /\ cached' = class.version
    /\ obj' = [obj EXCEPT ![class.version] = class.pool]

\* GetVolume by the claim's name, after AlreadyExists: the server compares it
\* with the name of the pool and finds nothing (or there is no server), the error
\* is not looked at, and the answer, which is nil, is dereferenced: the process
\* panics.
GetVolume(c) ==
    /\ At(c, "get") /\ FreshProcess
    /\ budget' = [budget EXCEPT !.cut = @ + Cardinality(Cut)]
    /\ UNCHANGED <<registry, class, pv, strikes>>

-----------------------------------------------------------------------------
(* Delete                                                                  *)

\* The pools a Delete may take for the volume's: its annotation, else the one in
\* the class, else any the server lists under the class's name; 0 for none.
DeletePools(c) ==
    IF "pool" \in pv[c].noted THEN {pv[c].pool}
    ELSE IF class.pool # 0 THEN {class.pool}
    ELSE IF PoolsOfClass # {} THEN PoolsOfClass ELSE {0}

\* Without a pool Delete returns nil and leaves the volume where it is.  Without
\* its id the volume is looked for under the PersistentVolume's name, which
\* GetVolume never finds (it compares it with the pool's): an error, no change.
GuessVolume(c) ==
    /\ pv[c].phase = "released" /\ At(c, "idle") /\ pv[c].noted # Notes
    /\ up \/ "pool" \in pv[c].noted \/ class.pool # 0
    /\ \E p \in DeletePools(c) :
         \/ p = 0 /\ Go(c, "remove")
         \/ /\ p # 0 /\ "vol" \in pv[c].noted
            /\ work' = [work EXCEPT ![c] = [Idle EXCEPT !.pc = "drop", !.pool = p,
                                                       !.vol = pv[c].vol]]
    /\ NoFault
    /\ UNCHANGED <<registry, api, pv, strikes>>

\* DeleteVolume of volume v in pool p.
DeleteVolume(c, p, v) ==
    LET s == WithoutVolume(p, v)
        t == stores \ Hba(v)
        Count == strikes' = [strikes EXCEPT ![c] =
                    IF reg' = s THEN Min({@ + 1, 2}) ELSE @]
    IN  /\ up
        /\ \/ ~HasPool(reg, p) /\ GiveUp(c) /\ NoFault /\ UNCHANGED <<registry, strikes>>
           \/ HasPool(reg, p) /\ Refuses(p, v) /\ GiveUp(c) /\ NoFault /\ UNCHANGED strikes
           \/ HasPool(reg, p) /\ Succeeds(s, t) /\ Go(c, "remove") /\ NoFault /\ Count
           \/ HasPool(reg, p) /\ Fails(reg, s, Emptied(v), t) /\ GiveUp(c) /\ Fault /\ Count
        /\ UNCHANGED <<api, pv>>

Delete(c) ==
    \/ /\ pv[c].phase = "released" /\ At(c, "idle") /\ pv[c].noted = Notes
       /\ DeleteVolume(c, pv[c].pool, pv[c].vol)
    \/ At(c, "drop") /\ DeleteVolume(c, work[c].pool, work[c].vol)

-----------------------------------------------------------------------------
(* The controller library, and the users of the cluster                    *)

\* What Provision returned becomes a PersistentVolume of the API.
StorePV(c) ==
    /\ At(c, "store")
    /\ pv' = [pv EXCEPT ![c] = [phase |-> "bound", pool |-> work[c].pool,
                                vol |-> work[c].vol, noted |-> Notes]]
    /\ GiveUp(c) /\ NoFault
    /\ UNCHANGED <<registry, api, strikes>>

\* What Delete succeeded for is removed.
RemovePV(c) ==
    /\ At(c, "remove")
    /\ pv' = [pv EXCEPT ![c].phase = "gone"]
    /\ GiveUp(c) /\ NoFault
    /\ UNCHANGED <<registry, api, strikes>>

\* The claim is deleted.
Release(c) ==
    /\ pv[c].phase = "bound"
    /\ pv' = [pv EXCEPT ![c].phase = "released"] /\ NoFault
    /\ UNCHANGED <<registry, api, work, strikes>>

\* Somebody edits the PersistentVolume, and annotations of it are gone.
Edit(c) ==
    /\ pv[c].phase \in {"bound", "released"} /\ budget.edits < MaxEdits
    /\ \E N \in SUBSET pv[c].noted : N # pv[c].noted /\ pv' = [pv EXCEPT ![c].noted = N]
    /\ budget' = [budget EXCEPT !.edits = @ + 1]
    /\ UNCHANGED <<registry, api, work, strikes>>

\* The cache learns of a newer class.
Refresh ==
    /\ cached # class.version /\ cached' = class.version
    /\ obj' = [obj EXCEPT ![class.version] = class.pool] /\ NoFault
    /\ UNCHANGED <<registry, class, work, pv, strikes>>

-----------------------------------------------------------------------------
(* The server and the processes                                            *)

\* A server that stops within a call has failed it first.
Crash == /\ budget.crashes < MaxCrashes
         /\ \/ /\ Stop /\ UNCHANGED <<work, cached, obj>>
               /\ budget' = [budget EXCEPT !.crashes = @ + 1]
            \/ /\ FreshProcess /\ UNCHANGED registry
               /\ budget' = [budget EXCEPT !.crashes = @ + 1,
                                           !.cut = @ + Cardinality(Cut)]
         /\ UNCHANGED <<class, pv, strikes>>

BootServer ==
    /\ \/ Boots /\ NoFault
       \/ BootFails /\ FaultUnless(Wedged(saved))
    /\ UNCHANGED <<api, work, pv, strikes>>

ReconcileServer ==
    /\ stores # Volumes(reg)
    /\ \/ Reconciles /\ NoFault
       \/ ReconcileFails /\ FaultUnless(Wedged(reg))
    /\ UNCHANGED <<api, work, pv, strikes>>

-----------------------------------------------------------------------------
\* There are no volumes; a pool, of the class's name or not, may have been made
\* by hand.
Init ==
    /\ \E p \in ByHand :
         reg = [MaxLUNID |-> 0, pools |-> [i \in Ids |-> IF i = 1 THEN p ELSE "none"],
                vols |-> [k \in Ids \X Ids |-> Nobody]]
    /\ up = TRUE /\ saved = reg /\ torn = FALSE /\ stores = {}
    /\ class = [pool |-> 0, version |-> 0] /\ cached = 0
    /\ obj = [v \in Versions |-> 0]
    /\ work = [c \in Claims |-> Idle] /\ pv = [c \in Claims |-> NoPV]
    /\ strikes = [c \in Claims |-> 0]
    /\ budget = [faults |-> 0, crashes |-> 0, edits |-> 0, cut |-> 0]

Step(c) == \/ Provision(c) \/ ListPools(c) \/ CreatePool(c) \/ Annotate(c)
           \/ UpdateClass(c) \/ CreateVolume(c) \/ GetVolume(c)
           \/ Unavailable(c) \/ GuessVolume(c) \/ Delete(c) \/ StorePV(c) \/ RemovePV(c)

Next == \/ \E c \in Claims : Step(c) \/ Release(c) \/ Edit(c)
        \/ Refresh \/ ReconcileServer \/ BootServer \/ Crash

Spec == Init /\ [][Next]_vars

\* The library works on every claim again and again, and its cache follows the
\* API; a server that is up reconciles once a second (nothing in the repository
\* starts one that has stopped).
FairSpec == /\ Spec
            /\ \A c \in Claims : WF_vars(Step(c))
            /\ WF_vars(Refresh) /\ WF_vars(ReconcileServer)

-----------------------------------------------------------------------------
(* Properties                                                              *)

\* Every variable has its type (K8sProvisioner keeps no state but the locals of
\* Provision and Delete; the rest is the API's and the server's).
TypeOK ==
    /\ up \in BOOLEAN /\ reg \in State /\ saved \in State /\ torn \in BOOLEAN
    /\ stores \subseteq Ids \X Claims
    /\ class \in Class /\ cached \in Versions /\ obj \in [Versions -> Ids]
    /\ work \in [Claims -> Worker] /\ pv \in [Claims -> PV]
    /\ strikes \in [Claims -> 0..2]
    /\ budget \in [faults : 0..MaxFaults, crashes : 0..MaxCrashes, edits : 0..MaxEdits,
                   cut : Nat]

\* The volume of claim c may have been taken by a DeleteVolume for d, to which its
\* id was given before: by one that was repeated (its answer was lost) since the id
\* is that of a new volume, in the same pool; or by one whose pool Delete had to
\* guess, and took for c's.
TakenBy(c, d) == /\ d # c /\ pv[d].vol = pv[c].vol
                 /\ \/ strikes[d] = 2 /\ pv[d].pool = pv[c].pool
                    \/ strikes[d] # 0 /\ "pool" \notin pv[d].noted

\* A bound PersistentVolume has the volume made for its claim behind it, whatever
\* failed, was repeated or crashed: in the server that is up, and in the state
\* file unless a save that failed has left that torn; with the one exception above.
BoundBacked == \A c \in Claims : pv[c].phase = "bound" =>
    \/ /\ up => reg.vols[Key(c)] = c
       /\ torn \/ saved.vols[Key(c)] = c
    \/ \E d \in Claims : TakenBy(c, d)

\* Volumes of the server that no claim has and no worker is about to hand out.
Orphans == {k \in Ids \X Ids : LET c == reg.vols[k] IN
    /\ c # Nobody
    /\ ~(pv[c].phase \in {"bound", "released"} /\ Key(c) = k)
    /\ ~(At(c, "store") /\ <<work[c].pool, work[c].vol>> = k)}

\* Provision and Delete leave a volume behind only for a failed or lost answer
\* (one each), a lost annotation, or a process that ends, in a restart or a
\* panic, between CreateVolume and the PersistentVolume: retries, conflicts and
\* stale classes leave none.
OrphansBounded ==
    Cardinality(Orphans) <= budget.faults + budget.cut + budget.edits

\* Once the StorageClass is annotated with a pool, all claims stay on it: the
\* annotation changes only for a claim with a pool of its own (Provision then
\* does not look at the class's before it writes it).
ClassPoolKept ==
    [][ (class.pool # 0 /\ class'.pool # class.pool) =>
          \E c \in Claims : OwnPool[c] = class'.pool ]_vars

\* What a claim cannot get over: a server that is down (and stays so if its state
\* file is torn, or ReconcileAll fails time after time); a DeleteVolume carried out
\* for some claim again (it hits a volume that has been given the id since, and can
\* go on doing so while GetVolume panics); a class annotated with a pool that is not
\* there (a restarted server has lost a pool it had listed, but not saved); no
\* volume id left (every CreateVolume in a pool that is not there uses one up); and
\* a DeleteVolume that the kernel refuses, because a volume of another pool has the
\* id too.
Stuck == \/ ~up
         \/ \E d \in Claims : strikes[d] = 2
         \/ \E p \in {class.pool, obj[cached]} \ {0} : ~HasPool(reg, p)
         \/ NextVolumeId = 0
         \/ \E d \in Claims : LinkedElsewhere(pv[d].pool, pv[d].vol)

\* Every claim gets its PersistentVolume, whatever failed before (Provision is
\* retried), unless stuck.
ClaimsServed == \A c \in Claims : pv[c] = NoPV ~> (pv[c].phase = "bound" \/ Stuck)

\* A released PersistentVolume that has kept its annotations goes, and its claim's
\* volume before it (Delete is retried), unless stuck.
VolumesReclaimed == \A c \in Claims : pv[c].phase = "released" ~>
    \/ pv[c].phase = "gone" /\ reg.vols[Key(c)] # c
    \/ pv[c].noted # Notes \/ Stuck

\* Whatever workers, retries and restarts do to the server, they find it a catalog:
\* pools and volumes come and go one at a time, a volume only in a pool that is
\* there and under a new id of it, and a restart brings back what was saved last,
\* or nothing after a save that failed (CreatePool, CreateVolume, DeleteVolume,
\* SaveState and LoadState of sigma.go).
TalksToCatalog == C!Spec
=============================================================================
