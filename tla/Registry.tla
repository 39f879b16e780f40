------------------------------ MODULE Registry ------------------------------
(***************************************************************************)
(* The sigma server as a client of its gRPC service sees it: a call is one *)
(* step, which does all of its work or a prefix of it, and is answered OK  *)
(* or with an error (Sigma models what happens inside a call).  The server *)
(* may stop, and a boot may fail, for good when the state file is torn.    *)
(*                                                                         *)
(* The client is the Kubernetes provisioner: pools are told apart by       *)
(* whether they carry the name in its StorageClass, volumes by the claim   *)
(* whose name they carry.                                                  *)
(***************************************************************************)
EXTENDS Integers, FiniteSets, FiniteSetsExt

CONSTANTS
    MaxU16,     \* the largest uint16
    Claims,     \* PersistentVolumeClaims
    Nobody      \* no claim

ASSUME RegistryAssumption ==
    /\ MaxU16 \in Nat \ {0}
    /\ Nobody \notin Claims \cup {"class", "other"}

VARIABLES
    up,         \* whether a server takes calls
    reg,        \* Server.State; blank while no server is up
    saved,      \* the state that was written to the state file last
    torn,       \* whether the file was truncated since, and not written
    stores      \* the kernel's backstores, <<id, name>>: the HBA of an id can
                \*   hold several

registry == <<up, reg, saved, torn, stores>>

Ids == 0..MaxU16
State == [MaxLUNID : Ids,
          pools : [Ids -> {"none", "class", "other"}],
          vols  : [Ids \X Ids -> Claims \cup {Nobody}]]
Blank == [MaxLUNID |-> 0, pools |-> [p \in Ids |-> "none"],
          vols |-> [k \in Ids \X Ids |-> Nobody]]

HasPool(s, p) == s.pools[p] # "none"
StoreIds == {b[1] : b \in stores}
Hba(v)   == {b \in stores : b[1] = v}

\* The backstores that the volumes of a state are exported from.
Volumes(s) == {<<k[2], s.vols[k]>> : k \in {j \in Ids \X Ids : s.vols[j] # Nobody}}

\* A call that ends in state s with backstores t is answered OK; SaveState was
\* its last step.
\* Mutant: the OK is sent without the save.
Succeeds_unsaved(s, t) == reg' = s /\ stores' = t /\ UNCHANGED <<up, saved, torn>>
Succeeds(s, t) == reg' = s /\ saved' = s /\ torn' = FALSE /\ stores' = t /\ UNCHANGED up

\* It is answered with an error: it came to state s0 and to backstores of T
\* only; or to s, and then SaveState could not open the file, or truncated it and
\* could not write it; or the answer itself is lost.
Fails(s0, s, T, t) ==
    \/ reg' = s0 /\ stores' \in T /\ UNCHANGED <<up, saved, torn>>
    \/ reg' = s /\ stores' = t /\ torn' \in {torn, TRUE} /\ UNCHANGED <<up, saved>>
    \/ Succeeds(s, t)

-----------------------------------------------------------------------------
(* ListPools: the pools of this name, of which a client takes any (the      *)
(* server lists a map).                                                    *)
PoolsOfClass == {p \in Ids : reg.pools[p] = "class"}

(* CreatePool without an id: the first from 1 to 65534 that has no target   *)
(* (a target left behind by a failed call is collected before the next).   *)
FreePoolIds == {p \in 1..(MaxU16 - 1) : ~HasPool(reg, p)}
WithPool(p) == [reg EXCEPT !.pools[p] = "class"]

(* CreateVolume without an id.  MaxLUNID is raised before the conflict is   *)
(* looked for, which is about the id only: a name never conflicts.         *)
\* Mutant: the ids in use are not looked at.
NextVolumeId_first == 1
NextVolumeId == IF stores = {} THEN 1
                ELSE (Max(StoreIds \cup {reg.MaxLUNID}) + 1) % (MaxU16 + 1)
Raised(v)          == [reg EXCEPT !.MaxLUNID = Max({@, v})]
WithVolume(p, v, c) == [Raised(v) EXCEPT !.vols[<<p, v>>] = c]

(* DeleteVolume of a pool that has a target: every backstore of the id, one *)
(* after the other, then the volume, if they are there.                    *)
\* Mutants: a deleted volume is blanked, not removed; it is kept.
WithoutVolume_blanks(p, v) == [reg EXCEPT !.vols[<<p, v>>] = ""]
WithoutVolume_keeps(p, v)  == reg
WithoutVolume(p, v) == [reg EXCEPT !.vols[<<p, v>>] = Nobody]
Emptied(v) == {(stores \ Hba(v)) \cup S : S \in SUBSET Hba(v)}

\* The kernel refuses DeleteVolume a backstore that another pool's volume is
\* exported from (a failed call or ReconcileAll may have left it unlinked).
LinkedElsewhere(p, v) ==
    \E q \in Ids \ {p} : /\ reg.vols[<<q, v>>] # Nobody
                         /\ <<v, reg.vols[<<q, v>>]>> \in stores
Refuses(p, v) == /\ LinkedElsewhere(p, v) /\ stores' \in Emptied(v)
                 /\ UNCHANGED <<up, reg, saved, torn>>

-----------------------------------------------------------------------------
(* ReconcileAll makes the backstores of the volumes and deletes the others. *)
(* It lists one backstore of an HBA; should that be another one than the    *)
(* volume's, the kernel refuses the deletion, and so it does every time.   *)
Shares(b, s)  == \E x \in Volumes(s) : x[1] = b[1]
Reconciled(s) == Volumes(s) \cup {b \in stores : Shares(b, s)}
Wedged(s)     == \E b \in stores \ Volumes(s) : Shares(b, s)

\* One that fails has made some of them, or all and deleted some of the others.
Partly(s) == {(stores \cap Volumes(s)) \cup S :
                S \in SUBSET ((stores \ Volumes(s)) \cup (Volumes(s) \ stores))}

Reconciles     == up /\ stores' = Reconciled(reg) /\ UNCHANGED <<up, reg, saved, torn>>
ReconcileFails == up /\ stores' \in Partly(reg) /\ UNCHANGED <<up, reg, saved, torn>>

(* The server stops; its machine may restart, and forget the backstores.   *)
Stop == /\ up /\ up' = FALSE /\ reg' = Blank /\ stores' \in {stores, {}}
        /\ UNCHANGED <<saved, torn>>

(* A boot loads the state file, reconciles, saves, and listens; it does not *)
(* get past a torn file.                                                   *)
\* Mutant: the state file is not loaded.
Boots_blank == /\ ~up /\ up' = TRUE /\ reg' = Blank /\ stores' = {}
               /\ UNCHANGED <<saved, torn>>
Boots     == /\ ~up /\ ~torn /\ up' = TRUE /\ reg' = saved /\ stores' = Reconciled(saved)
             /\ UNCHANGED <<saved, torn>>
BootFails ==
    /\ ~up /\ ~torn /\ UNCHANGED <<up, reg, saved>>
    /\ \/ stores' \in Partly(saved) /\ torn' = FALSE
       \/ ~Wedged(saved) /\ stores' = Reconciled(saved) /\ torn' = TRUE  \* at the save

-----------------------------------------------------------------------------
(* The registry is a catalog too, of which no client remembers what it was  *)
(* told, and of which a torn file leaves nothing to load.                  *)
MemoryOf(s) ==
    [top   |-> s.MaxLUNID,
     thing |-> [k \in Ids \X Ids |-> IF k[2] # 0 THEN s.vols[k]
                                     ELSE IF s.pools[k[1]] = "none" THEN Nobody
                                     ELSE s.pools[k[1]]]]

C == INSTANCE Catalog WITH
        Things  <- Claims \cup {"class", "other"},
        Nothing <- Nobody,
        serving <- up,
        mem     <- MemoryOf(reg),
        kept    <- IF torn THEN {} ELSE {MemoryOf(saved)},
        told    <- [k \in Ids \X Ids |-> "unknown"]
=============================================================================
