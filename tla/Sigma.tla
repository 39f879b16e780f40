------------------------------- MODULE Sigma -------------------------------
(***************************************************************************)
(* The sigma server (sigma/sigma.go, sigma/command.go): a gRPC server that *)
(* keeps a State in memory and in a JSON file, and makes the kernel's      *)
(* iSCSI target follow it.                                                 *)
(*                                                                         *)
(* Every gRPC call runs in a goroutine of its own (a handler h); the       *)
(* once-a-second ReconcileAll runs in another.  Handlers change the kernel *)
(* and the state under StateMutex.Lock, ReconcileAll changes the kernel    *)
(* under RLock; CreatePool, DeletePool and DeleteVolume list the kernel's  *)
(* targets BEFORE they lock.  A step of the model is the work between two  *)
(* points where another goroutine can look or the process can die.         *)
(*                                                                         *)
(* A call that is rejected before it changed anything is a call that did   *)
(* not happen.  Names are not empty strings (the name checks of CreatePool *)
(* and CreateVolume compare with "", so no other name ever matches).       *)
(***************************************************************************)
EXTENDS Lio

CONSTANTS
    MaxI64,         \* the largest int64
    GiB,            \* the size ReconcileAll makes every image at least
    DecimalName,    \* id -> the name "%d" of it
    DiskPath,       \* <<pool name, volume name>> -> the path "%s-%s.img"
    Handlers,       \* gRPC handler goroutines
    Nobody,         \* no handler
    PoolArgs, VolArgs, NameArgs, SizeArgs,  \* values on the wire
    MaxRequests, MaxFaults, MaxCrashes, MaxWrites   \* bounds of the model

ASSUME SigmaAssumption ==
    /\ MaxI64 \in Nat /\ GiB \in Nat \ {0} /\ GiB <= MaxI64
    /\ DecimalName \in [Ids -> Names]
    /\ DiskPath \in [Names \X Names -> Paths]
    /\ Nobody \notin Handlers
    /\ PoolArgs \subseteq Nat /\ VolArgs \subseteq Nat
    /\ NameArgs \subseteq Names
    /\ SizeArgs \subseteq 1..(2 * MaxI64 + 1)
    /\ MaxRequests \in Nat /\ MaxFaults \in Nat
    /\ MaxCrashes \in Nat /\ MaxWrites \in Nat

VARIABLES
    server,     \* "down", "booting" (initial reconcile and save) or "up"
    st,         \* Server.State
    file,       \* the state file
    cfs,        \* configfs
    disk,       \* the image files
    call,       \* per handler: the call it runs, with its local variables
    writer,     \* the handler that holds StateMutex.Lock
    rec,        \* ReconcileAll's progress; it holds RLock unless "idle"
    portal,     \* Config.Portal, a flag of the process
    acked,      \* ghost: what clients were told of a pool or volume last
    budget      \* how often the bounded events happened

vars == <<server, st, file, cfs, disk, call, writer, rec, portal, acked, budget>>

-----------------------------------------------------------------------------
(* State: pools[p] is the name of pool p, vols[<<p, v>>] its volume v.     *)

Absent    == -1                             \* an optional field not set
NoVolume  == [name |-> NoName, size |-> 0]
Volume    == [name : Names, size : Int]
State     == [MaxLUNID : Ids,
              pools : [Ids -> Names \cup {NoName}],
              vols  : [Ids \X Ids -> Volume \cup {NoVolume}]]
EmptyState == [MaxLUNID |-> 0,
               pools |-> [p \in Ids |-> NoName],
               vols  |-> [k \in Ids \X Ids |-> NoVolume]]

HasPool(s, p)      == s.pools[p] # NoName
HasVolume(s, p, v) == s.vols[<<p, v>>] # NoVolume
TargetOf(s, p)     == [id |-> p, name |-> s.pools[p]]
PathOf(s, p, v)    == DiskPath[<<s.pools[p], s.vols[<<p, v>>].name>>]

PutPool(s, p, n)   == [s EXCEPT !.pools[p] = n]
PutVolume(s, p, v, vol) == [s EXCEPT !.vols[<<p, v>>] = vol]
\* Mutant: a deleted volume is blanked, not removed.
DropVolume_blanks(s, p, v) == [s EXCEPT !.vols[<<p, v>>].name = NoName]
DropVolume(s, p, v) == [s EXCEPT !.vols[<<p, v>>] = NoVolume]
\* Mutant: the volumes of a deleted pool stay.
DropPool_keepsVolumes(s, p) == [s EXCEPT !.pools[p] = NoName]
DropPool(s, p)     == [s EXCEPT !.pools[p] = NoName,
                                !.vols = [k \in Ids \X Ids |->
                                            IF k[1] = p THEN NoVolume ELSE @[k]]]

(* The state file: missing, cut short by a crash or a failed write, or the *)
(* JSON of a state.                                                        *)
FileOf(s) == [kind |-> "state", st |-> s]
NoneFile  == [kind |-> "none", st |-> EmptyState]
TornFile  == [kind |-> "torn", st |-> EmptyState]

(* A call and its local variables; target is the snapshot taken before     *)
(* the lock.                                                               *)
ZeroTarget == [id |-> 0, name |-> NoName]
Call == [op : {"none", "CreatePool", "DeletePool", "CreateVolume", "DeleteVolume"},
         pc : {"idle", "lock", "store", "lun", "file", "save", "write"},
         pool : Ids, vol : Ids, name : Names \cup {NoName}, size : Int,
         target : Target \cup {ZeroTarget}]
IdleCall == [op |-> "none", pc |-> "idle", pool |-> 0, vol |-> 0,
             name |-> NoName, size |-> 0, target |-> ZeroTarget]

Rec == [pc : {"idle", "targets", "pools", "portals", "luns", "volumes", "store",
              "lun", "gc", "save", "write"},
        pools : SUBSET Ids, vols : SUBSET (Ids \X Ids),  \* still to visit
        pool : Ids, vol : Ids, size : Int]               \* being visited
RecAt(pc) == [pc |-> pc, pools |-> {}, vols |-> {}, pool |-> 0, vol |-> 0, size |-> 0]

Budget == [requests : 0..MaxRequests, faults : 0..MaxFaults,
           crashes : 0..MaxCrashes, writes : 0..MaxWrites]

(* Ghost keys: <<p, 0>> is pool p (no volume has id 0), <<p, v>> volume v. *)
Known(s, k) == IF k[2] = 0 THEN HasPool(s, k[1]) ELSE HasVolume(s, k[1], k[2])

-----------------------------------------------------------------------------
(* Parts of actions                                                        *)

Truncate(n) == n % (MaxU16 + 1)                                 \* uint16(n)
AsInt64(n)  == IF n > MaxI64 THEN n - 2 * (MaxI64 + 1) ELSE n   \* int64(n)

Spend(what, bound) == /\ budget[what] < bound
                      /\ budget' = [budget EXCEPT ![what] = @ + 1]
\* An outcome with an I/O error is possible while the model has one left.
Charge(r) == IF r.fault THEN Spend("faults", MaxFaults) ELSE UNCHANGED budget

At(h, op, pc)  == server = "up" /\ call[h].op = op /\ call[h].pc = pc
Holds(h, op, pc) == At(h, op, pc) /\ writer = h
LockFree       == writer = Nobody /\ rec.pc = "idle"

\* The handler goes on at pc, holding the lock, or returns and releases it.
Continue(h, pc) == call' = [call EXCEPT ![h].pc = pc] /\ writer' = h
\* Mutant: a return without the unlock.
Return_locked(h) == call' = [call EXCEPT ![h] = IdleCall] /\ writer' = h
Return(h)       == call' = [call EXCEPT ![h] = IdleCall] /\ writer' = Nobody

\* The ghost keys a call is about.
Keys(c) == CASE c.op = "CreatePool" -> {<<c.pool, 0>>}
             [] c.op = "DeletePool" -> {c.pool} \X Ids
             [] OTHER               -> {<<c.pool, c.vol>>} \ (Ids \X {0})

Forget(keys) == acked' = [k \in Ids \X Ids |-> IF k \in keys THEN "unknown" ELSE acked[k]]

Enter(h, op, pool, vol, name, target) ==
    /\ call' = [call EXCEPT ![h] = [op |-> op, pc |-> "lock", pool |-> pool,
                  vol |-> vol, name |-> name, size |-> 0, target |-> target]]
    /\ Spend("requests", MaxRequests)
    /\ UNCHANGED <<server, st, file, cfs, disk, writer, rec, portal, acked>>

-----------------------------------------------------------------------------
(* SaveState, the last thing every handler does, still under the lock:     *)
(* the file is truncated when it is opened, then written.                  *)

SaveOpen(h) ==
    /\ server = "up" /\ writer = h /\ call[h].pc = "save"
    /\ \/ file' = TornFile /\ Continue(h, "write") /\ UNCHANGED budget
       \/ Spend("faults", MaxFaults) /\ Return(h) /\ UNCHANGED file
    /\ UNCHANGED <<server, st, cfs, disk, rec, portal, acked>>

\* The reply: an OK tells the client what became of the keys of its call.
SaveWrite(h) ==
    /\ server = "up" /\ writer = h /\ call[h].pc = "write"
    /\ \/ /\ file' = FileOf(st)
          /\ acked' = [k \in Ids \X Ids |->
                         IF k \notin Keys(call[h]) THEN acked[k]
                         ELSE IF call[h].op \in {"CreatePool", "CreateVolume"}
                              THEN "present" ELSE "absent"]
          /\ UNCHANGED budget
       \/ Spend("faults", MaxFaults) /\ UNCHANGED <<file, acked>>
    /\ Return(h)
    /\ UNCHANGED <<server, st, cfs, disk, rec, portal>>

-----------------------------------------------------------------------------
(* CreatePool                                                              *)

\* The first id from 1 to 65534 without a tpgt, or 0.
FreePoolId(c) ==
    LET free == 1..(MaxU16 - 1) \ {t.id : t \in ListTargets(c)}
    IN  IF free = {} THEN 0 ELSE Min(free)

\* Before the lock: an explicit id is cut to 16 bits, a missing one is chosen
\* from what the kernel has now.
CreatePool(h) ==
    /\ server = "up" /\ call[h] = IdleCall
    /\ \E arg \in PoolArgs \cup {Absent}, n \in NameArgs \cup {NoName} :
         LET p == IF arg = Absent THEN FreePoolId(cfs) ELSE Truncate(arg)
         IN  p # 0 /\ Enter(h, "CreatePool", p, 0, n, ZeroTarget)

PoolName(c) == IF c.name = NoName THEN DecimalName[c.pool] ELSE c.name

\* Under the lock: only the id can conflict (the name compared is still "").
CreatePoolLocked(h) ==
    LET p == call[h].pool
        n == PoolName(call[h])
    IN  /\ At(h, "CreatePool", "lock") /\ LockFree
        /\ \/ /\ HasPool(st, p)
              /\ Return(h) /\ UNCHANGED <<st, cfs, acked, budget>>
           \/ /\ ~HasPool(st, p)
              /\ \E r \in UpsertTarget(cfs, [id |-> p, name |-> n]) :
                   /\ Charge(r)
                   /\ cfs' = r.c
                   /\ IF r.ok
                      THEN /\ st' = PutPool(st, p, n)
                           /\ Forget(Keys(call[h])) /\ Continue(h, "save")
                      ELSE Return(h) /\ UNCHANGED <<st, acked>>
        /\ UNCHANGED <<server, file, disk, rec, portal>>

-----------------------------------------------------------------------------
(* DeletePool                                                              *)

\* Before the lock: the first tpgt with this id, else the zero Target.
DeletePool(h) ==
    /\ server = "up" /\ call[h] = IdleCall
    /\ \E arg \in PoolArgs :
         LET p     == Truncate(arg)
             named == {t.name : t \in {t \in ListTargets(cfs) : t.id = p}}
         IN  Enter(h, "DeletePool", p, 0, NoName,
                   IF named = {} THEN ZeroTarget ELSE [id |-> p, name |-> Min(named)])

\* Under the lock: the target of the snapshot goes, then pool p of the state,
\* its volumes with it (their backstores and images stay).
DeletePoolLocked(h) ==
    LET p == call[h].pool
        t == call[h].target
    IN  /\ At(h, "DeletePool", "lock") /\ LockFree
        /\ \E r \in IF t = ZeroTarget THEN DeleteZeroTarget(cfs) ELSE DeleteTarget(cfs, t) :
             /\ Charge(r)
             /\ cfs' = r.c
             /\ IF r.ok
                THEN st' = DropPool(st, p) /\ Forget(Keys(call[h])) /\ Continue(h, "save")
                ELSE Return(h) /\ UNCHANGED <<st, acked>>
        /\ UNCHANGED <<server, file, disk, rec, portal>>

-----------------------------------------------------------------------------
(* CreateVolume                                                            *)

\* One above every id seen, cut to 16 bits; 1 when the kernel has no backstore.
\* Mutant: MaxLUNID is not looked at.
NextVolumeId_kernelOnly(s, c) ==
    LET ids == {b.id : b \in ListBackstores(c)}
    IN  IF ids = {} THEN 1 ELSE Truncate(Max(ids) + 1)
NextVolumeId(s, c) ==
    LET ids == {b.id : b \in ListBackstores(c)}
    IN  IF ids = {} THEN 1 ELSE Truncate(Max(ids \cup {s.MaxLUNID}) + 1)

VolumeName(v, n) == IF n = NoName THEN DecimalName[v] ELSE n

\* MaxLUNID is raised before the pool and the conflict are checked; as in
\* CreatePool only the id can conflict, and only within the pool.
CreateVolume(h) ==
    /\ server = "up" /\ call[h] = IdleCall /\ LockFree
    /\ budget.requests < MaxRequests
    /\ \E parg \in PoolArgs, varg \in VolArgs \cup {Absent},
          n \in NameArgs \cup {NoName}, z \in SizeArgs :
         LET p == Truncate(parg)
             v == IF varg = Absent THEN NextVolumeId(st, cfs) ELSE Truncate(varg)
             s == [st EXCEPT !.MaxLUNID = Max({@, v})]
             path == DiskPath[<<st.pools[p], VolumeName(v, n)>>]
         IN  /\ v # 0
             /\ st' = s
             /\ \/ /\ ~HasPool(st, p) \/ HasVolume(st, p, v)
                   /\ Spend("requests", MaxRequests)
                   /\ UNCHANGED <<disk, call, writer>>
                \/ /\ HasPool(st, p) /\ ~HasVolume(st, p, v)
                   /\ \E r \in TouchDiskFile(disk, path, AsInt64(z)) :
                        /\ r.fault => budget.faults < MaxFaults
                        /\ budget' = [budget EXCEPT !.requests = @ + 1,
                                        !.faults = @ + IF r.fault THEN 1 ELSE 0]
                        /\ disk' = r.d
                        /\ IF r.ok
                           THEN /\ writer' = h
                                /\ call' = [call EXCEPT ![h] =
                                     [op |-> "CreateVolume", pc |-> "store", pool |-> p,
                                      vol |-> v, name |-> VolumeName(v, n),
                                      size |-> AsInt64(z), target |-> ZeroTarget]]
                           ELSE UNCHANGED <<call, writer>>
    /\ UNCHANGED <<server, file, cfs, rec, portal, acked>>

\* The backstore, with fd_dev_size=0.
\* Mutant: the names in the path of the image are swapped.
CreateVolumeStore_swapped(h) ==
    LET c == call[h]
        path == DiskPath[<<c.name, st.pools[c.pool]>>]
    IN  /\ Holds(h, "CreateVolume", "store")
        /\ \E r \in UpsertBackstore(cfs, c.vol, c.name, path, 0) :
             /\ Charge(r)
             /\ cfs' = r.c
             /\ IF r.ok THEN Continue(h, "lun") ELSE Return(h)
        /\ UNCHANGED <<server, st, file, disk, rec, portal, acked>>
CreateVolumeStore(h) ==
    LET c == call[h]
        path == DiskPath[<<st.pools[c.pool], c.name>>]
    IN  /\ Holds(h, "CreateVolume", "store")
        /\ \E r \in UpsertBackstore(cfs, c.vol, c.name, path, 0) :
             /\ Charge(r)
             /\ cfs' = r.c
             /\ IF r.ok THEN Continue(h, "lun") ELSE Return(h)
        /\ UNCHANGED <<server, st, file, disk, rec, portal, acked>>

\* The LUN, then the state in memory.
CreateVolumeLun(h) ==
    LET c == call[h]
    IN  /\ Holds(h, "CreateVolume", "lun")
        /\ \E r \in UpsertLUN(cfs, TargetOf(st, c.pool), c.vol, c.vol, c.name) :
             /\ Charge(r)
             /\ cfs' = r.c
             /\ IF r.ok
                THEN /\ st' = PutVolume(st, c.pool, c.vol, [name |-> c.name, size |-> c.size])
                     /\ Forget(Keys(c)) /\ Continue(h, "save")
                ELSE Return(h) /\ UNCHANGED <<st, acked>>
        /\ UNCHANGED <<server, file, disk, rec, portal>>

-----------------------------------------------------------------------------
(* DeleteVolume                                                            *)

\* Before the lock: the last tpgt whose id equals the 32-bit pool id (a larger
\* one matches none and is rejected).  The listings of LUNs and backstores only
\* decide the status that is reported.
DeleteVolume(h) ==
    /\ server = "up" /\ call[h] = IdleCall
    /\ \E p \in PoolArgs \cap Ids, varg \in VolArgs :
         LET named == {t.name : t \in {t \in ListTargets(cfs) : t.id = p}}
         IN  /\ named # {}
             /\ Enter(h, "DeleteVolume", p, Truncate(varg), NoName,
                      [id |-> p, name |-> Max(named)])

\* Under the lock: the LUN of the snapshot's target,
DeleteVolumeLocked(h) ==
    LET c == call[h]
    IN  /\ At(h, "DeleteVolume", "lock") /\ LockFree
        /\ \E r \in DeleteLUN(cfs, c.target, c.vol) :
             /\ Charge(r)
             /\ cfs' = r.c
             /\ IF r.ok THEN Continue(h, "store") ELSE Return(h)
        /\ UNCHANGED <<server, st, file, disk, rec, portal, acked>>

\* every backstore of the HBA,
\* Mutant: the error of DeleteBackstore is dropped.
DeleteVolumeStore_goesOn(h) ==
    /\ Holds(h, "DeleteVolume", "store")
    /\ \E r \in DeleteBackstore(cfs, call[h].vol) :
         Charge(r) /\ cfs' = r.c /\ Continue(h, "file")
    /\ UNCHANGED <<server, st, file, disk, rec, portal, acked>>
DeleteVolumeStore(h) ==
    /\ Holds(h, "DeleteVolume", "store")
    /\ \E r \in DeleteBackstore(cfs, call[h].vol) :
         /\ Charge(r)
         /\ cfs' = r.c
         /\ IF r.ok THEN Continue(h, "file") ELSE Return(h)
    /\ UNCHANGED <<server, st, file, disk, rec, portal, acked>>

\* the image of the volume in the state, if it is there, and the volume.
DeleteVolumeFile(h) ==
    LET p == call[h].pool
        v == call[h].vol
    IN  /\ Holds(h, "DeleteVolume", "file")
        /\ \E r \in IF HasVolume(st, p, v) THEN DeleteDiskFile(cfs, disk, PathOf(st, p, v))
                    ELSE {[ok |-> TRUE, fault |-> FALSE, c |-> cfs, d |-> disk]} :
             /\ Charge(r)
             /\ cfs' = r.c /\ disk' = r.d
             /\ IF r.ok
                THEN st' = DropVolume(st, p, v) /\ Forget(Keys(call[h])) /\ Continue(h, "save")
                ELSE Return(h) /\ UNCHANGED <<st, acked>>
        /\ UNCHANGED <<server, file, rec, portal>>

-----------------------------------------------------------------------------
(* GetPool and GetVolume by name, under RLock: the ids they can answer (they *)
(* take the first match of a map, in any order), none for NotFound.        *)

GetPoolByName(s, n) == {p \in Ids : s.pools[p] = n /\ n # NoName}

\* GetVolume compares the name it is asked for with the pool's.
GetVolumeByName(s, p, n) == {v \in Ids : HasVolume(s, p, v) /\ s.pools[p] = n}

-----------------------------------------------------------------------------
(* ReconcileAll: the kernel is made to follow the state, one target, pool, *)
(* LUN, volume and backstore after the other; the first error ends it, and *)
(* during boot the process with it.                                        *)

Proceed(r) == rec' = r /\ UNCHANGED <<server, st>>
Stop     == /\ rec' = RecAt("idle")
            /\ IF server = "booting" THEN server' = "down" /\ st' = EmptyState
                                     ELSE UNCHANGED <<server, st>>

\* A call of a kernel function in it: on to r if it succeeded.
Apply(outcomes, r) == \E o \in outcomes :
    /\ Charge(o) /\ cfs' = o.c /\ (IF o.ok THEN Proceed(r) ELSE Stop)

ReconcileStart ==
    /\ server = "up" /\ LockFree
    /\ rec' = RecAt("targets")
    /\ UNCHANGED <<server, st, file, cfs, disk, call, writer, portal, acked, budget>>

\* Targets whose id is no pool's, whatever their name.
\* Mutant: targets of deleted pools stay.
StaleTargets_none == {}
StaleTargets == {t \in ListTargets(cfs) : ~HasPool(st, t.id)}

ReconcileTargets ==
    /\ rec.pc = "targets"
    /\ \/ /\ StaleTargets = {}
          /\ Proceed([RecAt("pools") EXCEPT !.pools = {p \in Ids : HasPool(st, p)}])
          /\ UNCHANGED <<cfs, budget>>
       \/ \E t \in StaleTargets :
            /\ \A u \in StaleTargets : t.name <= u.name
            /\ Apply(DeleteTarget(cfs, t), rec)
    /\ UNCHANGED <<file, disk, call, writer, portal, acked>>

ReconcilePool ==
    /\ rec.pc = "pools"
    /\ \/ /\ rec.pools = {}
          /\ Proceed([RecAt("volumes") EXCEPT
                     !.vols = {k \in Ids \X Ids : HasVolume(st, k[1], k[2])}])
          /\ UNCHANGED <<cfs, budget>>
       \/ \E p \in rec.pools :
            Apply(UpsertTarget(cfs, TargetOf(st, p)),
                  [rec EXCEPT !.pc = "portals", !.pools = @ \ {p}, !.pool = p])
    /\ UNCHANGED <<file, disk, call, writer, portal, acked>>

ReconcilePortals ==
    /\ rec.pc = "portals"
    /\ Apply(UpsertOnlyPortal(cfs, TargetOf(st, rec.pool), portal),
             [rec EXCEPT !.pc = "luns"])
    /\ UNCHANGED <<file, disk, call, writer, portal, acked>>

\* LUNs of the pool's target whose number is no volume's of the pool.
\* Mutant: pool and volume id are swapped.
StaleLUNs_swapped == {l \in ListLUNs(cfs, TargetOf(st, rec.pool)) : ~HasVolume(st, l, rec.pool)}
StaleLUNs == {l \in ListLUNs(cfs, TargetOf(st, rec.pool)) : ~HasVolume(st, rec.pool, l)}

ReconcileLUNs ==
    /\ rec.pc = "luns"
    /\ \/ /\ StaleLUNs = {}
          /\ Proceed([rec EXCEPT !.pc = "pools", !.pool = 0])
          /\ UNCHANGED <<cfs, budget>>
       \/ \E l \in StaleLUNs : Apply(DeleteLUN(cfs, TargetOf(st, rec.pool), l), rec)
    /\ UNCHANGED <<file, disk, call, writer, portal, acked>>

\* The volumes, pool after pool, each pool's in any order.
ReconcileVolume ==
    /\ rec.pc = "volumes"
    /\ \/ /\ rec.vols = {}
          /\ Proceed(RecAt("gc"))
          /\ UNCHANGED <<disk, budget>>
       \/ \E k \in rec.vols :
            /\ k[1] = rec.pool \/ \A j \in rec.vols : j[1] # rec.pool
            /\ \E r \in TouchDiskFile(disk, PathOf(st, k[1], k[2]),
                                      Max({GiB, st.vols[k].size})) :
                 /\ Charge(r)
                 /\ disk' = r.d
                 /\ IF r.ok
                    THEN Proceed([rec EXCEPT !.pc = "store", !.vols = @ \ {k},
                                  !.pool = k[1], !.vol = k[2], !.size = r.size])
                    ELSE Stop
    /\ UNCHANGED <<file, cfs, call, writer, portal, acked>>

ReconcileStore ==
    /\ rec.pc = "store"
    /\ Apply(UpsertBackstore(cfs, rec.vol, st.vols[<<rec.pool, rec.vol>>].name,
                             PathOf(st, rec.pool, rec.vol), rec.size),
             [rec EXCEPT !.pc = "lun"])
    /\ UNCHANGED <<file, disk, call, writer, portal, acked>>

\* Mutant: a LUN is not made again.
ReconcileLun_skips ==
    /\ rec.pc = "lun" /\ Proceed([rec EXCEPT !.pc = "volumes", !.vol = 0, !.size = 0])
    /\ UNCHANGED <<file, cfs, disk, call, writer, portal, acked, budget>>
ReconcileLun ==
    /\ rec.pc = "lun"
    /\ Apply(UpsertLUN(cfs, TargetOf(st, rec.pool), rec.vol, rec.vol,
                       st.vols[<<rec.pool, rec.vol>>].name),
             [rec EXCEPT !.pc = "volumes", !.vol = 0, !.size = 0])
    /\ UNCHANGED <<file, disk, call, writer, portal, acked>>

\* HBAs whose listed backstore is no volume's.
\* Mutants: backstores nobody wants stay; pool and volume id are swapped.
StaleHBAs_none    == {}
StaleHBAs_swapped == {b.id : b \in {b \in ListBackstores(cfs) :
                         \A p \in Ids : st.vols[<<b.id, p>>].name # b.name}}
StaleHBAs == {b.id : b \in {b \in ListBackstores(cfs) :
                 \A p \in Ids : st.vols[<<p, b.id>>].name # b.name}}

ReconcileBackstores ==
    /\ rec.pc = "gc"
    /\ \/ /\ StaleHBAs = {}
          /\ Proceed(RecAt(IF server = "booting" THEN "save" ELSE "idle"))
          /\ UNCHANGED <<cfs, budget>>
       \/ \E i \in StaleHBAs : Apply(DeleteBackstore(cfs, i), rec)
    /\ UNCHANGED <<file, disk, call, writer, portal, acked>>

\* SetupLIO or a listing fails: nothing has changed since the last step.
ReconcileFails ==
    /\ rec.pc \notin {"idle", "save", "write"}
    /\ Spend("faults", MaxFaults) /\ Stop
    /\ UNCHANGED <<file, cfs, disk, call, writer, portal, acked>>

-----------------------------------------------------------------------------
(* The process                                                             *)

\* LoadState: a missing file is an empty state, a torn one is an error.
\* Mutant: a torn file is taken for a missing one.
Loadable_any(f) == TRUE
Loadable(f)     == f.kind # "torn"

Boot ==
    /\ server = "down" /\ Loadable(file)
    /\ server' = "booting"
    /\ st' = file.st
    /\ rec' = RecAt("targets")
    /\ portal' \in Portals
    /\ UNCHANGED <<file, cfs, disk, call, writer, acked, budget>>

\* SaveState after the initial reconcile; then the server serves.
BootSaveOpen ==
    /\ rec.pc = "save"
    /\ \/ file' = TornFile /\ Proceed(RecAt("write")) /\ UNCHANGED budget
       \/ Spend("faults", MaxFaults) /\ Stop /\ UNCHANGED file
    /\ UNCHANGED <<cfs, disk, call, writer, portal, acked>>

BootSaveWrite ==
    /\ rec.pc = "write"
    /\ \/ /\ file' = FileOf(st) /\ server' = "up"
          /\ rec' = RecAt("idle") /\ UNCHANGED <<st, budget>>
       \/ Spend("faults", MaxFaults) /\ Stop /\ UNCHANGED file
    /\ UNCHANGED <<cfs, disk, call, writer, portal, acked>>

\* The process dies (a signal, a panic); configfs and the files stay.
Die == /\ server # "down" /\ server' = "down"
       /\ st' = EmptyState /\ rec' = RecAt("idle")
       /\ call' = [h \in Handlers |-> IdleCall] /\ writer' = Nobody
       /\ Spend("crashes", MaxCrashes)
       /\ UNCHANGED <<file, disk, portal, acked>>

Crash  == Die /\ UNCHANGED cfs
\* The machine restarts in good order: configfs is empty, the files stay.
Reboot == Die /\ cfs' = EmptyCfs

\* An initiator writes to the exported LUN of link k, and so to the file that its
\* backstore has open, at a path or not.
ClientWrite(k) ==
    /\ Spend("writes", MaxWrites)
    /\ \E a \in Portals : <<k[1], a>> \in cfs.portals
    /\ \E s \in cfs.stores :
         /\ s.id = k[3] /\ s.name = k[4]
         /\ \/ /\ s.path \in Paths /\ disk[s.path] # NoFile
               /\ disk' = [disk EXCEPT ![s.path].data = TRUE]
            \/ s.path = Unlinked /\ UNCHANGED disk
    /\ UNCHANGED <<server, st, file, cfs, call, writer, rec, portal, acked>>

-----------------------------------------------------------------------------
Init ==
    /\ server = "down" /\ st = EmptyState /\ file = NoneFile
    /\ cfs = EmptyCfs /\ disk = [q \in Paths |-> NoFile]
    /\ call = [h \in Handlers |-> IdleCall] /\ writer = Nobody
    /\ rec = RecAt("idle") /\ portal \in Portals
    /\ acked = [k \in Ids \X Ids |-> "unknown"]
    /\ budget = [requests |-> 0, faults |-> 0, crashes |-> 0, writes |-> 0]

Arrive(h) == CreatePool(h) \/ DeletePool(h) \/ CreateVolume(h) \/ DeleteVolume(h)
Lock(h)   == CreatePoolLocked(h) \/ DeletePoolLocked(h) \/ DeleteVolumeLocked(h)
Work(h)   == \/ CreateVolumeStore(h) \/ CreateVolumeLun(h)
             \/ DeleteVolumeStore(h) \/ DeleteVolumeFile(h)
             \/ SaveOpen(h) \/ SaveWrite(h)
Handle(h) == Arrive(h) \/ Lock(h) \/ Work(h)

Reconcile == \/ ReconcileTargets \/ ReconcilePool \/ ReconcilePortals
             \/ ReconcileLUNs \/ ReconcileVolume \/ ReconcileStore
             \/ ReconcileLun \/ ReconcileBackstores

Next == \/ \E h \in Handlers : Handle(h)
        \/ ReconcileStart \/ Reconcile \/ ReconcileFails
        \/ Boot \/ BootSaveOpen \/ BootSaveWrite
        \/ Crash \/ Reboot \/ \E k \in cfs.links : ClientWrite(k)

Spec == Init /\ [][Next]_vars

(***************************************************************************)
(* Fairness.  Goroutines that can run do run (weak fairness).  StateMutex  *)
(* does not starve a waiter: a blocked Lock keeps new readers out, and     *)
(* waiting readers go before the next writer (strong fairness of both).    *)
(* A started process goes on booting.                                      *)
(***************************************************************************)
Fairness == /\ \A h \in Handlers : SF_vars(Lock(h)) /\ WF_vars(Work(h))
            /\ SF_vars(ReconcileStart) /\ WF_vars(Reconcile)
            /\ WF_vars(BootSaveOpen \/ BootSaveWrite)

FairSpec == Spec /\ Fairness

-----------------------------------------------------------------------------
(* Properties                                                              *)

\* Every variable has its type (the shape of Server, State and the locals of
\* the handlers in sigma.go).
TypeOK ==
    /\ server \in {"down", "booting", "up"}
    /\ st \in State
    /\ file \in [kind : {"none", "torn", "state"}, st : State]
    /\ cfs \in Cfs
    /\ disk \in [Paths -> DiskFile]
    /\ call \in [Handlers -> Call]
    /\ writer \in Handlers \cup {Nobody}
    /\ rec \in Rec
    /\ portal \in Portals
    /\ acked \in [Ids \X Ids -> {"unknown", "present", "absent"}]
    /\ budget \in Budget

\* What a client was told with an OK still holds whenever the server serves,
\* whatever crashed or failed since: a created pool or volume is in the state,
\* a deleted one is not (SaveState before every OK, LoadState at boot).
AckedOutcomesHold ==
    server = "up" => \A k \in Ids \X Ids :
        /\ acked[k] = "present" => Known(st, k)
        /\ acked[k] = "absent"  => ~Known(st, k)

\* Every volume, in memory and in a state file that can be loaded, has a pool
\* and an id from 1 to MaxLUNID: the counter the next id is taken from is never
\* behind, not even after a crash (CreateVolume raises it, SaveState keeps it).
WellNumbered(s) == \A p, v \in Ids :
    HasVolume(s, p, v) => HasPool(s, p) /\ v # 0 /\ v <= s.MaxLUNID
IdsBounded == WellNumbered(st) /\ (file.kind = "state" => WellNumbered(file.st))

\* As long as the kernel has any backstore, the id CreateVolume generates is
\* used by no volume of any pool, no backstore and no LUN's link; or there is
\* none left (sigma.go's TODO asks for this check).
NextVolumeIdIsFresh ==
    (server = "up" /\ LockFree /\ cfs.stores # {}) =>
        LET v == NextVolumeId(st, cfs)
        IN  v = 0 \/ /\ \A p \in Ids : ~HasVolume(st, p, v)
                     /\ \A s \in cfs.stores : s.id # v
                     /\ \A k \in cfs.links : k[3] # v

\* The LUN of a volume in the state, exported by its pool's target, loses its
\* link only in a step of a DeleteVolume of that volume or of a DeletePool of that
\* pool, or in a restart of the machine: never to ReconcileAll, at boot or later,
\* nor to a call about another pool or volume, whatever target it listed.
OnlyOwnerUnexports ==
    [][ \A k \in cfs.links \ cfs'.links :
          (HasVolume(st, k[1].id, k[2]) /\ k[1] = TargetOf(st, k[1].id)) =>
             \/ budget'.crashes # budget.crashes
             \/ \E h \in Handlers :
                  /\ call'[h] # call[h] /\ call[h].pool = k[1].id
                  /\ \/ call[h].op = "DeletePool"
                     \/ call[h].op = "DeleteVolume" /\ call[h].vol = k[2] ]_vars

\* When DeleteVolume answers OK, the kernel serves nothing of that volume id:
\* no backstore and no link to one is left, even if the target it unlinked was
\* listed before another call replaced the pool.
DeletedMeansGone ==
    [][ \A h \in Handlers :
          (call[h].op = "DeleteVolume" /\ call[h].pc = "write" /\ acked' # acked) =>
             /\ \A s \in cfs.stores : s.id # call[h].vol
             /\ \A k \in cfs.links : k[3] # call[h].vol ]_vars

\* When ReconcileAll has come to the backstores nobody wants, the kernel follows
\* the state: no target of an unknown pool, every pool's target on this portal
\* only, its LUNs exactly the pool's volumes, each with a backstore behind it.
KernelFollows ==
    /\ \A t \in cfs.tpgs : HasPool(st, t.id)
    /\ \A p \in Ids : HasPool(st, p) =>
         LET t == TargetOf(st, p)
         IN  /\ t \in cfs.tpgs
             /\ \A a \in Portals : <<t, a>> \in cfs.portals <=> a = portal
             /\ ListLUNs(cfs, t) = {v \in Ids : HasVolume(st, p, v)}
             /\ \A v \in ListLUNs(cfs, t) : \E k \in LinkOf(cfs, t, v) : Enabled(cfs, k[3], k[4])
ReconcileEstablishes == rec.pc = "gc" => KernelFollows

\* A target under a name its pool does not have (any more): ReconcileAll, which
\* looks at the id alone, keeps it and its LUNs as long as the pool is there.
Misnamed(t) == HasPool(st, t.id) /\ t # TargetOf(st, t.id)

\* The kernel refuses to give ReconcileAll a backstore that nobody wants only
\* when the HBA also holds one that a volume of this id uses, or when a misnamed
\* target links it.  Nothing else can make ReconcileAll fail time after time,
\* and with it the next boot of the server.
WedgedByNamesOnly ==
    rec.pc = "gc" => \A i \in StaleHBAs : LinkedNames(cfs, i) # {} =>
        \/ /\ \E p \in Ids : HasVolume(st, p, i)
           /\ \E m, n \in NamesOf(cfs, i) : m # n
        \/ \E k \in cfs.links : k[3] = i /\ Misnamed(k[1])

\* Every call returns (or dies with the process): nobody keeps StateMutex.
CallsReturn == \A h \in Handlers : call[h].op # "none" ~> call[h].op = "none"

\* A volume in the state of a serving server gets its LUN back, whatever a call
\* that failed half-way took away (the background ReconcileAll).
VolumesGetExported == \A p, v \in Ids :
    (server = "up" /\ HasVolume(st, p, v)) ~>
        (server # "up" \/ ~HasVolume(st, p, v) \/ LinkOf(cfs, TargetOf(st, p), v) # {})

\* Backstores left behind (by DeletePool, a crash, a failed call) under an id
\* that no volume has are removed, unless some HBA holds two names or a target
\* is misnamed.
LeftoversCollected == \A i \in Ids :
    (server = "up" /\ NamesOf(cfs, i) # {}) ~>
        \/ server # "up" \/ NamesOf(cfs, i) = {} \/ \E p \in Ids : HasVolume(st, p, i)
        \/ \E j \in Ids : \E m, n \in NamesOf(cfs, j) : m # n
        \/ \E t \in cfs.tpgs : Misnamed(t)

-----------------------------------------------------------------------------
(* The inductive invariant behind TypeOK, IdsBounded and AckedOutcomesHold *)

\* StateMutex: the handler past its Lock is the writer, there is none while
\* ReconcileAll holds RLock, and nobody runs in a server that is not up.
LocksOK ==
    /\ \A h \in Handlers : call[h].pc \notin {"idle", "lock"} <=> writer = h
    /\ writer # Nobody => rec.pc = "idle" /\ server = "up"
    /\ server # "up" => \A h \in Handlers : call[h] = IdleCall
    /\ server = "down" => rec.pc = "idle" /\ st = EmptyState
    /\ server = "booting" => rec.pc # "idle"
    /\ rec.pc \in {"save", "write"} => server = "booting"

\* The writer's locals: the pool it creates a volume in is there, the id it
\* chose is counted, and what it is about to save is what it was asked for.
CallsOK == \A h \in Handlers : LET c == call[h] IN
    /\ (c.op = "CreateVolume" /\ c.pc \in {"store", "lun"}) =>
          HasPool(st, c.pool) /\ c.name \in Names /\ c.vol # 0 /\ c.vol <= st.MaxLUNID
    /\ c.pc \in {"save", "write"} =>
          \A k \in Keys(c) : Known(st, k) <=> c.op \in {"CreatePool", "CreateVolume"}

\* ReconcileAll visits pools and volumes of the state.
RecOK ==
    /\ rec.pc = "idle" => rec = RecAt("idle")
    /\ rec.pc \in {"portals", "luns"} => HasPool(st, rec.pool)
    /\ rec.pc \in {"store", "lun"} => HasVolume(st, rec.pool, rec.vol)
    /\ \A p \in rec.pools : HasPool(st, p)
    /\ \A k \in rec.vols : HasVolume(st, k[1], k[2])

\* The state, and what a boot would load, are well numbered and agree with
\* what clients were told.
AckAgrees(s) == \A k \in Ids \X Ids : /\ acked[k] = "present" => Known(s, k)
                                      /\ acked[k] = "absent"  => ~Known(s, k)
DurableOK ==
    /\ WellNumbered(st) /\ WellNumbered(file.st)
    /\ server # "down" => AckAgrees(st)
    /\ file.kind # "torn" => AckAgrees(file.st)

IInv == TypeOK /\ LocksOK /\ CallsOK /\ RecOK /\ DurableOK

-----------------------------------------------------------------------------
(* What messages of the code say, and the code does not keep               *)

\* A pool never has two volumes of one name ("volume with id %d and name %q
\* already exists in pool %d").
VolumeNamesUnique == \A p, v, w \in Ids :
    (HasVolume(st, p, v) /\ HasVolume(st, p, w) /\ v # w)
        => st.vols[<<p, v>>].name # st.vols[<<p, w>>].name

\* No two pools have one name ("pool with id %d and name %q already exists").
PoolNamesUnique == \A p, q \in Ids :
    (HasPool(st, p) /\ HasPool(st, q) /\ p # q) => st.pools[p] # st.pools[q]

\* GetVolume finds a volume under its name ("volume_name %s not found").
GetVolumeFindsName == \A p, v \in Ids :
    HasVolume(st, p, v) => GetVolumeByName(st, p, st.vols[<<p, v>>].name) # {}

\* A volume has more than 0 bytes ("volume needs to be more than 0 bytes in
\* size").
SizesPositive == \A k \in Ids \X Ids : st.vols[k] # NoVolume => st.vols[k].size > 0
=============================================================================
