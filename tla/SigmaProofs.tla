---------------------------- MODULE SigmaProofs ----------------------------
(***************************************************************************)
(* Proofs about the sigma server, for every number of handlers, ids, names *)
(* and requests: the inductive invariant IInv of Sigma, and from it type   *)
(* correctness, the bounds of volume ids and the durability of what        *)
(* clients were told.                                                      *)
(***************************************************************************)
EXTENDS Sigma, LioProofs, Extrema

USE LioAssumption, SigmaAssumption

-----------------------------------------------------------------------------
(* The operators the actions are built from                                *)

\* Ids are naturals, and 0 (the reserved id) is one of them.
LEMMA IdsNat == Ids \subseteq Nat /\ 0 \in Ids /\ IsFiniteSet(Ids)
BY FS_Interval DEF Ids

\* The conversion to uint16 yields an id.
LEMMA TruncateType == ASSUME NEW n \in Nat PROVE Truncate(n) \in Ids
BY DEF Truncate, Ids

\* The absent name and volume are not names and volumes.
LEMMA NoneTypes == NoName \notin Names /\ NoVolume \notin Volume /\ EmptyState \in State
BY IdsNat DEF NoName, NoVolume, Volume, EmptyState, State

\* Nothing is in the empty state.
LEMMA EmptyStateFacts ==
  /\ \A p, v \in Ids : ~HasPool(EmptyState, p) /\ ~HasVolume(EmptyState, p, v)
  /\ WellNumbered(EmptyState)
  /\ \A k \in Ids \X Ids : ~Known(EmptyState, k)
BY DEF EmptyState, HasPool, HasVolume, WellNumbered, Known

\* A pool in the state has a name, so a target.
LEMMA TargetType ==
  ASSUME NEW s \in State, NEW p \in Ids, HasPool(s, p)
  PROVE  TargetOf(s, p) \in Target /\ s.pools[p] \in Names
BY DEF State, HasPool, TargetOf, Target

\* A volume in the state has a name and a size, and its image a path.
LEMMA VolumeType ==
  ASSUME NEW s \in State, NEW p \in Ids, NEW v \in Ids, HasVolume(s, p, v), HasPool(s, p)
  PROVE  /\ s.vols[<<p, v>>] \in Volume
         /\ s.vols[<<p, v>>].name \in Names
         /\ s.vols[<<p, v>>].size \in Int
         /\ PathOf(s, p, v) \in Paths
<1>1. s.vols[<<p, v>>] \in Volume
  BY DEF State, HasVolume
<1>2. s.vols[<<p, v>>].name \in Names /\ s.vols[<<p, v>>].size \in Int
  BY <1>1 DEF Volume
<1>3. s.pools[p] \in Names
  BY TargetType
<1> QED BY <1>1, <1>2, <1>3 DEF PathOf

\* Putting pool p under name n changes nothing else.
LEMMA PutPoolFacts ==
  ASSUME NEW s \in State, NEW p \in Ids, NEW n \in Names
  PROVE  /\ PutPool(s, p, n) \in State
         /\ PutPool(s, p, n).MaxLUNID = s.MaxLUNID
         /\ PutPool(s, p, n).vols = s.vols
         /\ \A q \in Ids : HasPool(PutPool(s, p, n), q) <=> q = p \/ HasPool(s, q)
         /\ \A q, v \in Ids : HasVolume(PutPool(s, p, n), q, v) <=> HasVolume(s, q, v)
         /\ \A k \in Ids \X Ids : Known(PutPool(s, p, n), k) <=> k = <<p, 0>> \/ Known(s, k)
<1>1. PutPool(s, p, n) \in State /\ PutPool(s, p, n).MaxLUNID = s.MaxLUNID
      /\ PutPool(s, p, n).vols = s.vols
  BY DEF PutPool, State
<1>2. \A q \in Ids : HasPool(PutPool(s, p, n), q) <=> q = p \/ HasPool(s, q)
  BY NoneTypes DEF PutPool, State, HasPool
<1>3. \A q, v \in Ids : HasVolume(PutPool(s, p, n), q, v) <=> HasVolume(s, q, v)
  BY <1>1 DEF HasVolume
<1>4. \A k \in Ids \X Ids : Known(PutPool(s, p, n), k) <=> k = <<p, 0>> \/ Known(s, k)
  <2>1. ASSUME NEW a \in Ids, NEW b \in Ids
        PROVE  Known(PutPool(s, p, n), <<a, b>>) <=> <<a, b>> = <<p, 0>> \/ Known(s, <<a, b>>)
    BY <1>2, <1>3, IdsNat DEF Known
  <2> QED BY <2>1
<1> QED BY <1>1, <1>2, <1>3, <1>4

\* Dropping pool p drops its volumes and nothing else.
LEMMA DropPoolFacts ==
  ASSUME NEW s \in State, NEW p \in Ids
  PROVE  /\ DropPool(s, p) \in State
         /\ DropPool(s, p).MaxLUNID = s.MaxLUNID
         /\ \A q \in Ids : HasPool(DropPool(s, p), q) <=> q # p /\ HasPool(s, q)
         /\ \A q, v \in Ids : HasVolume(DropPool(s, p), q, v) <=> q # p /\ HasVolume(s, q, v)
         /\ \A k \in Ids \X Ids : Known(DropPool(s, p), k) <=> k[1] # p /\ Known(s, k)
<1>1. DropPool(s, p) \in State /\ DropPool(s, p).MaxLUNID = s.MaxLUNID
  BY DEF DropPool, State
<1>2. \A q \in Ids : HasPool(DropPool(s, p), q) <=> q # p /\ HasPool(s, q)
  BY DEF DropPool, State, HasPool
<1>3. \A q, v \in Ids : HasVolume(DropPool(s, p), q, v) <=> q # p /\ HasVolume(s, q, v)
  BY DEF DropPool, State, HasVolume
<1>4. \A k \in Ids \X Ids : Known(DropPool(s, p), k) <=> k[1] # p /\ Known(s, k)
  BY <1>2, <1>3 DEF Known
<1> QED BY <1>1, <1>2, <1>3, <1>4

\* Putting volume v in pool p changes nothing else.
LEMMA PutVolumeFacts ==
  ASSUME NEW s \in State, NEW p \in Ids, NEW v \in Ids, v # 0, NEW vol \in Volume
  PROVE  /\ PutVolume(s, p, v, vol) \in State
         /\ PutVolume(s, p, v, vol).MaxLUNID = s.MaxLUNID
         /\ PutVolume(s, p, v, vol).pools = s.pools
         /\ \A q \in Ids : HasPool(PutVolume(s, p, v, vol), q) <=> HasPool(s, q)
         /\ \A q, w \in Ids : HasVolume(PutVolume(s, p, v, vol), q, w)
                                <=> (q = p /\ w = v) \/ HasVolume(s, q, w)
         /\ \A k \in Ids \X Ids : Known(PutVolume(s, p, v, vol), k)
                                <=> k = <<p, v>> \/ Known(s, k)
<1>1. PutVolume(s, p, v, vol) \in State /\ PutVolume(s, p, v, vol).MaxLUNID = s.MaxLUNID
      /\ PutVolume(s, p, v, vol).pools = s.pools
  BY DEF PutVolume, State
<1>2. \A q \in Ids : HasPool(PutVolume(s, p, v, vol), q) <=> HasPool(s, q)
  BY <1>1 DEF HasPool
<1>3. \A q, w \in Ids : HasVolume(PutVolume(s, p, v, vol), q, w)
                          <=> (q = p /\ w = v) \/ HasVolume(s, q, w)
  BY NoneTypes DEF PutVolume, State, HasVolume
<1>4. \A k \in Ids \X Ids : Known(PutVolume(s, p, v, vol), k) <=> k = <<p, v>> \/ Known(s, k)
  BY <1>2, <1>3 DEF Known
<1> QED BY <1>1, <1>2, <1>3, <1>4

\* Dropping volume v of pool p changes nothing else.
LEMMA DropVolumeFacts ==
  ASSUME NEW s \in State, NEW p \in Ids, NEW v \in Ids
  PROVE  /\ DropVolume(s, p, v) \in State
         /\ DropVolume(s, p, v).MaxLUNID = s.MaxLUNID
         /\ DropVolume(s, p, v).pools = s.pools
         /\ \A q \in Ids : HasPool(DropVolume(s, p, v), q) <=> HasPool(s, q)
         /\ \A q, w \in Ids : HasVolume(DropVolume(s, p, v), q, w)
                                <=> ~(q = p /\ w = v) /\ HasVolume(s, q, w)
<1>1. DropVolume(s, p, v) \in State /\ DropVolume(s, p, v).MaxLUNID = s.MaxLUNID
      /\ DropVolume(s, p, v).pools = s.pools
  BY DEF DropVolume, State
<1>2. \A q \in Ids : HasPool(DropVolume(s, p, v), q) <=> HasPool(s, q)
  BY <1>1 DEF HasPool
<1>3. \A q, w \in Ids : HasVolume(DropVolume(s, p, v), q, w)
                          <=> ~(q = p /\ w = v) /\ HasVolume(s, q, w)
  BY DEF DropVolume, State, HasVolume
<1> QED BY <1>1, <1>2, <1>3

\* Raising MaxLUNID changes nothing else.
LEMMA RaiseFacts ==
  ASSUME NEW s \in State, NEW v \in Ids, NEW u,
         u = [s EXCEPT !.MaxLUNID = Max({@, v})]
  PROVE  /\ u \in State /\ u.pools = s.pools /\ u.vols = s.vols
         /\ u.MaxLUNID >= s.MaxLUNID /\ u.MaxLUNID >= v
<1>1. s.MaxLUNID \in Ids /\ s.MaxLUNID \in Int /\ v \in Int
  BY IdsNat DEF State
<1>2. Max({s.MaxLUNID, v}) = IF s.MaxLUNID >= v THEN s.MaxLUNID ELSE v
  BY <1>1, MaxOfTwo
<1> QED BY <1>1, <1>2 DEF State

\* The bounded counters stay in their bounds.
LEMMA SpendType ==
  ASSUME budget \in Budget
  PROVE  /\ Spend("requests", MaxRequests) => budget' \in Budget
         /\ Spend("faults", MaxFaults) => budget' \in Budget
         /\ Spend("crashes", MaxCrashes) => budget' \in Budget
         /\ Spend("writes", MaxWrites) => budget' \in Budget
         /\ \A r : Charge(r) => budget' \in Budget
<1>1. Spend("faults", MaxFaults) => budget' \in Budget
  BY DEF Spend, Budget
<1>2. Spend("requests", MaxRequests) => budget' \in Budget
  BY DEF Spend, Budget
<1>3. Spend("crashes", MaxCrashes) => budget' \in Budget
  BY DEF Spend, Budget
<1>4. Spend("writes", MaxWrites) => budget' \in Budget
  BY DEF Spend, Budget
<1>5. \A r : Charge(r) => budget' \in Budget
  BY <1>1 DEF Charge
<1> QED BY <1>1, <1>2, <1>3, <1>4, <1>5

\* TouchDiskFile leaves a disk, and returns a size.
LEMMA TouchType ==
  ASSUME NEW d \in [Paths -> DiskFile], NEW q \in Paths, NEW z \in Int,
         NEW r \in TouchDiskFile(d, q, z)
  PROVE  r.d \in [Paths -> DiskFile] /\ r.size \in Int
<1> DEFINE blank(y) == [d EXCEPT ![q] = [size |-> y, data |-> FALSE]]
           out(ok, fault, e, y) == [ok |-> ok, fault |-> fault, d |-> e, size |-> y]
           have == SizeOnDisk(d, q)
<1>1. have \in Nat
  BY DEF SizeOnDisk, DiskFile
<1>2. \A y \in Nat : blank(y) \in [Paths -> DiskFile]
  BY DEF DiskFile
<1>3. \/ r = out(d[q] # NoFile, FALSE, d, have)
      \/ r = out(FALSE, TRUE, d, 0)
      \/ z > 0 /\ r \in {out(TRUE, TRUE, blank(z), z), out(TRUE, FALSE, blank(z), z)}
      \/ r = out(FALSE, TRUE, blank(0), 0)
  <2>1. CASE have >= z
    BY <2>1, <1>1 DEF TouchDiskFile
  <2>2. CASE ~(have >= z)
    BY <2>2, <1>1 DEF TouchDiskFile
  <2> QED BY <2>1, <2>2
<1>4. blank(0) \in [Paths -> DiskFile] /\ (z > 0 => blank(z) \in [Paths -> DiskFile])
  BY <1>2
<1> HIDE DEF blank, have
<1>5. CASE r = out(d[q] # NoFile, FALSE, d, have) BY <1>5, <1>1
<1>6. CASE r = out(FALSE, TRUE, d, 0) BY <1>6
<1>7. CASE z > 0 /\ r \in {out(TRUE, TRUE, blank(z), z), out(TRUE, FALSE, blank(z), z)}
  BY <1>7, <1>4
<1>8. CASE r = out(FALSE, TRUE, blank(0), 0) BY <1>8, <1>4
<1> QED BY <1>3, <1>5, <1>6, <1>7, <1>8

\* DeleteDiskFile leaves a disk and a configuration.
LEMMA DeleteDiskType ==
  ASSUME NEW c \in Cfs, NEW d \in [Paths -> DiskFile], NEW q \in Paths,
         NEW r \in DeleteDiskFile(c, d, q)
  PROVE  r.d \in [Paths -> DiskFile] /\ r.c \in Cfs
<1>1. NoFile \in DiskFile
  BY DEF DiskFile
<1>2. [d EXCEPT ![q] = NoFile] \in [Paths -> DiskFile]
  BY <1>1
<1>3. CASE r = [ok |-> TRUE, fault |-> FALSE, c |-> Unlink(c, q), d |-> [d EXCEPT ![q] = NoFile]]
  BY <1>2, <1>3, UnlinkFacts
<1>4. CASE r = [ok |-> FALSE, fault |-> TRUE, c |-> c, d |-> d]
  BY <1>4
<1> QED BY <1>3, <1>4 DEF DeleteDiskFile

-----------------------------------------------------------------------------
(* The shapes of a step                                                    *)

\* A handler returns without a change of the state.
LEMMA ReturnStep ==
  ASSUME IInv, NEW h \in Handlers, server = "up", writer \in {h, Nobody}, Return(h),
         cfs' \in Cfs, disk' \in [Paths -> DiskFile], budget' \in Budget,
         UNCHANGED <<server, st, file, rec, portal, acked>>
  PROVE  IInv'
<1>1. IdleCall \in Call
  BY IdsNat DEF IdleCall, Call
<1>2. call' = [call EXCEPT ![h] = IdleCall] /\ writer' = Nobody
  BY DEF Return
<1>3. \A g \in Handlers : call'[g] = IF g = h THEN IdleCall ELSE call[g]
  BY <1>2 DEF IInv, TypeOK
<1>4. TypeOK'
  BY <1>1, <1>2 DEF IInv, TypeOK
<1>5. LocksOK'
  BY <1>2, <1>3 DEF IInv, LocksOK, IdleCall
<1>6. CallsOK'
  BY <1>3 DEF IInv, CallsOK, IdleCall
<1>7. RecOK'
  BY DEF IInv, RecOK
<1>8. DurableOK'
  BY DEF IInv, DurableOK, AckAgrees
<1> QED BY <1>4, <1>5, <1>6, <1>7, <1>8 DEF IInv

\* The handler that holds the lock, or takes it, goes on without a change of the
\* state, and not yet to the save.
LEMMA ContinueStep ==
  ASSUME IInv, NEW h \in Handlers, server = "up",
         writer = h \/ (writer = Nobody /\ rec.pc = "idle"),
         NEW pc \in {"store", "lun", "file"}, Continue(h, pc),
         call[h].op = "CreateVolume" => call[h].pc = "store",
         cfs' \in Cfs, disk' \in [Paths -> DiskFile], budget' \in Budget,
         UNCHANGED <<server, st, file, rec, portal, acked>>
  PROVE  IInv'
<1>1. call' = [call EXCEPT ![h].pc = pc] /\ writer' = h
  BY DEF Continue
<1>2. \A g \in Handlers : call'[g] = IF g = h THEN [call[h] EXCEPT !.pc = pc] ELSE call[g]
  BY <1>1 DEF IInv, TypeOK
<1>3. call[h] \in Call
  BY DEF IInv, TypeOK
<1>4. TypeOK'
  BY <1>1, <1>3 DEF IInv, TypeOK, Call
<1>5. LocksOK'
  BY <1>1, <1>2, <1>3 DEF IInv, LocksOK, Call
<1>6. CallsOK'
  BY <1>2, <1>3 DEF IInv, CallsOK, Call, Keys
<1>7. RecOK'
  BY DEF IInv, RecOK
<1>8. DurableOK'
  BY DEF IInv, DurableOK, AckAgrees
<1> QED BY <1>4, <1>5, <1>6, <1>7, <1>8 DEF IInv

\* ReconcileAll ends with an error, and the boot with it.
LEMMA StopStep ==
  ASSUME IInv, rec.pc # "idle", Stop,
         cfs' \in Cfs, disk' \in [Paths -> DiskFile], budget' \in Budget,
         file' = file \/ file' = TornFile,
         UNCHANGED <<call, writer, portal, acked>>
  PROVE  IInv'
<1>1. rec' = RecAt("idle") /\ RecAt("idle") \in Rec
  BY IdsNat DEF Stop, RecAt, Rec
<1>2. \/ server = "booting" /\ server' = "down" /\ st' = EmptyState
      \/ server # "booting" /\ UNCHANGED <<server, st>>
  BY DEF Stop
<1>3. file' = file \/ (file' = TornFile /\ file'.kind = "torn" /\ file'.st = EmptyState)
  BY DEF TornFile
<1>4. TypeOK'
  BY <1>1, <1>2, NoneTypes DEF IInv, TypeOK, TornFile
<1>5. LocksOK'
  <2>1. writer = Nobody /\ server \in {"up", "booting"}
    BY DEF IInv, LocksOK, TypeOK
  <2> QED BY <2>1, <1>1, <1>2 DEF IInv, LocksOK, RecAt
<1>6. CallsOK'
  <2>1. CASE server = "booting"
    BY <2>1 DEF IInv, LocksOK, CallsOK, IdleCall
  <2>2. CASE server # "booting"
    BY <2>2, <1>2 DEF IInv, CallsOK
  <2> QED BY <2>1, <2>2
<1>7. RecOK'
  BY <1>1 DEF RecOK, RecAt
<1>8. DurableOK'
  BY <1>2, <1>3, EmptyStateFacts DEF IInv, DurableOK, AckAgrees
<1> QED BY <1>4, <1>5, <1>6, <1>7, <1>8 DEF IInv

\* ReconcileAll goes on with r.
LEMMA ProceedStep ==
  ASSUME IInv, rec.pc # "idle", NEW r \in Rec, Proceed(r),
         r.pc = "idle" => server = "up" /\ r = RecAt("idle"),
         r.pc \in {"save", "write"} => server = "booting",
         r.pc \in {"portals", "luns"} => HasPool(st, r.pool),
         r.pc \in {"store", "lun"} => HasVolume(st, r.pool, r.vol),
         \A p \in r.pools : HasPool(st, p),
         \A k \in r.vols : HasVolume(st, k[1], k[2]),
         cfs' \in Cfs, disk' \in [Paths -> DiskFile], budget' \in Budget,
         file' = file \/ file' = TornFile,
         UNCHANGED <<call, writer, portal, acked>>
  PROVE  IInv'
<1>1. rec' = r /\ UNCHANGED <<server, st>>
  BY DEF Proceed
<1>2. file' = file \/ (file' = TornFile /\ file'.kind = "torn" /\ file'.st = EmptyState)
  BY DEF TornFile
<1>3. TypeOK'
  BY <1>1, NoneTypes DEF IInv, TypeOK, TornFile
<1>4. LocksOK'
  <2>1. writer = Nobody /\ server \in {"up", "booting"}
    BY DEF IInv, LocksOK, TypeOK
  <2> QED BY <2>1, <1>1 DEF IInv, LocksOK
<1>5. CallsOK'
  BY <1>1 DEF IInv, CallsOK
<1>6. RecOK'
  BY <1>1 DEF RecOK
<1>7. DurableOK'
  BY <1>1, <1>2, EmptyStateFacts DEF IInv, DurableOK, AckAgrees
<1> QED BY <1>3, <1>4, <1>5, <1>6, <1>7 DEF IInv

\* A kernel function inside ReconcileAll, which goes on with r when it succeeds.
LEMMA ApplyStep ==
  ASSUME IInv, rec.pc # "idle", NEW outcomes, NEW r \in Rec, Apply(outcomes, r),
         \A o \in outcomes : IsOutcome(o),
         r.pc \notin {"idle", "save", "write"},
         r.pc \in {"portals", "luns"} => HasPool(st, r.pool),
         r.pc \in {"store", "lun"} => HasVolume(st, r.pool, r.vol),
         \A p \in r.pools : HasPool(st, p),
         \A k \in r.vols : HasVolume(st, k[1], k[2]),
         UNCHANGED <<file, disk, call, writer, portal, acked>>
  PROVE  IInv'
<1>1. PICK o \in outcomes : Charge(o) /\ cfs' = o.c /\ (IF o.ok THEN Proceed(r) ELSE Stop)
  BY DEF Apply
<1>2. cfs' \in Cfs /\ disk' \in [Paths -> DiskFile] /\ budget' \in Budget
  BY <1>1, SpendType DEF IsOutcome, IInv, TypeOK
<1>3. CASE o.ok
  BY <1>1, <1>2, <1>3, ProceedStep
<1>4. CASE ~o.ok
  BY <1>1, <1>2, <1>4, StopStep
<1> QED BY <1>3, <1>4

\* A call begins: it waits for the lock.
LEMMA EnterStep ==
  ASSUME IInv, NEW h \in Handlers, server = "up", call[h] = IdleCall,
         NEW op \in {"CreatePool", "DeletePool", "DeleteVolume"},
         NEW pool \in Ids, NEW vol \in Ids, NEW name \in Names \cup {NoName},
         NEW target \in Target \cup {ZeroTarget},
         Enter(h, op, pool, vol, name, target)
  PROVE  IInv'
<1> DEFINE c == [op |-> op, pc |-> "lock", pool |-> pool, vol |-> vol, name |-> name,
                 size |-> 0, target |-> target]
<1>1. /\ call' = [call EXCEPT ![h] = c] /\ budget' \in Budget
      /\ UNCHANGED <<server, st, file, cfs, disk, writer, rec, portal, acked>>
  BY SpendType DEF Enter, IInv, TypeOK
<1>2. c \in Call /\ c.pc = "lock"
  BY DEF Call
<1> HIDE DEF c
<1>3. \A g \in Handlers : call'[g] = IF g = h THEN c ELSE call[g]
  BY <1>1 DEF IInv, TypeOK
<1>4. TypeOK'
  BY <1>1, <1>2 DEF IInv, TypeOK
<1>5. LocksOK'
  BY <1>1, <1>2, <1>3 DEF IInv, LocksOK, IdleCall
<1>6. CallsOK'
  BY <1>1, <1>2, <1>3 DEF IInv, CallsOK
<1>7. RecOK' /\ DurableOK'
  BY <1>1 DEF IInv, RecOK, DurableOK, AckAgrees
<1> QED BY <1>4, <1>5, <1>6, <1>7 DEF IInv

\* The handler that holds the lock, or takes it, does to the state what it was
\* asked for, and goes on to save it.
LEMMA EffectStep ==
  ASSUME IInv, NEW h \in Handlers, server = "up",
         writer = h \/ (writer = Nobody /\ rec.pc = "idle"),
         st' \in State, WellNumbered(st'),
         \A k \in Ids \X Ids : k \notin Keys(call[h]) => (Known(st', k) <=> Known(st, k)),
         \A k \in Keys(call[h]) :
            Known(st', k) <=> call[h].op \in {"CreatePool", "CreateVolume"},
         Forget(Keys(call[h])), Continue(h, "save"),
         cfs' \in Cfs, disk' \in [Paths -> DiskFile], budget' \in Budget,
         UNCHANGED <<server, file, rec, portal>>
  PROVE  IInv'
<1>1. call' = [call EXCEPT ![h].pc = "save"] /\ writer' = h
  BY DEF Continue
<1>2. \A g \in Handlers : call'[g] = IF g = h THEN [call[h] EXCEPT !.pc = "save"] ELSE call[g]
  BY <1>1 DEF IInv, TypeOK
<1>3. call[h] \in Call
  BY DEF IInv, TypeOK
<1>4. \A k \in Ids \X Ids : acked'[k] = IF k \in Keys(call[h]) THEN "unknown" ELSE acked[k]
  BY DEF Forget
<1>5. TypeOK'
  <2>1. acked' \in [Ids \X Ids -> {"unknown", "present", "absent"}]
    BY DEF Forget, IInv, TypeOK
  <2> QED BY <1>1, <1>3, <2>1 DEF IInv, TypeOK, Call
<1>6. LocksOK'
  BY <1>1, <1>2, <1>3 DEF IInv, LocksOK, Call
<1>7. CallsOK'
  <2>1. ASSUME NEW g \in Handlers, g # h PROVE call'[g].pc \in {"idle", "lock"}
    BY <1>2, <2>1 DEF IInv, LocksOK, TypeOK
  <2>2. Keys(call'[h]) = Keys(call[h]) /\ call'[h].op = call[h].op /\ call'[h].pc = "save"
    BY <1>2, <1>3 DEF Keys, Call
  <2> QED BY <2>1, <2>2 DEF CallsOK
<1>8. RecOK'
  BY DEF IInv, LocksOK, TypeOK, RecOK, RecAt
<1>9. DurableOK'
  <2>1. AckAgrees(st)'
    BY <1>4 DEF IInv, DurableOK, AckAgrees
  <2>2. file.kind # "torn" => AckAgrees(file.st)'
    BY <1>4 DEF IInv, DurableOK, AckAgrees
  <2> QED BY <2>1, <2>2 DEF IInv, DurableOK
<1> QED BY <1>5, <1>6, <1>7, <1>8, <1>9 DEF IInv

-----------------------------------------------------------------------------
(* The actions of ReconcileAll                                             *)

\* The background loop takes RLock and starts over.
LEMMA ReconcileStartStep == ASSUME IInv, ReconcileStart PROVE IInv'
<1>1. rec' = RecAt("targets") /\ RecAt("targets") \in Rec
  BY IdsNat DEF ReconcileStart, RecAt, Rec
<1>2. UNCHANGED <<server, st, file, cfs, disk, call, writer, portal, acked, budget>>
      /\ server = "up" /\ writer = Nobody /\ rec.pc = "idle"
  BY DEF ReconcileStart, LockFree
<1>3. TypeOK'
  BY <1>1, <1>2 DEF IInv, TypeOK
<1>4. LocksOK'
  BY <1>1, <1>2 DEF IInv, LocksOK, RecAt
<1>5. CallsOK' /\ DurableOK'
  BY <1>2 DEF IInv, CallsOK, DurableOK, AckAgrees
<1>6. RecOK'
  BY <1>1 DEF RecOK, RecAt
<1> QED BY <1>3, <1>4, <1>5, <1>6 DEF IInv

\* Removing stale targets keeps the invariant; then the pools of the state are
\* to visit.
LEMMA ReconcileTargetsStep == ASSUME IInv, ReconcileTargets PROVE IInv'
<1>1. rec.pc = "targets" /\ rec \in Rec /\ cfs \in Cfs /\ budget \in Budget
      /\ disk \in [Paths -> DiskFile] /\ UNCHANGED <<file, disk, call, writer, portal, acked>>
  BY DEF ReconcileTargets, IInv, TypeOK
<1> DEFINE r == [RecAt("pools") EXCEPT !.pools = {p \in Ids : HasPool(st, p)}]
<1>2. CASE Proceed(r) /\ UNCHANGED <<cfs, budget>>
  <2>1. /\ r \in Rec /\ r.pc = "pools" /\ r.vols = {}
        /\ \A p \in r.pools : HasPool(st, p)
    BY IdsNat DEF RecAt, Rec
  <2> HIDE DEF r
  <2> QED BY <1>1, <1>2, <2>1, ProceedStep
<1>3. ASSUME NEW t \in StaleTargets, Apply(DeleteTarget(cfs, t), rec) PROVE IInv'
  <2>1. \A o \in DeleteTarget(cfs, t) : IsOutcome(o)
    BY <1>1, DeleteTargetType
  <2> QED BY <1>1, <1>3, <2>1, ApplyStep DEF IInv, RecOK
<1> QED BY <1>2, <1>3 DEF ReconcileTargets

\* Visiting a pool keeps the invariant; after the last the volumes are to visit.
LEMMA ReconcilePoolStep == ASSUME IInv, ReconcilePool PROVE IInv'
<1>1. rec.pc = "pools" /\ rec \in Rec /\ cfs \in Cfs /\ budget \in Budget /\ st \in State
      /\ disk \in [Paths -> DiskFile] /\ UNCHANGED <<file, disk, call, writer, portal, acked>>
  BY DEF ReconcilePool, IInv, TypeOK
<1> DEFINE r == [RecAt("volumes") EXCEPT !.vols = {k \in Ids \X Ids : HasVolume(st, k[1], k[2])}]
           s(p) == [rec EXCEPT !.pc = "portals", !.pools = @ \ {p}, !.pool = p]
<1>2. CASE Proceed(r) /\ UNCHANGED <<cfs, budget>>
  <2>1. /\ r \in Rec /\ r.pc = "volumes" /\ r.pools = {}
        /\ \A k \in r.vols : HasVolume(st, k[1], k[2])
    BY IdsNat DEF RecAt, Rec
  <2> HIDE DEF r
  <2> QED BY <1>1, <1>2, <2>1, ProceedStep
<1>3. ASSUME NEW p \in rec.pools, Apply(UpsertTarget(cfs, TargetOf(st, p)), s(p)) PROVE IInv'
  <2>1. p \in Ids /\ HasPool(st, p)
    BY <1>1 DEF IInv, RecOK, Rec
  <2>2. \A o \in UpsertTarget(cfs, TargetOf(st, p)) : IsOutcome(o)
    BY <1>1, <2>1, TargetType, UpsertTargetType
  <2>3. /\ s(p) \in Rec /\ s(p).pc = "portals" /\ s(p).pool = p
        /\ s(p).pools \subseteq rec.pools /\ s(p).vols = rec.vols
    BY <1>1, <2>1 DEF Rec
  <2>4. (\A q \in s(p).pools : HasPool(st, q)) /\ \A k \in s(p).vols : HasVolume(st, k[1], k[2])
    BY <2>3 DEF IInv, RecOK
  <2> HIDE DEF s
  <2> QED BY <1>1, <1>3, <2>1, <2>2, <2>3, <2>4, ApplyStep
<1> QED BY <1>2, <1>3 DEF ReconcilePool

\* Setting the portal of a visited pool keeps the invariant.
LEMMA ReconcilePortalsStep == ASSUME IInv, ReconcilePortals PROVE IInv'
<1>1. rec.pc = "portals" /\ rec \in Rec /\ cfs \in Cfs /\ st \in State /\ portal \in Portals
      /\ UNCHANGED <<file, disk, call, writer, portal, acked>>
  BY DEF ReconcilePortals, IInv, TypeOK
<1> DEFINE r == [rec EXCEPT !.pc = "luns"]
<1>2. HasPool(st, rec.pool) /\ rec.pool \in Ids
  BY <1>1 DEF IInv, RecOK, Rec
<1>3. \A o \in UpsertOnlyPortal(cfs, TargetOf(st, rec.pool), portal) : IsOutcome(o)
  BY <1>1, <1>2, TargetType, UpsertOnlyPortalType
<1>4. r \in Rec /\ r.pc = "luns" /\ r.pool = rec.pool /\ r.pools = rec.pools /\ r.vols = rec.vols
  BY <1>1 DEF Rec
<1>5. (\A q \in r.pools : HasPool(st, q)) /\ \A k \in r.vols : HasVolume(st, k[1], k[2])
  BY <1>4 DEF IInv, RecOK
<1>6. Apply(UpsertOnlyPortal(cfs, TargetOf(st, rec.pool), portal), r)
  BY DEF ReconcilePortals
<1> HIDE DEF r
<1> QED BY <1>1, <1>2, <1>3, <1>4, <1>5, <1>6, ApplyStep

\* Removing stale LUNs of a visited pool keeps the invariant.
LEMMA ReconcileLUNsStep == ASSUME IInv, ReconcileLUNs PROVE IInv'
<1>1. rec.pc = "luns" /\ rec \in Rec /\ cfs \in Cfs /\ budget \in Budget
      /\ disk \in [Paths -> DiskFile] /\ UNCHANGED <<file, disk, call, writer, portal, acked>>
  BY DEF ReconcileLUNs, IInv, TypeOK
<1> DEFINE r == [rec EXCEPT !.pc = "pools", !.pool = 0]
<1>2. CASE Proceed(r) /\ UNCHANGED <<cfs, budget>>
  <2>1. r \in Rec /\ r.pc = "pools" /\ r.pools = rec.pools /\ r.vols = rec.vols
    BY <1>1, IdsNat DEF Rec
  <2>2. (\A q \in r.pools : HasPool(st, q)) /\ \A k \in r.vols : HasVolume(st, k[1], k[2])
    BY <2>1 DEF IInv, RecOK
  <2> HIDE DEF r
  <2> QED BY <1>1, <1>2, <2>1, <2>2, ProceedStep
<1>3. ASSUME NEW l \in StaleLUNs, Apply(DeleteLUN(cfs, TargetOf(st, rec.pool), l), rec)
      PROVE  IInv'
  <2>1. \A o \in DeleteLUN(cfs, TargetOf(st, rec.pool), l) : IsOutcome(o)
    BY <1>1, DeleteLUNType
  <2>2. HasPool(st, rec.pool) /\ (\A q \in rec.pools : HasPool(st, q))
        /\ \A k \in rec.vols : HasVolume(st, k[1], k[2])
    BY <1>1 DEF IInv, RecOK
  <2> QED BY <1>1, <1>3, <2>1, <2>2, ApplyStep
<1> QED BY <1>2, <1>3 DEF ReconcileLUNs

\* Growing the image of a volume keeps the invariant.
LEMMA ReconcileVolumeStep == ASSUME IInv, ReconcileVolume PROVE IInv'
<1>1. rec.pc = "volumes" /\ rec \in Rec /\ cfs \in Cfs /\ budget \in Budget /\ st \in State
      /\ disk \in [Paths -> DiskFile] /\ UNCHANGED <<file, cfs, call, writer, portal, acked>>
  BY DEF ReconcileVolume, IInv, TypeOK
<1> DEFINE s(k, r) == [rec EXCEPT !.pc = "store", !.vols = @ \ {k},
                         !.pool = k[1], !.vol = k[2], !.size = r.size]
<1>2. CASE Proceed(RecAt("gc")) /\ UNCHANGED <<disk, budget>>
  <2>1. RecAt("gc") \in Rec /\ RecAt("gc").pc = "gc" /\ RecAt("gc").pools = {}
        /\ RecAt("gc").vols = {}
    BY IdsNat DEF RecAt, Rec
  <2> QED BY <1>1, <1>2, <2>1, ProceedStep
<1>3. ASSUME NEW k \in rec.vols,
             NEW r \in TouchDiskFile(disk, PathOf(st, k[1], k[2]), Max({GiB, st.vols[k].size})),
             Charge(r), disk' = r.d, IF r.ok THEN Proceed(s(k, r)) ELSE Stop
      PROVE  IInv'
  <2>1. k \in Ids \X Ids /\ k = <<k[1], k[2]>> /\ HasVolume(st, k[1], k[2])
    BY <1>1 DEF IInv, RecOK, Rec
  <2>2. HasPool(st, k[1])
    BY <2>1 DEF IInv, DurableOK, WellNumbered
  <2>3. PathOf(st, k[1], k[2]) \in Paths /\ st.vols[k].size \in Int
    BY <1>1, <2>1, <2>2, VolumeType
  <2>4. Max({GiB, st.vols[k].size}) \in Int
    BY <2>3, MaxOfTwo
  <2>5. r.d \in [Paths -> DiskFile] /\ r.size \in Int
    BY <1>1, <2>3, <2>4, TouchType
  <2>6. budget' \in Budget
    BY <1>1, <1>3, SpendType
  <2>7. CASE r.ok
    <3>1. /\ s(k, r) \in Rec /\ s(k, r).pc = "store" /\ s(k, r).pools = rec.pools
          /\ s(k, r).vols \subseteq rec.vols /\ s(k, r).pool = k[1] /\ s(k, r).vol = k[2]
      BY <1>1, <2>1, <2>5 DEF Rec
    <3>2. /\ \A q \in s(k, r).pools : HasPool(st, q)
          /\ \A j \in s(k, r).vols : HasVolume(st, j[1], j[2])
      BY <3>1 DEF IInv, RecOK
    <3>3. Proceed(s(k, r))
      BY <1>3, <2>7
    <3> HIDE DEF s
    <3> QED BY <1>1, <1>3, <2>1, <2>5, <2>6, <3>1, <3>2, <3>3, ProceedStep
  <2>8. CASE ~r.ok
    BY <1>1, <1>3, <2>5, <2>6, <2>8, StopStep
  <2> QED BY <2>7, <2>8
<1> QED BY <1>2, <1>3 DEF ReconcileVolume

\* Making the backstore of a visited volume keeps the invariant.
LEMMA ReconcileStoreStep == ASSUME IInv, ReconcileStore PROVE IInv'
<1>1. rec.pc = "store" /\ rec \in Rec /\ cfs \in Cfs /\ st \in State
      /\ UNCHANGED <<file, disk, call, writer, portal, acked>>
  BY DEF ReconcileStore, IInv, TypeOK
<1> DEFINE v == st.vols[<<rec.pool, rec.vol>>]
           r == [rec EXCEPT !.pc = "lun"]
<1>2. HasVolume(st, rec.pool, rec.vol) /\ rec.pool \in Ids /\ rec.vol \in Ids /\ rec.size \in Int
  BY <1>1 DEF IInv, RecOK, Rec
<1>3. HasPool(st, rec.pool)
  BY <1>2 DEF IInv, DurableOK, WellNumbered
<1>4. v.name \in Names /\ PathOf(st, rec.pool, rec.vol) \in Paths
  BY <1>1, <1>2, <1>3, VolumeType
<1>5. \A o \in UpsertBackstore(cfs, rec.vol, v.name, PathOf(st, rec.pool, rec.vol), rec.size) :
        IsOutcome(o)
  BY <1>1, <1>2, <1>4, UpsertBackstoreType
<1>6. /\ r \in Rec /\ r.pc = "lun" /\ r.pool = rec.pool /\ r.vol = rec.vol
      /\ r.pools = rec.pools /\ r.vols = rec.vols
  BY <1>1 DEF Rec
<1>7. (\A q \in r.pools : HasPool(st, q)) /\ \A k \in r.vols : HasVolume(st, k[1], k[2])
  BY <1>6 DEF IInv, RecOK
<1>8. Apply(UpsertBackstore(cfs, rec.vol, v.name, PathOf(st, rec.pool, rec.vol), rec.size), r)
  BY DEF ReconcileStore
<1> HIDE DEF r, v
<1> QED BY <1>1, <1>2, <1>5, <1>6, <1>7, <1>8, ApplyStep

\* Making the LUN of a visited volume keeps the invariant.
LEMMA ReconcileLunStep == ASSUME IInv, ReconcileLun PROVE IInv'
<1>1. rec.pc = "lun" /\ rec \in Rec /\ cfs \in Cfs /\ st \in State
      /\ UNCHANGED <<file, disk, call, writer, portal, acked>>
  BY DEF ReconcileLun, IInv, TypeOK
<1> DEFINE v == st.vols[<<rec.pool, rec.vol>>]
           t == TargetOf(st, rec.pool)
           r == [rec EXCEPT !.pc = "volumes", !.vol = 0, !.size = 0]
<1>2. HasVolume(st, rec.pool, rec.vol) /\ rec.pool \in Ids /\ rec.vol \in Ids
  BY <1>1 DEF IInv, RecOK, Rec
<1>3. HasPool(st, rec.pool)
  BY <1>2 DEF IInv, DurableOK, WellNumbered
<1>4. v.name \in Names /\ t \in Target
  BY <1>1, <1>2, <1>3, VolumeType, TargetType
<1>5. \A o \in UpsertLUN(cfs, t, rec.vol, rec.vol, v.name) : IsOutcome(o)
  BY <1>1, <1>2, <1>4, UpsertLUNType
<1>6. r \in Rec /\ r.pc = "volumes" /\ r.pools = rec.pools /\ r.vols = rec.vols
  <2> DEFINE q == [rec EXCEPT !.pc = "volumes", !.vol = 0]
  <2>1. q \in Rec /\ q.pc = "volumes" /\ q.pools = rec.pools /\ q.vols = rec.vols
    BY <1>1, IdsNat DEF Rec
  <2>2. r = [q EXCEPT !.size = 0]
    OBVIOUS
  <2> HIDE DEF q, r
  <2> QED BY <2>1, <2>2 DEF Rec
<1>7. (\A q \in r.pools : HasPool(st, q)) /\ \A k \in r.vols : HasVolume(st, k[1], k[2])
  BY <1>6 DEF IInv, RecOK
<1>8. Apply(UpsertLUN(cfs, t, rec.vol, rec.vol, v.name), r)
  BY DEF ReconcileLun
<1> HIDE DEF r, v, t
<1> QED BY <1>1, <1>5, <1>6, <1>7, <1>8, ApplyStep

\* Removing backstores nobody wants keeps the invariant, and so does the end of
\* ReconcileAll.
LEMMA ReconcileBackstoresStep == ASSUME IInv, ReconcileBackstores PROVE IInv'
<1>1. rec.pc = "gc" /\ rec \in Rec /\ cfs \in Cfs /\ budget \in Budget
      /\ server \in {"down", "booting", "up"}
      /\ disk \in [Paths -> DiskFile] /\ UNCHANGED <<file, disk, call, writer, portal, acked>>
  BY DEF ReconcileBackstores, IInv, TypeOK
<1> DEFINE r == RecAt(IF server = "booting" THEN "save" ELSE "idle")
<1>2. CASE Proceed(r) /\ UNCHANGED <<cfs, budget>>
  <2>1. r \in Rec /\ r.pools = {} /\ r.vols = {}
        /\ r.pc = (IF server = "booting" THEN "save" ELSE "idle")
        /\ (server # "booting" => r = RecAt("idle"))
    <3>1. \A q \in {"save", "idle"} : RecAt(q) \in Rec /\ RecAt(q).pools = {}
                                       /\ RecAt(q).vols = {} /\ RecAt(q).pc = q
      BY IdsNat DEF RecAt, Rec
    <3> QED BY <3>1
  <2>2. server # "down"
    BY <1>1 DEF IInv, LocksOK
  <2> HIDE DEF r
  <2> QED BY <1>1, <1>2, <2>1, <2>2, ProceedStep
<1>3. ASSUME NEW i \in StaleHBAs, Apply(DeleteBackstore(cfs, i), rec)
      PROVE  IInv'
  <2>1. \A o \in DeleteBackstore(cfs, i) : IsOutcome(o)
    BY <1>1, DeleteBackstoreType
  <2>2. (\A q \in rec.pools : HasPool(st, q)) /\ \A k \in rec.vols : HasVolume(st, k[1], k[2])
    BY <1>1 DEF IInv, RecOK
  <2> QED BY <1>1, <1>3, <2>1, <2>2, ApplyStep
<1> QED BY <1>2, <1>3 DEF ReconcileBackstores

\* Every step of ReconcileAll keeps the invariant.
LEMMA ReconcileStep == ASSUME IInv, Reconcile PROVE IInv'
BY ReconcileTargetsStep, ReconcilePoolStep, ReconcilePortalsStep, ReconcileLUNsStep,
   ReconcileVolumeStep, ReconcileStoreStep, ReconcileLunStep, ReconcileBackstoresStep
   DEF Reconcile

\* ReconcileAll may fail between any two of its steps.
LEMMA ReconcileFailsStep == ASSUME IInv, ReconcileFails PROVE IInv'
<1>1. budget \in Budget /\ cfs' \in Cfs /\ disk' \in [Paths -> DiskFile]
  BY DEF ReconcileFails, IInv, TypeOK
<1> QED BY <1>1, SpendType, StopStep DEF ReconcileFails

-----------------------------------------------------------------------------
(* The actions of the process                                              *)

\* LoadState brings back a state that agrees with what clients were told.
LEMMA BootStep == ASSUME IInv, Boot PROVE IInv'
<1>1. /\ server = "down" /\ file.kind # "torn" /\ server' = "booting" /\ st' = file.st
      /\ rec' = RecAt("targets") /\ portal' \in Portals
      /\ UNCHANGED <<file, cfs, disk, call, writer, acked, budget>>
  BY DEF Boot, Loadable
<1>2. RecAt("targets") \in Rec
  BY IdsNat DEF RecAt, Rec
<1>3. TypeOK'
  BY <1>1, <1>2 DEF IInv, TypeOK
<1>4. LocksOK'
  BY <1>1 DEF IInv, LocksOK, RecAt
<1>5. CallsOK'
  BY <1>1 DEF IInv, LocksOK, CallsOK, IdleCall
<1>6. RecOK'
  BY <1>1 DEF RecOK, RecAt
<1>7. DurableOK'
  BY <1>1 DEF IInv, DurableOK, AckAgrees
<1> QED BY <1>3, <1>4, <1>5, <1>6, <1>7 DEF IInv

\* Opening the state file during boot keeps the invariant.
LEMMA BootSaveOpenStep == ASSUME IInv, BootSaveOpen PROVE IInv'
<1>1. rec.pc = "save" /\ cfs' \in Cfs /\ disk' \in [Paths -> DiskFile] /\ budget \in Budget
      /\ UNCHANGED <<call, writer, portal, acked>>
  BY DEF BootSaveOpen, IInv, TypeOK
<1>2. CASE file' = TornFile /\ Proceed(RecAt("write")) /\ UNCHANGED budget
  <2>1. RecAt("write") \in Rec /\ RecAt("write").pc = "write" /\ RecAt("write").pools = {}
        /\ RecAt("write").vols = {}
    BY IdsNat DEF RecAt, Rec
  <2>2. server = "booting"
    BY <1>1 DEF IInv, LocksOK
  <2> QED BY <1>1, <1>2, <2>1, <2>2, ProceedStep
<1>3. CASE Spend("faults", MaxFaults) /\ Stop /\ UNCHANGED file
  BY <1>1, <1>3, SpendType, StopStep
<1> QED BY <1>2, <1>3 DEF BootSaveOpen

\* Writing the state file at the end of boot keeps the invariant.
LEMMA BootSaveWriteStep == ASSUME IInv, BootSaveWrite PROVE IInv'
<1>1. rec.pc = "write" /\ cfs' \in Cfs /\ disk' \in [Paths -> DiskFile] /\ budget \in Budget
      /\ UNCHANGED <<cfs, disk, call, writer, portal, acked>>
  BY DEF BootSaveWrite, IInv, TypeOK
<1>2. CASE /\ file' = FileOf(st) /\ server' = "up"
           /\ rec' = RecAt("idle") /\ UNCHANGED <<st, budget>>
  <2>1. RecAt("idle") \in Rec /\ FileOf(st) \in [kind : {"none", "torn", "state"}, st : State]
        /\ FileOf(st).st = st
    BY IdsNat DEF RecAt, Rec, FileOf, IInv, TypeOK
  <2>2. server = "booting" /\ writer = Nobody
    BY <1>1 DEF IInv, LocksOK, TypeOK
  <2>3. TypeOK'
    BY <1>1, <1>2, <2>1 DEF IInv, TypeOK
  <2>4. LocksOK' /\ RecOK'
    BY <1>1, <1>2, <2>2 DEF IInv, LocksOK, RecOK, RecAt
  <2>5. CallsOK' /\ DurableOK'
    BY <1>1, <1>2, <2>1, <2>2 DEF IInv, CallsOK, DurableOK, AckAgrees
  <2> QED BY <2>3, <2>4, <2>5 DEF IInv
<1>3. CASE Spend("faults", MaxFaults) /\ Stop /\ UNCHANGED file
  BY <1>1, <1>3, SpendType, StopStep
<1> QED BY <1>2, <1>3 DEF BootSaveWrite

\* The end of the process forgets all but configfs and the files.
LEMMA DieStep == ASSUME IInv, Die, cfs' \in Cfs PROVE IInv'
<1>1. /\ server' = "down" /\ st' = EmptyState /\ rec' = RecAt("idle")
      /\ call' = [h \in Handlers |-> IdleCall] /\ writer' = Nobody
      /\ budget' \in Budget /\ UNCHANGED <<file, disk, portal, acked>>
  BY SpendType DEF Die, IInv, TypeOK
<1>2. RecAt("idle") \in Rec /\ IdleCall \in Call
  BY IdsNat DEF RecAt, Rec, IdleCall, Call
<1>3. TypeOK'
  BY <1>1, <1>2, NoneTypes DEF IInv, TypeOK
<1>4. LocksOK' /\ CallsOK' /\ RecOK'
  BY <1>1 DEF LocksOK, CallsOK, RecOK, RecAt, IdleCall
<1>5. DurableOK'
  BY <1>1, EmptyStateFacts DEF IInv, DurableOK, AckAgrees
<1> QED BY <1>3, <1>4, <1>5 DEF IInv

\* The end of the process or of the machine keeps the invariant.
LEMMA CrashStep == ASSUME IInv, Crash \/ Reboot PROVE IInv'
<1>1. EmptyCfs \in Cfs
  BY DEF EmptyCfs, Cfs
<1> QED BY <1>1, DieStep DEF Crash, Reboot, IInv, TypeOK

\* A write by some initiator.
ClientWrites == \E k \in cfs.links : ClientWrite(k)

\* A write by an initiator keeps the invariant.
LEMMA ClientWriteStep == ASSUME IInv, NEW l, ClientWrite(l) PROVE IInv'
<1>1. UNCHANGED <<server, st, file, cfs, call, writer, rec, portal, acked>> /\ budget' \in Budget
  BY SpendType DEF ClientWrite, IInv, TypeOK
<1>2. disk' \in [Paths -> DiskFile]
  <2>1. PICK s \in cfs.stores : \/ /\ s.path \in Paths /\ disk[s.path] # NoFile
                                  /\ disk' = [disk EXCEPT ![s.path].data = TRUE]
                               \/ UNCHANGED disk
    BY DEF ClientWrite
  <2>2. disk \in [Paths -> DiskFile]
    BY DEF IInv, TypeOK
  <2>3. CASE s.path \in Paths /\ disk[s.path] # NoFile
             /\ disk' = [disk EXCEPT ![s.path].data = TRUE]
    BY <2>2, <2>3 DEF DiskFile
  <2> QED BY <2>1, <2>2, <2>3
<1>3. TypeOK' /\ LocksOK' /\ CallsOK' /\ RecOK' /\ DurableOK'
  BY <1>1, <1>2 DEF IInv, TypeOK, LocksOK, CallsOK, RecOK, DurableOK, AckAgrees
<1> QED BY <1>3 DEF IInv
-----------------------------------------------------------------------------
(* The handlers                                                            *)

\* SaveState opens the file: it is torn from then on.
LEMMA SaveOpenStep == ASSUME IInv, NEW h \in Handlers, SaveOpen(h) PROVE IInv'
<1>1. /\ server = "up" /\ writer = h /\ call[h].pc = "save" /\ budget \in Budget
      /\ cfs' \in Cfs /\ disk' \in [Paths -> DiskFile]
      /\ UNCHANGED <<server, st, cfs, disk, rec, portal, acked>>
  BY DEF SaveOpen, IInv, TypeOK
<1>2. CASE file' = TornFile /\ Continue(h, "write") /\ UNCHANGED budget
  <2>1. call' = [call EXCEPT ![h].pc = "write"] /\ writer' = h /\ call[h] \in Call
    BY <1>2 DEF Continue, IInv, TypeOK
  <2>2. \A g \in Handlers : call'[g] = IF g = h THEN [call[h] EXCEPT !.pc = "write"] ELSE call[g]
    BY <2>1 DEF IInv, TypeOK
  <2>3. file'.kind = "torn" /\ file'.st = EmptyState
        /\ file' \in [kind : {"none", "torn", "state"}, st : State]
    BY <1>2, NoneTypes DEF TornFile
  <2>4. TypeOK'
    BY <1>1, <1>2, <2>1, <2>3 DEF IInv, TypeOK, Call
  <2>5. LocksOK'
    BY <1>1, <2>1, <2>2 DEF IInv, LocksOK, Call
  <2>6. CallsOK'
    <3>1. ASSUME NEW g \in Handlers, g # h PROVE call'[g].pc \in {"idle", "lock"}
      BY <1>1, <2>2, <3>1 DEF IInv, LocksOK, TypeOK
    <3>2. Keys(call'[h]) = Keys(call[h]) /\ call'[h].op = call[h].op /\ call'[h].pc = "write"
      BY <2>1, <2>2 DEF Keys, Call
    <3>3. \A k \in Keys(call[h]) : Known(st, k) <=> call[h].op \in {"CreatePool", "CreateVolume"}
      BY <1>1 DEF IInv, CallsOK
    <3> QED BY <1>1, <3>1, <3>2, <3>3 DEF CallsOK
  <2>7. RecOK' /\ DurableOK'
    BY <1>1, <2>3, EmptyStateFacts DEF IInv, RecOK, DurableOK, AckAgrees
  <2> QED BY <2>4, <2>5, <2>6, <2>7 DEF IInv
<1>3. CASE Spend("faults", MaxFaults) /\ Return(h) /\ UNCHANGED file
  BY <1>1, <1>3, SpendType, ReturnStep
<1> QED BY <1>2, <1>3 DEF SaveOpen

\* SaveState writes the file and the client is told: both speak of the state in
\* memory, which the call's effect is still in.
LEMMA SaveWriteStep == ASSUME IInv, NEW h \in Handlers, SaveWrite(h) PROVE IInv'
<1>1. /\ server = "up" /\ writer = h /\ call[h].pc = "write" /\ budget \in Budget
      /\ cfs' \in Cfs /\ disk' \in [Paths -> DiskFile] /\ Return(h)
      /\ UNCHANGED <<server, st, cfs, disk, rec, portal>>
  BY DEF SaveWrite, IInv, TypeOK
<1> DEFINE word == IF call[h].op \in {"CreatePool", "CreateVolume"} THEN "present" ELSE "absent"
<1>2. CASE /\ file' = FileOf(st) /\ UNCHANGED budget
           /\ acked' = [k \in Ids \X Ids |-> IF k \notin Keys(call[h]) THEN acked[k] ELSE word]
  <2>1. call' = [call EXCEPT ![h] = IdleCall] /\ writer' = Nobody /\ IdleCall \in Call
    BY <1>1, IdsNat DEF Return, IdleCall, Call
  <2>2. \A g \in Handlers : call'[g] = IF g = h THEN IdleCall ELSE call[g]
    BY <2>1 DEF IInv, TypeOK
  <2>3. file' \in [kind : {"none", "torn", "state"}, st : State] /\ file'.st = st
    BY <1>2 DEF FileOf, IInv, TypeOK
  <2>4. \A k \in Ids \X Ids : acked'[k] = IF k \notin Keys(call[h]) THEN acked[k] ELSE word
    BY <1>2
  <2>5. acked' \in [Ids \X Ids -> {"unknown", "present", "absent"}]
    BY <1>2 DEF IInv, TypeOK
  <2>6. TypeOK'
    BY <1>1, <1>2, <2>1, <2>3, <2>5 DEF IInv, TypeOK
  <2>7. LocksOK'
    BY <1>1, <2>1, <2>2 DEF IInv, LocksOK, IdleCall
  <2>8. CallsOK' /\ RecOK'
    BY <1>1, <2>2 DEF IInv, CallsOK, RecOK, IdleCall
  <2>9. DurableOK'
    <3>1. \A k \in Keys(call[h]) : Known(st, k) <=> call[h].op \in {"CreatePool", "CreateVolume"}
      BY <1>1 DEF IInv, CallsOK
    <3>2. AckAgrees(st)
      BY <1>1 DEF IInv, DurableOK
    <3>3. ASSUME NEW k \in Ids \X Ids
          PROVE  /\ acked'[k] = "present" => Known(st, k)
                 /\ acked'[k] = "absent" => ~Known(st, k)
      BY <2>4, <3>1, <3>2 DEF AckAgrees
    <3>4. \A s : s = st => \A k \in Ids \X Ids : /\ acked'[k] = "present" => Known(s, k)
                                                 /\ acked'[k] = "absent" => ~Known(s, k)
      BY <3>3
    <3>5. AckAgrees(st)' /\ AckAgrees(file.st)'
      BY <1>1, <2>3, <3>4 DEF AckAgrees
    <3> QED BY <1>1, <2>3, <3>5 DEF IInv, DurableOK
  <2> QED BY <2>6, <2>7, <2>8, <2>9 DEF IInv
<1>3. CASE Spend("faults", MaxFaults) /\ UNCHANGED <<file, acked>>
  BY <1>1, <1>3, SpendType, ReturnStep
<1> QED BY <1>2, <1>3 DEF SaveWrite

\* The id CreatePool chooses is an id.
LEMMA FreePoolIdType == ASSUME NEW c PROVE FreePoolId(c) \in Ids
<1> DEFINE free == 1..(MaxU16 - 1) \ {t.id : t \in ListTargets(c)}
<1>1. free \in SUBSET Nat /\ free \subseteq Ids
  BY DEF Ids
<1>2. free # {} => Min(free) \in free
  BY <1>1, MinIn
<1>3. FreePoolId(c) = IF free = {} THEN 0 ELSE Min(free)
  BY DEF FreePoolId
<1> HIDE DEF free
<1> QED BY <1>1, <1>2, <1>3, IdsNat

\* CreatePool before its lock: the id it goes on with is an id.
LEMMA CreatePoolStep == ASSUME IInv, NEW h \in Handlers, CreatePool(h) PROVE IInv'
<1>1. PICK arg \in PoolArgs \cup {Absent}, n \in NameArgs \cup {NoName} :
        Enter(h, "CreatePool", IF arg = Absent THEN FreePoolId(cfs) ELSE Truncate(arg),
              0, n, ZeroTarget)
  BY DEF CreatePool
<1> DEFINE p == IF arg = Absent THEN FreePoolId(cfs) ELSE Truncate(arg)
<1>2. p \in Ids /\ n \in Names \cup {NoName}
  BY FreePoolIdType, TruncateType DEF SigmaAssumption
<1> HIDE DEF p
<1> QED BY <1>1, <1>2, IdsNat, EnterStep DEF CreatePool, p

\* CreatePool under the lock: pool p becomes known, nothing else changes.
LEMMA CreatePoolLockedStep == ASSUME IInv, NEW h \in Handlers, CreatePoolLocked(h) PROVE IInv'
<1> DEFINE p == call[h].pool
           n == PoolName(call[h])
<1>1. /\ server = "up" /\ writer = Nobody /\ rec.pc = "idle" /\ call[h].op = "CreatePool"
      /\ st \in State /\ cfs \in Cfs /\ budget \in Budget
      /\ disk' \in [Paths -> DiskFile] /\ UNCHANGED <<server, file, disk, rec, portal>>
  BY DEF CreatePoolLocked, At, LockFree, IInv, TypeOK
<1>2. p \in Ids /\ n \in Names /\ call[h] \in Call
  BY DEF IInv, TypeOK, Call, PoolName
<1>3. CASE Return(h) /\ UNCHANGED <<st, cfs, acked, budget>>
  BY <1>1, <1>3, ReturnStep
<1>4. ASSUME NEW r \in UpsertTarget(cfs, [id |-> p, name |-> n]), Charge(r), cfs' = r.c,
             IF r.ok THEN /\ st' = PutPool(st, p, n)
                          /\ Forget(Keys(call[h])) /\ Continue(h, "save")
             ELSE Return(h) /\ UNCHANGED <<st, acked>>
      PROVE  IInv'
  <2>1. [id |-> p, name |-> n] \in Target
    BY <1>2 DEF Target
  <2>2. cfs' \in Cfs /\ budget' \in Budget
    BY <1>1, <1>4, <2>1, UpsertTargetType, SpendType DEF IsOutcome
  <2>3. CASE r.ok
    <3>1. /\ st' \in State /\ st'.MaxLUNID = st.MaxLUNID
          /\ \A q \in Ids : HasPool(st', q) <=> q = p \/ HasPool(st, q)
          /\ \A q, v \in Ids : HasVolume(st', q, v) <=> HasVolume(st, q, v)
          /\ \A k \in Ids \X Ids : Known(st', k) <=> k = <<p, 0>> \/ Known(st, k)
      <4>1. st' = PutPool(st, p, n)
        BY <1>4, <2>3
      <4> HIDE DEF p, n
      <4> QED BY <1>1, <1>2, <4>1, PutPoolFacts
    <3>2. WellNumbered(st')
      BY <3>1 DEF IInv, DurableOK, WellNumbered
    <3>3. Keys(call[h]) = {<<p, 0>>} /\ <<p, 0>> \in Ids \X Ids
      BY <1>1, <1>2, IdsNat DEF Keys
    <3>4. /\ \A k \in Ids \X Ids : k \notin Keys(call[h]) => (Known(st', k) <=> Known(st, k))
          /\ \A k \in Keys(call[h]) : Known(st', k)
                <=> call[h].op \in {"CreatePool", "CreateVolume"}
      BY <1>1, <3>1, <3>3
    <3> QED BY <1>1, <1>4, <2>2, <2>3, <3>1, <3>2, <3>4, EffectStep
  <2>4. CASE ~r.ok
    BY <1>1, <1>4, <2>2, <2>4, ReturnStep
  <2> QED BY <2>3, <2>4
<1> QED BY <1>3, <1>4 DEF CreatePoolLocked

\* DeletePool before its lock: the target it goes on with is one, or the zero
\* Target.
LEMMA DeletePoolStep == ASSUME IInv, NEW h \in Handlers, DeletePool(h) PROVE IInv'
<1>1. PICK arg \in PoolArgs :
        LET p     == Truncate(arg)
            named == {t.name : t \in {t \in ListTargets(cfs) : t.id = p}}
        IN  Enter(h, "DeletePool", p, 0, NoName,
                  IF named = {} THEN ZeroTarget ELSE [id |-> p, name |-> Min(named)])
  BY DEF DeletePool
<1> DEFINE p == Truncate(arg)
           named == {t.name : t \in {t \in ListTargets(cfs) : t.id = p}}
           target == IF named = {} THEN ZeroTarget ELSE [id |-> p, name |-> Min(named)]
<1>2. p \in Ids
  BY TruncateType DEF SigmaAssumption
<1>3. named \subseteq Names /\ named \in SUBSET Nat
  BY DEF ListTargets, IInv, TypeOK, Cfs, Target
<1>4. target \in Target \cup {ZeroTarget}
  <2>1. named # {} => Min(named) \in Names
    BY <1>3, MinIn
  <2> HIDE DEF named, p
  <2> QED BY <1>2, <2>1 DEF Target
<1>5. Enter(h, "DeletePool", p, 0, NoName, target)
  BY <1>1
<1> HIDE DEF p, target
<1> QED BY <1>2, <1>4, <1>5, IdsNat, EnterStep DEF DeletePool

\* DeletePool under the lock: pool p and its volumes are forgotten, nothing
\* else.
LEMMA DeletePoolLockedStep == ASSUME IInv, NEW h \in Handlers, DeletePoolLocked(h) PROVE IInv'
<1> DEFINE p == call[h].pool
           t == call[h].target
<1>1. /\ server = "up" /\ writer = Nobody /\ rec.pc = "idle" /\ call[h].op = "DeletePool"
      /\ st \in State /\ cfs \in Cfs /\ budget \in Budget
      /\ disk' \in [Paths -> DiskFile] /\ UNCHANGED <<server, file, disk, rec, portal>>
  BY DEF DeletePoolLocked, At, LockFree, IInv, TypeOK
<1>2. p \in Ids /\ call[h] \in Call
  BY DEF IInv, TypeOK, Call
<1>3. PICK r \in IF t = ZeroTarget THEN DeleteZeroTarget(cfs) ELSE DeleteTarget(cfs, t) :
        /\ Charge(r) /\ cfs' = r.c
        /\ IF r.ok THEN st' = DropPool(st, p) /\ Forget(Keys(call[h])) /\ Continue(h, "save")
                   ELSE Return(h) /\ UNCHANGED <<st, acked>>
  BY DEF DeletePoolLocked
<1>4. cfs' \in Cfs /\ budget' \in Budget
  <2>1. IsOutcome(r)
    BY <1>1, <1>3, DeleteZeroTargetType, DeleteTargetType
  <2> QED BY <1>1, <1>3, <2>1, SpendType DEF IsOutcome
<1>5. CASE r.ok
  <2>1. /\ st' \in State /\ st'.MaxLUNID = st.MaxLUNID
        /\ \A q \in Ids : HasPool(st', q) <=> q # p /\ HasPool(st, q)
        /\ \A q, v \in Ids : HasVolume(st', q, v) <=> q # p /\ HasVolume(st, q, v)
        /\ \A k \in Ids \X Ids : Known(st', k) <=> k[1] # p /\ Known(st, k)
    <3>1. st' = DropPool(st, p)
      BY <1>3, <1>5
    <3> HIDE DEF p
    <3> QED BY <1>1, <1>2, <3>1, DropPoolFacts
  <2>2. WellNumbered(st')
    BY <2>1 DEF IInv, DurableOK, WellNumbered
  <2>3. Keys(call[h]) = {p} \X Ids
    BY <1>1 DEF Keys
  <2>4. /\ \A k \in Ids \X Ids : k \notin Keys(call[h]) => (Known(st', k) <=> Known(st, k))
        /\ \A k \in Keys(call[h]) : Known(st', k)
              <=> call[h].op \in {"CreatePool", "CreateVolume"}
    BY <1>1, <1>2, <2>1, <2>3
  <2> QED BY <1>1, <1>3, <1>4, <1>5, <2>1, <2>2, <2>4, EffectStep
<1>6. CASE ~r.ok
  BY <1>1, <1>3, <1>4, <1>6, ReturnStep
<1> QED BY <1>5, <1>6
\* DeleteVolume before its lock: the target it goes on with is one.
LEMMA DeleteVolumeStep == ASSUME IInv, NEW h \in Handlers, DeleteVolume(h) PROVE IInv'
<1>1. PICK p \in PoolArgs \cap Ids, varg \in VolArgs :
        LET named == {t.name : t \in {t \in ListTargets(cfs) : t.id = p}}
        IN  /\ named # {}
            /\ Enter(h, "DeleteVolume", p, Truncate(varg), NoName,
                     [id |-> p, name |-> Max(named)])
  BY DEF DeleteVolume
<1> DEFINE named == {t.name : t \in {t \in ListTargets(cfs) : t.id = p}}
           v == Truncate(varg)
           target == [id |-> p, name |-> Max(named)]
<1>2. v \in Ids /\ p \in Ids
  BY TruncateType DEF SigmaAssumption
<1>3. named \subseteq Names
  BY DEF ListTargets, IInv, TypeOK, Cfs, Target
<1>4. target \in Target
  <2>1. named \in SUBSET Nat /\ named # {}
    BY <1>1, <1>3
  <2>2. Max(named) \in Names
    <3> HIDE DEF named
    <3> QED BY <1>3, <2>1, FS_Subset, MaxIn
  <2> HIDE DEF named
  <2> QED BY <1>2, <2>2 DEF Target
<1>5. Enter(h, "DeleteVolume", p, v, NoName, target)
  BY <1>1
<1> HIDE DEF v, target
<1> QED BY <1>2, <1>4, <1>5, IdsNat, EnterStep DEF DeleteVolume

\* DeleteVolume unlinks the LUN without touching the state.
LEMMA DeleteVolumeLockedStep == ASSUME IInv, NEW h \in Handlers, DeleteVolumeLocked(h) PROVE IInv'
<1>1. /\ server = "up" /\ writer = Nobody /\ rec.pc = "idle" /\ call[h].op = "DeleteVolume"
      /\ cfs \in Cfs /\ budget \in Budget /\ disk' \in [Paths -> DiskFile]
      /\ UNCHANGED <<server, st, file, disk, rec, portal, acked>>
  BY DEF DeleteVolumeLocked, At, LockFree, IInv, TypeOK
<1>2. PICK r \in DeleteLUN(cfs, call[h].target, call[h].vol) :
        /\ Charge(r) /\ cfs' = r.c
        /\ IF r.ok THEN Continue(h, "store") ELSE Return(h)
  BY DEF DeleteVolumeLocked
<1>3. cfs' \in Cfs /\ budget' \in Budget
  BY <1>1, <1>2, DeleteLUNType, SpendType DEF IsOutcome
<1>4. CASE r.ok
  BY <1>1, <1>2, <1>3, <1>4, ContinueStep
<1>5. CASE ~r.ok
  BY <1>1, <1>2, <1>3, <1>5, ReturnStep
<1> QED BY <1>4, <1>5

\* DeleteVolume removes the backstores without touching the state.
LEMMA DeleteVolumeStoreStep == ASSUME IInv, NEW h \in Handlers, DeleteVolumeStore(h) PROVE IInv'
<1>1. /\ server = "up" /\ writer = h /\ call[h].op = "DeleteVolume"
      /\ cfs \in Cfs /\ budget \in Budget /\ disk' \in [Paths -> DiskFile]
      /\ UNCHANGED <<server, st, file, disk, rec, portal, acked>>
  BY DEF DeleteVolumeStore, Holds, At, IInv, TypeOK
<1>2. PICK r \in DeleteBackstore(cfs, call[h].vol) :
        /\ Charge(r) /\ cfs' = r.c
        /\ IF r.ok THEN Continue(h, "file") ELSE Return(h)
  BY DEF DeleteVolumeStore
<1>3. cfs' \in Cfs /\ budget' \in Budget
  BY <1>1, <1>2, DeleteBackstoreType, SpendType DEF IsOutcome
<1>4. CASE r.ok
  BY <1>1, <1>2, <1>3, <1>4, ContinueStep
<1>5. CASE ~r.ok
  BY <1>1, <1>2, <1>3, <1>5, ReturnStep
<1> QED BY <1>4, <1>5

\* DeleteVolume removes the image and forgets the volume, and nothing else.
LEMMA DeleteVolumeFileStep == ASSUME IInv, NEW h \in Handlers, DeleteVolumeFile(h) PROVE IInv'
<1> DEFINE p == call[h].pool
           v == call[h].vol
<1>1. /\ server = "up" /\ writer = h /\ call[h].op = "DeleteVolume"
      /\ st \in State /\ cfs \in Cfs /\ budget \in Budget /\ disk \in [Paths -> DiskFile]
      /\ UNCHANGED <<server, file, rec, portal>>
  BY DEF DeleteVolumeFile, Holds, At, IInv, TypeOK
<1>2. p \in Ids /\ v \in Ids /\ WellNumbered(st)
  BY DEF IInv, TypeOK, Call, DurableOK
<1>3. PICK r \in IF HasVolume(st, p, v) THEN DeleteDiskFile(cfs, disk, PathOf(st, p, v))
                 ELSE {[ok |-> TRUE, fault |-> FALSE, c |-> cfs, d |-> disk]} :
        /\ Charge(r) /\ cfs' = r.c /\ disk' = r.d
        /\ IF r.ok
           THEN st' = DropVolume(st, p, v) /\ Forget(Keys(call[h])) /\ Continue(h, "save")
           ELSE Return(h) /\ UNCHANGED <<st, acked>>
  BY DEF DeleteVolumeFile
<1>4. disk' \in [Paths -> DiskFile] /\ cfs' \in Cfs /\ budget' \in Budget
  <2>1. CASE HasVolume(st, p, v)
    <3>1. PathOf(st, p, v) \in Paths
      BY <1>1, <1>2, <2>1, VolumeType DEF WellNumbered
    <3>2. r \in DeleteDiskFile(cfs, disk, PathOf(st, p, v))
      BY <1>3, <2>1
    <3> QED BY <1>1, <1>3, <3>1, <3>2, DeleteDiskType, SpendType
  <2>2. CASE ~HasVolume(st, p, v)
    BY <1>1, <1>3, <2>2, SpendType
  <2> QED BY <2>1, <2>2
<1>5. CASE r.ok
  <2>1. /\ st' \in State /\ st'.MaxLUNID = st.MaxLUNID
        /\ \A q \in Ids : HasPool(st', q) <=> HasPool(st, q)
        /\ \A q, w \in Ids : HasVolume(st', q, w) <=> ~(q = p /\ w = v) /\ HasVolume(st, q, w)
    <3>1. st' = DropVolume(st, p, v)
      BY <1>3, <1>5
    <3> HIDE DEF p, v
    <3> QED BY <1>1, <1>2, <3>1, DropVolumeFacts
  <2>2. WellNumbered(st')
    BY <1>2, <2>1 DEF WellNumbered
  <2>3. Keys(call[h]) = {<<p, v>>} \ (Ids \X {0})
    BY <1>1 DEF Keys
  <2>4. ASSUME NEW q \in Ids, NEW w \in Ids
        PROVE  /\ <<q, w>> \notin Keys(call[h]) => (Known(st', <<q, w>>) <=> Known(st, <<q, w>>))
               /\ <<q, w>> \in Keys(call[h]) => ~Known(st', <<q, w>>)
    BY <1>2, <2>1, <2>3, IdsNat DEF Known
  <2>5. Keys(call[h]) \subseteq Ids \X Ids
    BY <1>2, <2>3
  <2>6. /\ \A k \in Ids \X Ids : k \notin Keys(call[h]) => (Known(st', k) <=> Known(st, k))
        /\ \A k \in Keys(call[h]) : Known(st', k)
              <=> call[h].op \in {"CreatePool", "CreateVolume"}
    BY <1>1, <2>4, <2>5
  <2> QED BY <1>1, <1>3, <1>4, <1>5, <2>1, <2>2, <2>6, EffectStep
<1>6. CASE ~r.ok
  BY <1>1, <1>3, <1>4, <1>6, ReturnStep
<1> QED BY <1>5, <1>6

\* The id CreateVolume generates is an id.
LEMMA NextVolumeIdType ==
  ASSUME NEW s \in State, NEW c \in Cfs
  PROVE  NextVolumeId(s, c) \in Ids
<1> DEFINE ids == {b.id : b \in ListBackstores(c)}
<1>1. ids \subseteq Ids
  BY DEF ListBackstores, Cfs, Store
<1>2. s.MaxLUNID \in Ids
  BY DEF State
<1>3. NextVolumeId(s, c) = IF ids = {} THEN 1 ELSE Truncate(Max(ids \cup {s.MaxLUNID}) + 1)
  BY DEF NextVolumeId
<1>4. Max(ids \cup {s.MaxLUNID}) \in Nat
  <2> DEFINE S == ids \cup {s.MaxLUNID}
  <2>1. S \in SUBSET Nat /\ S \subseteq Ids /\ S # {}
    BY <1>1, <1>2, IdsNat
  <2> HIDE DEF S
  <2>2. IsFiniteSet(S)
    BY <2>1, IdsNat, FS_Subset
  <2>3. Max(S) \in Nat
    BY <2>1, <2>2, MaxIn
  <2> QED BY <2>3 DEF S
<1>5. 1 \in Ids
  BY DEF Ids
<1> HIDE DEF ids
<1> QED BY <1>3, <1>4, <1>5, TruncateType

\* CreateVolume raises MaxLUNID to the id it goes on with, whatever comes of
\* the call.
LEMMA CreateVolumeStep == ASSUME IInv, NEW h \in Handlers, CreateVolume(h) PROVE IInv'
<1>1. PICK parg \in PoolArgs, varg \in VolArgs \cup {Absent},
           n \in NameArgs \cup {NoName}, z \in SizeArgs :
        LET p == Truncate(parg)
            v == IF varg = Absent THEN NextVolumeId(st, cfs) ELSE Truncate(varg)
            s == [st EXCEPT !.MaxLUNID = Max({@, v})]
            path == DiskPath[<<st.pools[p], VolumeName(v, n)>>]
        IN  /\ v # 0
            /\ st' = s
            /\ \/ /\ ~HasPool(st, p) \/ HasVolume(st, p, v)
                  /\ Spend("requests", MaxRequests)
                  /\ UNCHANGED <<disk, call, writer>>
               \/ /\ HasPool(st, p) /\ ~HasVolume(st, p, v)
                  /\ \E r \in TouchDiskFile(disk, path, AsInt64(z)) :
                       /\ r.fault => budget.faults < MaxFaults
                       /\ budget' = [budget EXCEPT !.requests = @ + 1,
                                       !.faults = @ + IF r.fault THEN 1 ELSE 0]
                       /\ disk' = r.d
                       /\ IF r.ok
                          THEN /\ writer' = h
                               /\ call' = [call EXCEPT ![h] =
                                    [op |-> "CreateVolume", pc |-> "store", pool |-> p,
                                     vol |-> v, name |-> VolumeName(v, n),
                                     size |-> AsInt64(z), target |-> ZeroTarget]]
                          ELSE UNCHANGED <<call, writer>>
  BY DEF CreateVolume
<1> DEFINE p == Truncate(parg)
           v == IF varg = Absent THEN NextVolumeId(st, cfs) ELSE Truncate(varg)
           name == VolumeName(v, n)
           c == [op |-> "CreateVolume", pc |-> "store", pool |-> p, vol |-> v, name |-> name,
                 size |-> AsInt64(z), target |-> ZeroTarget]
<1>2. /\ server = "up" /\ call[h] = IdleCall /\ writer = Nobody /\ rec.pc = "idle"
      /\ budget \in Budget /\ budget.requests < MaxRequests
      /\ st \in State /\ cfs \in Cfs /\ disk \in [Paths -> DiskFile] /\ call \in [Handlers -> Call]
      /\ UNCHANGED <<server, file, cfs, rec, portal, acked>>
  BY DEF CreateVolume, LockFree, IInv, TypeOK
<1>3. p \in Ids /\ v \in Ids /\ v # 0
  BY <1>1, <1>2, TruncateType, NextVolumeIdType DEF SigmaAssumption
<1>4. name \in Names /\ AsInt64(z) \in Int
  BY <1>3 DEF VolumeName, AsInt64
<1>5. /\ st' \in State /\ st'.pools = st.pools /\ st'.vols = st.vols
      /\ st'.MaxLUNID >= st.MaxLUNID /\ st'.MaxLUNID >= v
  <2>1. st' = [st EXCEPT !.MaxLUNID = Max({@, v})]
    BY <1>1
  <2> HIDE DEF v
  <2> QED BY <1>2, <1>3, <2>1, RaiseFacts
<1>6. c \in Call /\ c.op = "CreateVolume" /\ c.pc = "store" /\ c.pool = p /\ c.vol = v
      /\ c.name = name
  <2> HIDE DEF p, v, name
  <2> QED BY <1>3, <1>4 DEF Call
<1>7. /\ disk' \in [Paths -> DiskFile] /\ budget' \in Budget
      /\ \/ UNCHANGED <<call, writer>>
         \/ writer' = h /\ call' = [call EXCEPT ![h] = c] /\ HasPool(st, p)
  <2>1. CASE Spend("requests", MaxRequests) /\ UNCHANGED <<disk, call, writer>>
    BY <1>2, <2>1, SpendType
  <2>2. ASSUME HasPool(st, p),
               NEW r \in TouchDiskFile(disk, DiskPath[<<st.pools[p], name>>], AsInt64(z)),
               r.fault => budget.faults < MaxFaults,
               budget' = [budget EXCEPT !.requests = @ + 1,
                                        !.faults = @ + IF r.fault THEN 1 ELSE 0],
               disk' = r.d,
               IF r.ok THEN writer' = h /\ call' = [call EXCEPT ![h] = c]
                       ELSE UNCHANGED <<call, writer>>
        PROVE  /\ disk' \in [Paths -> DiskFile] /\ budget' \in Budget
               /\ \/ UNCHANGED <<call, writer>>
                  \/ writer' = h /\ call' = [call EXCEPT ![h] = c] /\ HasPool(st, p)
    <3>1. st.pools[p] \in Names
      BY <1>2, <1>3, <2>2, TargetType
    <3>2. DiskPath[<<st.pools[p], name>>] \in Paths
      BY <1>4, <3>1
    <3>3. disk' \in [Paths -> DiskFile]
      BY <1>2, <1>4, <2>2, <3>2, TouchType
    <3>4. budget' \in Budget
      <4> DEFINE extra == IF r.fault THEN 1 ELSE 0
                 counted == [budget EXCEPT !.requests = @ + 1]
      <4>1. counted \in Budget /\ counted.faults = budget.faults
        BY <1>2 DEF Budget
      <4>2. extra \in {0, 1} /\ (extra = 1 => budget.faults < MaxFaults)
        BY <2>2
      <4>3. budget' = [counted EXCEPT !.faults = @ + extra]
        BY <2>2, <1>2 DEF Budget
      <4> HIDE DEF extra, counted
      <4>4. counted.faults + extra \in 0..MaxFaults
        BY <4>1, <4>2 DEF Budget
      <4> QED BY <4>1, <4>3, <4>4 DEF Budget
    <3> HIDE DEF c
    <3> QED BY <2>2, <3>3, <3>4
  <2> QED BY <1>1, <2>1, <2>2
<1> HIDE DEF c, p, v, name
<1>8. \A g \in Handlers : call'[g] = call[g] \/ (writer' = h /\ g = h /\ call'[g] = c)
  BY <1>2, <1>7
<1>9. TypeOK'
  BY <1>2, <1>5, <1>6, <1>7 DEF IInv, TypeOK
<1>10. LocksOK'
  <2>1. CASE UNCHANGED <<call, writer>>
    BY <1>2, <2>1 DEF IInv, LocksOK
  <2>2. CASE writer' = h /\ call' = [call EXCEPT ![h] = c]
    BY <1>2, <1>6, <2>2 DEF IInv, LocksOK
  <2> QED BY <1>7, <2>1, <2>2
<1>11. CallsOK'
  <2>1. ASSUME NEW g \in Handlers PROVE call'[g].pc \in {"idle", "lock"} \/ call'[g] = c
    BY <1>2, <1>8 DEF IInv, LocksOK, TypeOK
  <2>2. ASSUME NEW g \in Handlers, call'[g] = c PROVE HasPool(st', p)
    <3>1. call[g].pc \in {"idle", "lock"}
      BY <1>2 DEF IInv, LocksOK, TypeOK
    <3>2. call'[g] # call[g]
      BY <1>6, <2>2, <3>1
    <3>3. HasPool(st, p)
      BY <1>7, <3>2
    <3> QED BY <1>5, <3>3 DEF HasPool
  <2> QED BY <1>3, <1>4, <1>5, <1>6, <2>1, <2>2 DEF CallsOK
<1>12. RecOK'
  BY <1>2 DEF IInv, RecOK, RecAt
<1>13. DurableOK'
  <2>1. /\ \A q \in Ids : HasPool(st', q) <=> HasPool(st, q)
        /\ \A q, w \in Ids : HasVolume(st', q, w) <=> HasVolume(st, q, w)
    BY <1>5 DEF HasPool, HasVolume
  <2>2. \A k \in Ids \X Ids : Known(st', k) <=> Known(st, k)
    BY <2>1 DEF Known
  <2>3. WellNumbered(st')
    <3>1. WellNumbered(st)
      BY DEF IInv, DurableOK
    <3>2. st.MaxLUNID \in Ids /\ st'.MaxLUNID \in Ids
      BY <1>2, <1>5 DEF State
    <3>3. st.MaxLUNID \in Int /\ st'.MaxLUNID \in Int /\ \A w \in Ids : w \in Int
      BY <3>2 DEF Ids
    <3> QED BY <1>5, <2>1, <3>1, <3>3 DEF WellNumbered
  <2> QED BY <1>2, <2>2, <2>3 DEF IInv, DurableOK, AckAgrees
<1> QED BY <1>9, <1>10, <1>11, <1>12, <1>13 DEF IInv
\* CreateVolume makes the backstore without touching the state.
LEMMA CreateVolumeStoreStep == ASSUME IInv, NEW h \in Handlers, CreateVolumeStore(h) PROVE IInv'
<1> DEFINE c == call[h]
           path == DiskPath[<<st.pools[c.pool], c.name>>]
<1>1. /\ server = "up" /\ writer = h /\ c.op = "CreateVolume" /\ c.pc = "store"
      /\ cfs \in Cfs /\ st \in State /\ budget \in Budget /\ disk' \in [Paths -> DiskFile]
      /\ UNCHANGED <<server, st, file, disk, rec, portal, acked>>
  BY DEF CreateVolumeStore, Holds, At, IInv, TypeOK
<1>2. c.pool \in Ids /\ c.vol \in Ids /\ c.name \in Names /\ path \in Paths
  <2>1. c.pool \in Ids /\ c.vol \in Ids
    BY DEF IInv, TypeOK, Call
  <2>2. HasPool(st, c.pool) /\ c.name \in Names
    BY <1>1 DEF IInv, CallsOK
  <2>3. st.pools[c.pool] \in Names
    BY <1>1, <2>1, <2>2, TargetType
  <2> QED BY <2>1, <2>2, <2>3
<1>3. PICK r \in UpsertBackstore(cfs, c.vol, c.name, path, 0) :
        /\ Charge(r) /\ cfs' = r.c
        /\ IF r.ok THEN Continue(h, "lun") ELSE Return(h)
  BY DEF CreateVolumeStore
<1>4. cfs' \in Cfs /\ budget' \in Budget
  <2> HIDE DEF c, path
  <2>1. 0 \in Int
    OBVIOUS
  <2>2. IsOutcome(r)
    BY <1>1, <1>2, <2>1, UpsertBackstoreType
  <2> QED BY <1>1, <1>3, <2>2, SpendType DEF IsOutcome
<1>5. CASE r.ok
  BY <1>1, <1>3, <1>4, <1>5, ContinueStep
<1>6. CASE ~r.ok
  BY <1>1, <1>3, <1>4, <1>6, ReturnStep
<1> QED BY <1>5, <1>6

\* CreateVolume makes the LUN; the volume becomes known, nothing else changes.
LEMMA CreateVolumeLunStep == ASSUME IInv, NEW h \in Handlers, CreateVolumeLun(h) PROVE IInv'
<1> DEFINE c == call[h]
           vol == [name |-> c.name, size |-> c.size]
<1>1. /\ server = "up" /\ writer = h /\ c.op = "CreateVolume" /\ c.pc = "lun"
      /\ cfs \in Cfs /\ st \in State /\ budget \in Budget /\ disk' \in [Paths -> DiskFile]
      /\ UNCHANGED <<server, file, disk, rec, portal>>
  BY DEF CreateVolumeLun, Holds, At, IInv, TypeOK
<1>2. /\ c.pool \in Ids /\ c.vol \in Ids /\ c.size \in Int /\ c.name \in Names
      /\ HasPool(st, c.pool) /\ c.vol # 0 /\ c.vol <= st.MaxLUNID
  BY <1>1 DEF IInv, TypeOK, Call, CallsOK
<1>3. PICK r \in UpsertLUN(cfs, TargetOf(st, c.pool), c.vol, c.vol, c.name) :
        /\ Charge(r) /\ cfs' = r.c
        /\ IF r.ok THEN /\ st' = PutVolume(st, c.pool, c.vol, vol)
                        /\ Forget(Keys(c)) /\ Continue(h, "save")
           ELSE Return(h) /\ UNCHANGED <<st, acked>>
  BY DEF CreateVolumeLun
<1>4. cfs' \in Cfs /\ budget' \in Budget
  <2>1. TargetOf(st, c.pool) \in Target
    BY <1>1, <1>2, TargetType
  <2> HIDE DEF c
  <2> QED BY <1>1, <1>2, <1>3, <2>1, UpsertLUNType, SpendType DEF IsOutcome
<1>5. CASE r.ok
  <2>1. /\ st' \in State /\ st'.MaxLUNID = st.MaxLUNID
        /\ \A q \in Ids : HasPool(st', q) <=> HasPool(st, q)
        /\ \A q, w \in Ids : HasVolume(st', q, w)
                               <=> (q = c.pool /\ w = c.vol) \/ HasVolume(st, q, w)
        /\ \A k \in Ids \X Ids : Known(st', k) <=> k = <<c.pool, c.vol>> \/ Known(st, k)
    <3>1. vol \in Volume
      BY <1>2 DEF Volume
    <3>2. st' = PutVolume(st, c.pool, c.vol, vol)
      BY <1>3, <1>5
    <3> HIDE DEF c, vol
    <3> QED BY <1>1, <1>2, <3>1, <3>2, PutVolumeFacts
  <2>2. WellNumbered(st')
    BY <1>2, <2>1 DEF IInv, DurableOK, WellNumbered
  <2>3. Keys(c) = {<<c.pool, c.vol>>} /\ <<c.pool, c.vol>> \in Ids \X Ids
    BY <1>1, <1>2 DEF Keys
  <2>4. /\ \A k \in Ids \X Ids : k \notin Keys(c) => (Known(st', k) <=> Known(st, k))
        /\ \A k \in Keys(c) : Known(st', k) <=> c.op \in {"CreatePool", "CreateVolume"}
    BY <1>1, <2>1, <2>3
  <2> QED BY <1>1, <1>3, <1>4, <1>5, <2>1, <2>2, <2>4, EffectStep
<1>6. CASE ~r.ok
  BY <1>1, <1>3, <1>4, <1>6, ReturnStep
<1> QED BY <1>5, <1>6

\* Every step of a handler keeps the invariant.
LEMMA HandleStep == ASSUME IInv, NEW h \in Handlers, Handle(h) PROVE IInv'
BY CreatePoolStep, DeletePoolStep, CreateVolumeStep, DeleteVolumeStep,
   CreatePoolLockedStep, DeletePoolLockedStep, DeleteVolumeLockedStep,
   CreateVolumeStoreStep, CreateVolumeLunStep, DeleteVolumeStoreStep, DeleteVolumeFileStep,
   SaveOpenStep, SaveWriteStep
   DEF Handle, Arrive, Lock, Work

-----------------------------------------------------------------------------
(* The theorems                                                            *)

\* The initial states satisfy the inductive invariant.
LEMMA InitIInv == Init => IInv
<1> SUFFICES ASSUME Init PROVE IInv
  OBVIOUS
<1>1. /\ RecAt("idle") \in Rec /\ IdleCall \in Call /\ EmptyCfs \in Cfs
      /\ NoneFile \in [kind : {"none", "torn", "state"}, st : State]
  BY IdsNat, NoneTypes DEF RecAt, Rec, IdleCall, Call, EmptyCfs, Cfs, NoneFile
<1>2. TypeOK
  BY <1>1, NoneTypes DEF Init, TypeOK, DiskFile, Budget
<1>3. LocksOK /\ CallsOK /\ RecOK
  BY DEF Init, LocksOK, CallsOK, RecOK, RecAt, IdleCall
<1>4. DurableOK
  BY EmptyStateFacts DEF Init, DurableOK, AckAgrees, NoneFile
<1> QED BY <1>2, <1>3, <1>4 DEF IInv

\* Every step, stuttering ones too, keeps the inductive invariant.
LEMMA NextIInv == IInv /\ [Next]_vars => IInv'
<1> SUFFICES ASSUME IInv, [Next]_vars PROVE IInv'
  OBVIOUS
<1>1. ASSUME NEW h \in Handlers, Handle(h) PROVE IInv'
  BY <1>1, HandleStep
<1>2. CASE ReconcileStart \/ Reconcile \/ ReconcileFails
  BY <1>2, ReconcileStartStep, ReconcileStep, ReconcileFailsStep
<1>3. CASE Boot \/ BootSaveOpen \/ BootSaveWrite
  BY <1>3, BootStep, BootSaveOpenStep, BootSaveWriteStep
<1>4. CASE Crash \/ Reboot \/ ClientWrites
  BY <1>4, CrashStep, ClientWriteStep DEF ClientWrites
<1>5. CASE UNCHANGED vars
  BY <1>5 DEF vars, IInv, TypeOK, LocksOK, CallsOK, RecOK, DurableOK, AckAgrees
<1> QED BY <1>1, <1>2, <1>3, <1>4, <1>5 DEF Next, ClientWrites

\* The inductive invariant holds in every reachable state: StateMutex is held by
\* one handler or by ReconcileAll, the writer's locals and ReconcileAll's loop
\* variables speak of what is in the state, and the state and the file agree
\* with what clients were told.
THEOREM Invariance == Spec => []IInv
BY InitIInv, NextIInv, PTL DEF Spec

\* Every variable keeps its type, for any number of handlers, ids and names.
THEOREM TypeCorrect == Spec => []TypeOK
<1>1. IInv => TypeOK
  BY DEF IInv
<1> QED BY <1>1, Invariance, PTL

\* What clients were told with an OK holds whenever the server serves: every
\* handler saves the state before it answers, every boot loads what was saved,
\* and a file cut short by a crash is never loaded.
THEOREM Durability == Spec => []AckedOutcomesHold
<1>1. IInv => AckedOutcomesHold
  BY DEF IInv, DurableOK, AckAgrees, AckedOutcomesHold
<1> QED BY <1>1, Invariance, PTL

\* Volume ids are from 1 to MaxLUNID and volumes are in a pool, in memory and in
\* every file that can be loaded: the counter is raised before the volume is
\* put, and both are saved together.
THEOREM IdsAreBounded == Spec => []IdsBounded
<1>1. IInv => IdsBounded
  BY DEF IInv, DurableOK, IdsBounded
<1> QED BY <1>1, Invariance, PTL
=============================================================================
