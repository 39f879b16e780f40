-------------------------- MODULE SigmaRefinement --------------------------
(***************************************************************************)
(* Proof that the sigma server implements Catalog, for every number of     *)
(* handlers, ids, names and requests: the mapping of SigmaCatalog takes    *)
(* the initial states to initial states and every step to a step of the    *)
(* catalog or to a stutter.                                                *)
(***************************************************************************)
EXTENDS SigmaCatalog, SigmaProofs

USE LioAssumption, SigmaAssumption

\* The invariant the steps are taken under.
RInv == IInv /\ BootsFromFile /\ CreatesNew

-----------------------------------------------------------------------------
(* States as memories of the catalog                                       *)

\* What the memory of a state holds is what the state knows.
LEMMA MemoryFacts ==
  ASSUME NEW s \in State
  PROVE  /\ MemoryOf(s) \in C!Memory
         /\ MemoryOf(s).top = s.MaxLUNID
         /\ \A k \in Ids \X Ids : C!Has(MemoryOf(s), k) <=> Known(s, k)
<1> DEFINE thing == [k \in Ids \X Ids |->
                       IF k[2] # 0 THEN s.vols[k]
                       ELSE IF HasPool(s, k[1]) THEN [name |-> s.pools[k[1]], size |-> 0]
                       ELSE NoVolume]
<1>1. MemoryOf(s) = [top |-> s.MaxLUNID, thing |-> thing]
  BY DEF MemoryOf
<1>2. ASSUME NEW k \in Ids \X Ids
      PROVE  /\ thing[k] \in Volume \cup {NoVolume}
             /\ thing[k] # NoVolume <=> Known(s, k)
  <2>1. CASE k[2] # 0
    BY <2>1 DEF State, Known, HasVolume
  <2>2. CASE k[2] = 0 /\ HasPool(s, k[1])
    <3>1. s.pools[k[1]] \in Names
      BY <2>2, TargetType
    <3>2. [name |-> s.pools[k[1]], size |-> 0] \in Volume
      BY <3>1 DEF Volume
    <3> QED BY <2>2, <3>2, NoneTypes DEF Known
  <2>3. CASE k[2] = 0 /\ ~HasPool(s, k[1])
    BY <2>3 DEF Known
  <2> QED BY <2>1, <2>2, <2>3
<1>3. thing \in [Ids \X Ids -> Volume \cup {NoVolume}]
  BY <1>2
<1>4. s.MaxLUNID \in Ids
  BY DEF State
<1> HIDE DEF thing
<1>5. \A k \in Ids \X Ids : C!Has(MemoryOf(s), k) <=> Known(s, k)
  BY <1>1, <1>2 DEF C!Has
<1> QED BY <1>1, <1>3, <1>4, <1>5 DEF C!Memory, C!Keys

\* The empty state is the empty memory.
LEMMA EmptyMemory == MemoryOf(EmptyState) = C!Empty
BY EmptyStateFacts DEF MemoryOf, EmptyState, HasPool, C!Empty, C!Keys

\* Two states that agree on a pool or volume agree on its key.
LEMMA SameThing ==
  ASSUME NEW s, NEW t, NEW k \in Ids \X Ids,
         k[2] # 0 => s.vols[k] = t.vols[k],
         k[2] = 0 => s.pools[k[1]] = t.pools[k[1]]
  PROVE  MemoryOf(s).thing[k] = MemoryOf(t).thing[k]
BY DEF MemoryOf, HasPool

\* What the mapping is in a server that is up.
LEMMA UpMapping ==
  ASSUME server = "up"
  PROVE  /\ MemoryOf(IF server = "up" THEN st ELSE EmptyState) = MemoryOf(st)
         /\ KeptStates = IF file.kind = "torn" THEN {} ELSE {MemoryOf(file.st)}
BY DEF KeptStates

-----------------------------------------------------------------------------
(* The shapes of a step                                                    *)

\* A step that changes neither the state, nor the file, nor what clients know,
\* changes nothing of the catalog.
LEMMA Stutter ==
  ASSUME UNCHANGED <<server, st, file, acked>>
  PROVE  UNCHANGED C!vars
BY DEF C!vars, KeptStates

\* A pool or volume that was not there is put into the state.
LEMMA Creates ==
  ASSUME server = "up", server' = "up", file' = file, st \in State, st' \in State,
         acked \in [Ids \X Ids -> {"unknown", "present", "absent"}],
         NEW k \in Ids \X Ids, Forget({k}),
         ~Known(st, k), Known(st', k), st.MaxLUNID <= st'.MaxLUNID,
         \A j \in Ids \X Ids : j # k => MemoryOf(st').thing[j] = MemoryOf(st).thing[j],
         k[2] # 0 => HasPool(st, k[1]) /\ k[2] <= st'.MaxLUNID
  PROVE  C!Next
<1>1. acked' = [acked EXCEPT ![k] = "unknown"]
  BY DEF Forget
<1>2. /\ MemoryOf(st) \in C!Memory /\ MemoryOf(st') \in C!Memory
      /\ MemoryOf(st).top <= MemoryOf(st').top /\ MemoryOf(st').top = st'.MaxLUNID
      /\ ~C!Has(MemoryOf(st), k) /\ C!Has(MemoryOf(st'), k)
  BY MemoryFacts
<1>3. k[2] # 0 => C!Has(MemoryOf(st), <<k[1], 0>>)
  <2>1. <<k[1], 0>> \in Ids \X Ids /\ (HasPool(st, k[1]) => Known(st, <<k[1], 0>>))
    BY IdsNat DEF Known
  <2> QED BY <2>1, MemoryFacts
<1>4. /\ MemoryOf(IF server = "up" THEN st ELSE EmptyState) = MemoryOf(st)
      /\ MemoryOf(IF server' = "up" THEN st' ELSE EmptyState) = MemoryOf(st')
      /\ KeptStates' = KeptStates
  BY DEF KeptStates
<1>5. C!Create(k)
  BY <1>1, <1>2, <1>3, <1>4 DEF C!Create, C!Keys
<1> QED BY <1>5 DEF C!Next, C!Keys

\* A pool and its volumes, or a volume, are dropped from the state.
LEMMA Deletes ==
  ASSUME server = "up", server' = "up", file' = file, st \in State, st' \in State,
         NEW k \in Ids \X Ids, Forget(C!Of(k)), st'.MaxLUNID = st.MaxLUNID,
         \A j \in Ids \X Ids : MemoryOf(st').thing[j] =
            IF j \in C!Of(k) THEN NoVolume ELSE MemoryOf(st).thing[j]
  PROVE  C!Next
<1>1. acked' = [j \in Ids \X Ids |-> IF j \in C!Of(k) THEN "unknown" ELSE acked[j]]
  BY DEF Forget
<1>2. /\ MemoryOf(st') \in C!Memory /\ MemoryOf(st').top = MemoryOf(st).top
  BY MemoryFacts
<1>3. /\ MemoryOf(IF server = "up" THEN st ELSE EmptyState) = MemoryOf(st)
      /\ MemoryOf(IF server' = "up" THEN st' ELSE EmptyState) = MemoryOf(st')
      /\ KeptStates' = KeptStates
  BY DEF KeptStates
<1>4. C!Delete(k)
  BY <1>1, <1>2, <1>3 DEF C!Delete, C!Keys
<1> QED BY <1>4 DEF C!Next, C!Keys

\* A process that was booting ends: a boot finds what it found, or nothing any
\* more, when the file was being saved.
LEMMA BootEnds ==
  ASSUME RInv, server = "booting", server' = "down", file' = file, acked' = acked
  PROVE  C!Next \/ UNCHANGED C!vars
<1>1. /\ MemoryOf(IF server = "up" THEN st ELSE EmptyState) = MemoryOf(EmptyState)
      /\ MemoryOf(IF server' = "up" THEN st' ELSE EmptyState) = MemoryOf(EmptyState)
      /\ KeptStates = {MemoryOf(st)}
      /\ KeptStates' = IF file.kind = "torn" THEN {} ELSE {MemoryOf(file.st)}
      /\ (server' = "up") = (server = "up")
  BY DEF KeptStates
<1>2. CASE file.kind = "torn"
  <2>1. C!Lose
    BY <1>1, <1>2 DEF C!Lose
  <2> QED BY <2>1 DEF C!Next
<1>3. CASE file.kind # "torn"
  <2>1. file.st = st
    BY <1>3 DEF RInv, BootsFromFile
  <2> QED BY <1>1, <1>3, <2>1 DEF C!vars
<1> QED BY <1>2, <1>3

\* ReconcileAll, or the save after the first one, ends with an error.
LEMMA Stops ==
  ASSUME RInv, Stop, rec.pc # "idle", file' = file, acked' = acked
  PROVE  C!Next \/ UNCHANGED C!vars
<1>1. CASE server = "booting"
  BY <1>1, BootEnds DEF Stop
<1>2. CASE server # "booting"
  BY <1>2, Stutter DEF Stop
<1> QED BY <1>1, <1>2
-----------------------------------------------------------------------------
(* The process and ReconcileAll                                            *)

\* ReconcileAll changes the kernel and the images only.
LEMMA ReconcileMaps ==
  ASSUME RInv, Reconcile \/ ReconcileFails
  PROVE  C!Next \/ UNCHANGED C!vars
<1>1. file' = file /\ acked' = acked /\ rec.pc # "idle"
  BY DEF Reconcile, ReconcileTargets, ReconcilePool, ReconcilePortals, ReconcileLUNs,
         ReconcileVolume, ReconcileStore, ReconcileLun, ReconcileBackstores, ReconcileFails
<1>2. UNCHANGED <<server, st>> \/ Stop
  BY DEF Reconcile, ReconcileTargets, ReconcilePool, ReconcilePortals, ReconcileLUNs,
         ReconcileVolume, ReconcileStore, ReconcileLun, ReconcileBackstores, ReconcileFails,
         Apply, Proceed
<1> QED BY <1>1, <1>2, Stops, Stutter

\* A boot reads what was kept, and makes the file anew of it before it serves.
LEMMA BootMaps ==
  ASSUME RInv, Boot \/ BootSaveOpen \/ BootSaveWrite
  PROVE  C!Next \/ UNCHANGED C!vars
<1>1. CASE Boot
  <2>1. /\ server = "down" /\ server' = "booting" /\ file.kind # "torn" /\ st' = file.st
        /\ UNCHANGED <<file, acked>>
    BY <1>1 DEF Boot, Loadable
  <2>2. KeptStates' = KeptStates
    BY <2>1 DEF KeptStates
  <2> QED BY <2>1, <2>2 DEF C!vars
<1>2. ASSUME rec.pc \in {"save", "write"} PROVE server = "booting" /\ rec.pc # "idle"
  BY <1>2 DEF RInv, IInv, LocksOK
<1>3. CASE BootSaveOpen
  <2>1. CASE file' = TornFile /\ Proceed(RecAt("write"))
    <3>1. UNCHANGED <<server, st, acked>> /\ server = "booting"
      BY <1>2, <1>3, <2>1 DEF BootSaveOpen, Proceed
    <3> QED BY <3>1 DEF C!vars, KeptStates
  <2>2. CASE Stop /\ UNCHANGED file
    BY <1>2, <1>3, <2>2, Stops DEF BootSaveOpen
  <2> QED BY <1>3, <2>1, <2>2 DEF BootSaveOpen
<1>4. CASE BootSaveWrite
  <2>1. CASE file' = FileOf(st) /\ server' = "up" /\ UNCHANGED st
    <3>1. acked' = acked /\ server = "booting"
      BY <1>2, <1>4 DEF BootSaveWrite
    <3>2. KeptStates = {MemoryOf(st)} /\ KeptStates' = {MemoryOf(st)}
      BY <2>1, <3>1 DEF KeptStates, FileOf
    <3>3. C!Start
      BY <2>1, <3>1, <3>2 DEF C!Start
    <3> QED BY <3>3 DEF C!Next
  <2>2. CASE Stop /\ UNCHANGED file
    BY <1>2, <1>4, <2>2, Stops DEF BootSaveWrite
  <2> QED BY <1>4, <2>1, <2>2 DEF BootSaveWrite
<1> QED BY <1>1, <1>3, <1>4

\* A process that dies loses its memory, and nothing that was saved.
LEMMA DieMaps ==
  ASSUME RInv, Crash \/ Reboot
  PROVE  C!Next \/ UNCHANGED C!vars
<1>1. /\ server # "down" /\ server' = "down" /\ st' = EmptyState /\ UNCHANGED <<file, acked>>
  BY DEF Crash, Reboot, Die
<1>2. CASE server = "booting"
  BY <1>1, <1>2, BootEnds
<1>3. CASE server = "up"
  <2>1. /\ MemoryOf(IF server' = "up" THEN st' ELSE EmptyState) = C!Empty
        /\ KeptStates' = KeptStates
    BY <1>1, <1>3, EmptyMemory DEF KeptStates
  <2>2. C!Stop
    BY <1>1, <1>3, <2>1 DEF C!Stop
  <2> QED BY <2>2 DEF C!Next
<1> QED BY <1>1, <1>2, <1>3 DEF RInv, IInv, TypeOK

-----------------------------------------------------------------------------
(* The handlers                                                            *)

\* What every handler can rely on.
LEMMA HandlerTypes ==
  ASSUME RInv, NEW h \in Handlers
  PROVE  /\ st \in State /\ call[h] \in Call
         /\ acked \in [Ids \X Ids -> {"unknown", "present", "absent"}]
BY DEF RInv, IInv, TypeOK

\* A save first empties the file; the reply tells what is in it afterwards.
LEMMA SaveMaps ==
  ASSUME RInv, NEW h \in Handlers, SaveOpen(h) \/ SaveWrite(h)
  PROVE  C!Next \/ UNCHANGED C!vars
<1>1. server = "up" /\ UNCHANGED <<server, st>>
  BY DEF SaveOpen, SaveWrite
<1>2. /\ MemoryOf(IF server = "up" THEN st ELSE EmptyState) = MemoryOf(st)
      /\ MemoryOf(IF server' = "up" THEN st' ELSE EmptyState) = MemoryOf(st)
      /\ KeptStates' = IF file'.kind = "torn" THEN {} ELSE {MemoryOf(file'.st)}
  BY <1>1 DEF KeptStates
<1>3. CASE SaveOpen(h)
  <2>1. CASE file' = TornFile
    <3>1. KeptStates' = {} /\ acked' = acked
      BY <1>2, <1>3, <2>1 DEF TornFile, SaveOpen
    <3>2. C!Lose
      BY <1>1, <1>2, <3>1 DEF C!Lose
    <3> QED BY <3>2 DEF C!Next
  <2>2. CASE UNCHANGED file
    BY <1>1, <1>3, <2>2, Stutter DEF SaveOpen
  <2> QED BY <1>3, <2>1, <2>2 DEF SaveOpen
<1>4. CASE SaveWrite(h)
  <2>1. CASE UNCHANGED <<file, acked>>
    BY <1>1, <2>1, Stutter
  <2>2. CASE /\ file' = FileOf(st)
             /\ acked' = [k \in Ids \X Ids |->
                           IF k \notin Keys(call[h]) THEN acked[k]
                           ELSE IF call[h].op \in {"CreatePool", "CreateVolume"}
                                THEN "present" ELSE "absent"]
    <3>1. KeptStates' = {MemoryOf(st)}
      BY <1>2, <2>2 DEF FileOf
    <3>2. acked' \in [Ids \X Ids -> {"unknown", "present", "absent"}]
      BY <2>2, HandlerTypes
    <3>3. \A k \in Keys(call[h]) :
            Known(st, k) <=> call[h].op \in {"CreatePool", "CreateVolume"}
      BY <1>4 DEF SaveWrite, RInv, IInv, CallsOK
    <3>4. ASSUME NEW k \in Ids \X Ids
          PROVE  acked'[k] \in {acked[k], IF Known(st, k) THEN "present" ELSE "absent"}
      BY <2>2, <3>3
    <3>5. \A k \in Ids \X Ids : C!Status(k) = IF Known(st, k) THEN "present" ELSE "absent"
      BY <1>2, MemoryFacts, HandlerTypes DEF C!Status
    <3>6. C!Save
      BY <1>1, <1>2, <3>1, <3>2, <3>4, <3>5 DEF C!Save, C!Keys
    <3> QED BY <3>6 DEF C!Next
  <2> QED BY <1>4, <2>1, <2>2 DEF SaveWrite
<1> QED BY <1>3, <1>4

\* CreatePool puts the pool into the state, if it was not there.
LEMMA CreatePoolMaps ==
  ASSUME RInv, NEW h \in Handlers, CreatePoolLocked(h)
  PROVE  C!Next \/ UNCHANGED C!vars
<1> DEFINE p == call[h].pool
           n == PoolName(call[h])
<1>1. /\ server = "up" /\ UNCHANGED <<server, file>> /\ call[h].op = "CreatePool"
      /\ p \in Ids /\ n \in Names
  <2>1. call[h] \in Call
    BY HandlerTypes
  <2>2. p \in Ids
    BY <2>1 DEF Call
  <2>3. n \in Names
    BY <2>1, <2>2 DEF PoolName, Call
  <2> QED BY <2>2, <2>3 DEF CreatePoolLocked, At
<1>2. CASE UNCHANGED <<st, acked>>
  BY <1>1, <1>2, Stutter
<1>3. CASE ~HasPool(st, p) /\ st' = PutPool(st, p, n) /\ Forget(Keys(call[h]))
  <2> DEFINE k == <<p, 0>>
  <2>1. Keys(call[h]) = {k} /\ k \in Ids \X Ids /\ k[1] = p /\ k[2] = 0
    BY <1>1, IdsNat DEF Keys
  <2>2. st' = PutPool(st, p, n)
    BY <1>3
  <2> HIDE DEF p, n, k
  <2>3. /\ st' \in State /\ st'.MaxLUNID = st.MaxLUNID /\ st'.vols = st.vols
        /\ \A j \in Ids \X Ids : Known(st', j) <=> j = <<p, 0>> \/ Known(st, j)
    BY <1>1, <2>2, PutPoolFacts, HandlerTypes
  <2>4. ~Known(st, k) /\ Known(st', k)
    BY <1>3, <2>1, <2>3 DEF Known, k
  <2>5. ASSUME NEW j \in Ids \X Ids, j # k
        PROVE  MemoryOf(st').thing[j] = MemoryOf(st).thing[j]
    <3>1. j[2] = 0 => st'.pools[j[1]] = st.pools[j[1]]
      <4>1. j[2] = 0 => j[1] # p
        BY <2>5 DEF k
      <4> QED BY <2>2, <4>1, HandlerTypes DEF PutPool, State
    <3>2. st'.vols[j] = st.vols[j]
      BY <2>3
    <3> QED BY <3>1, <3>2, SameThing
  <2>6. st.MaxLUNID <= st'.MaxLUNID
    <3>1. st.MaxLUNID \in Ids
      BY HandlerTypes DEF State
    <3>2. st.MaxLUNID \in Nat
      BY <3>1, IdsNat
    <3> QED BY <2>3, <3>2
  <2> QED BY <1>1, <1>3, <2>1, <2>3, <2>4, <2>5, <2>6, HandlerTypes, Creates
<1> QED BY <1>2, <1>3 DEF CreatePoolLocked

\* DeletePool drops the pool and its volumes.
LEMMA DeletePoolMaps ==
  ASSUME RInv, NEW h \in Handlers, DeletePoolLocked(h)
  PROVE  C!Next \/ UNCHANGED C!vars
<1> DEFINE p == call[h].pool
           k == <<p, 0>>
<1>1. /\ server = "up" /\ UNCHANGED <<server, file>> /\ call[h].op = "DeletePool" /\ p \in Ids
  BY HandlerTypes DEF DeletePoolLocked, At, Call
<1>2. CASE UNCHANGED <<st, acked>>
  BY <1>1, <1>2, Stutter
<1>3. CASE st' = DropPool(st, p) /\ Forget(Keys(call[h]))
  <2>1. Keys(call[h]) = C!Of(k) /\ k \in Ids \X Ids /\ C!Of(k) = {p} \X Ids
    BY <1>1, IdsNat DEF Keys, C!Of
  <2>2. st' = DropPool(st, p)
    BY <1>3
  <2> HIDE DEF p, k
  <2>3. st' \in State /\ st'.MaxLUNID = st.MaxLUNID
    BY <1>1, <2>2, DropPoolFacts, HandlerTypes
  <2>4. ASSUME NEW j \in Ids \X Ids
        PROVE  MemoryOf(st').thing[j] =
                 IF j \in C!Of(k) THEN NoVolume ELSE MemoryOf(st).thing[j]
    <3>1. CASE j \in C!Of(k)
      <4>1. j[1] = p
        BY <2>1, <3>1
      <4>2. ~HasPool(st', j[1]) /\ st'.vols[j] = NoVolume
        BY <1>1, <2>2, <4>1, HandlerTypes DEF DropPool, State, HasPool
      <4> QED BY <3>1, <4>2 DEF MemoryOf
    <3>2. CASE j \notin C!Of(k)
      <4>1. j[1] # p
        BY <2>1, <3>2
      <4>2. st'.pools[j[1]] = st.pools[j[1]] /\ st'.vols[j] = st.vols[j]
        BY <1>1, <2>2, <4>1, HandlerTypes DEF DropPool, State
      <4> QED BY <3>2, <4>2, SameThing
    <3> QED BY <3>1, <3>2
  <2> QED BY <1>1, <1>3, <2>1, <2>3, <2>4, HandlerTypes, Deletes
<1> QED BY <1>2, <1>3 DEF DeletePoolLocked

\* CreateVolume gives out an id, or one that was given out before, before it can
\* fail, and changes nothing else that a client could see.
LEMMA CreateVolumeMaps ==
  ASSUME RInv, NEW h \in Handlers, CreateVolume(h)
  PROVE  C!Next \/ UNCHANGED C!vars
<1>1. /\ server = "up" /\ UNCHANGED <<server, file, acked>> /\ cfs \in Cfs
  BY DEF CreateVolume, RInv, IInv, TypeOK
<1>2. PICK v \in Ids : st' = [st EXCEPT !.MaxLUNID = Max({@, v})]
  <2>1. PICK varg \in VolArgs \cup {Absent} :
          st' = [st EXCEPT !.MaxLUNID = Max({@, IF varg = Absent THEN NextVolumeId(st, cfs)
                                                               ELSE Truncate(varg)})]
    BY DEF CreateVolume
  <2>2. (IF varg = Absent THEN NextVolumeId(st, cfs) ELSE Truncate(varg)) \in Ids
    BY <1>1, TruncateType, NextVolumeIdType, HandlerTypes DEF SigmaAssumption
  <2> QED BY <2>1, <2>2
<1>3. /\ st' \in State /\ st'.pools = st.pools /\ st'.vols = st.vols
      /\ st'.MaxLUNID >= st.MaxLUNID
  BY <1>2, RaiseFacts, HandlerTypes
<1>4. /\ MemoryOf(IF server = "up" THEN st ELSE EmptyState) = MemoryOf(st)
      /\ MemoryOf(IF server' = "up" THEN st' ELSE EmptyState) = MemoryOf(st')
      /\ KeptStates' = KeptStates
  BY <1>1 DEF KeptStates
<1>5. /\ MemoryOf(st') \in C!Memory /\ MemoryOf(st').top = st'.MaxLUNID
      /\ MemoryOf(st).top = st.MaxLUNID /\ MemoryOf(st').thing = MemoryOf(st).thing
  <2>1. MemoryOf(st').thing = MemoryOf(st).thing
    BY <1>3 DEF MemoryOf, HasPool
  <2> QED BY <1>3, <2>1, MemoryFacts, HandlerTypes
<1>6. CASE st'.MaxLUNID = st.MaxLUNID
  <2>1. MemoryOf(st') = MemoryOf(st)
    BY <1>3, <1>6 DEF MemoryOf, HasPool
  <2> QED BY <1>1, <1>4, <2>1 DEF C!vars
<1>7. CASE st'.MaxLUNID # st.MaxLUNID
  <2>1. st.MaxLUNID < st'.MaxLUNID
    BY <1>3, <1>7, HandlerTypes DEF State, Ids
  <2>2. C!Count
    BY <1>1, <1>4, <1>5, <2>1 DEF C!Count
  <2> QED BY <2>2 DEF C!Next
<1> QED BY <1>6, <1>7

\* CreateVolume puts the volume into the state when the kernel has its LUN.
LEMMA CreateVolumeLunMaps ==
  ASSUME RInv, NEW h \in Handlers, CreateVolumeLun(h)
  PROVE  C!Next \/ UNCHANGED C!vars
<1> DEFINE p == call[h].pool
           v == call[h].vol
           vol == [name |-> call[h].name, size |-> call[h].size]
           k == <<p, v>>
<1>1. /\ server = "up" /\ UNCHANGED <<server, file>> /\ call[h].op = "CreateVolume"
      /\ p \in Ids /\ v \in Ids /\ v # 0 /\ vol \in Volume
      /\ HasPool(st, p) /\ v <= st.MaxLUNID /\ ~HasVolume(st, p, v)
  <2>1. /\ call[h].op = "CreateVolume" /\ call[h].pc = "lun" /\ call[h] \in Call
        /\ server = "up" /\ UNCHANGED <<server, file>>
    BY HandlerTypes DEF CreateVolumeLun, Holds, At
  <2>2. p \in Ids /\ v \in Ids /\ call[h].size \in Int
    BY <2>1 DEF Call
  <2>3. HasPool(st, p) /\ call[h].name \in Names /\ v # 0 /\ v <= st.MaxLUNID
    BY <2>1 DEF RInv, IInv, CallsOK
  <2>4. ~HasVolume(st, p, v)
    BY <2>1 DEF RInv, CreatesNew
  <2> QED BY <2>1, <2>2, <2>3, <2>4 DEF Volume
<1>2. CASE UNCHANGED <<st, acked>>
  BY <1>1, <1>2, Stutter
<1>3. CASE st' = PutVolume(st, p, v, vol) /\ Forget(Keys(call[h]))
  <2>1. Keys(call[h]) = {k} /\ k \in Ids \X Ids /\ k[1] = p /\ k[2] = v
    BY <1>1 DEF Keys
  <2>2. st' = PutVolume(st, p, v, vol)
    BY <1>3
  <2>3. ~Known(st, k)
    BY <1>1 DEF Known
  <2>4. k = <<p, v>>
    OBVIOUS
  <2> HIDE DEF p, v, vol, k
  <2>5. /\ st' \in State /\ st'.MaxLUNID = st.MaxLUNID /\ st'.pools = st.pools
        /\ \A j \in Ids \X Ids : Known(st', j) <=> j = <<p, v>> \/ Known(st, j)
    BY <1>1, <2>2, PutVolumeFacts, HandlerTypes
  <2>6. Known(st', k)
    BY <2>1, <2>4, <2>5
  <2>7. ASSUME NEW j \in Ids \X Ids, j # k
        PROVE  MemoryOf(st').thing[j] = MemoryOf(st).thing[j]
    <3>1. st'.vols[j] = st.vols[j]
      BY <2>2, <2>4, <2>7, HandlerTypes DEF PutVolume, State
    <3> QED BY <2>5, <3>1, SameThing
  <2>8. st.MaxLUNID <= st'.MaxLUNID
    BY <2>5, HandlerTypes DEF State, Ids
  <2> QED BY <1>1, <1>3, <2>1, <2>3, <2>5, <2>6, <2>7, <2>8, HandlerTypes, Creates
<1> QED BY <1>2, <1>3 DEF CreateVolumeLun

\* DeleteVolume drops the volume, if it is there, when nothing else is left.
LEMMA DeleteVolumeMaps ==
  ASSUME RInv, NEW h \in Handlers, DeleteVolumeFile(h)
  PROVE  C!Next \/ UNCHANGED C!vars
<1> DEFINE p == call[h].pool
           v == call[h].vol
           k == <<p, v>>
<1>1. /\ server = "up" /\ UNCHANGED <<server, file>> /\ call[h].op = "DeleteVolume"
      /\ p \in Ids /\ v \in Ids
  BY HandlerTypes DEF DeleteVolumeFile, Holds, At, Call
<1>2. CASE UNCHANGED <<st, acked>>
  BY <1>1, <1>2, Stutter
<1>3. CASE st' = DropVolume(st, p, v) /\ Forget(Keys(call[h]))
  <2>1. st' = DropVolume(st, p, v)
    BY <1>3
  <2>2. CASE v = 0
    <3>1. st.vols[<<p, v>>] = NoVolume
      BY <1>1, <2>2 DEF RInv, IInv, DurableOK, WellNumbered, HasVolume
    <3>2. st' = st
      BY <1>1, <2>1, <3>1, HandlerTypes DEF DropVolume, State
    <3>3. Keys(call[h]) = {}
      BY <1>1, <2>2 DEF Keys
    <3>4. acked' = acked
      BY <1>3, <3>3, HandlerTypes DEF Forget
    <3> QED BY <1>1, <3>2, <3>4, Stutter
  <2>3. CASE v # 0
    <3>1. Keys(call[h]) = C!Of(k) /\ k \in Ids \X Ids /\ C!Of(k) = {k} /\ k[2] # 0
      BY <1>1, <2>3 DEF Keys, C!Of
    <3>2. k = <<p, v>>
      OBVIOUS
    <3> HIDE DEF p, v, k
    <3>3. st' \in State /\ st'.MaxLUNID = st.MaxLUNID /\ st'.pools = st.pools
      BY <1>1, <2>1, DropVolumeFacts, HandlerTypes
    <3>4. ASSUME NEW j \in Ids \X Ids
          PROVE  MemoryOf(st').thing[j] =
                   IF j \in C!Of(k) THEN NoVolume ELSE MemoryOf(st).thing[j]
      <4>1. CASE j = k
        <5>1. st'.vols[j] = NoVolume
          BY <1>1, <2>1, <3>2, <4>1, HandlerTypes DEF DropVolume, State
        <5> QED BY <3>1, <4>1, <5>1 DEF MemoryOf
      <4>2. CASE j # k
        <5>1. st'.vols[j] = st.vols[j]
          BY <2>1, <3>2, <4>2, HandlerTypes DEF DropVolume, State
        <5> QED BY <3>1, <3>3, <4>2, <5>1, SameThing
      <4> QED BY <4>1, <4>2
    <3> QED BY <1>1, <1>3, <3>1, <3>3, <3>4, HandlerTypes, Deletes
  <2> QED BY <2>2, <2>3
<1> QED BY <1>2, <1>3 DEF DeleteVolumeFile

\* What is left of the handlers changes the kernel, an image, or its locals.
LEMMA HandleMaps ==
  ASSUME RInv, NEW h \in Handlers, Handle(h)
  PROVE  C!Next \/ UNCHANGED C!vars
<1>1. CASE CreatePool(h) \/ DeletePool(h) \/ DeleteVolume(h)
  BY <1>1, Stutter DEF CreatePool, DeletePool, DeleteVolume, Enter
<1>2. CASE DeleteVolumeLocked(h) \/ CreateVolumeStore(h) \/ DeleteVolumeStore(h)
  BY <1>2, Stutter DEF DeleteVolumeLocked, CreateVolumeStore, DeleteVolumeStore
<1> QED BY <1>1, <1>2, CreatePoolMaps, DeletePoolMaps, CreateVolumeMaps, CreateVolumeLunMaps,
           DeleteVolumeMaps, SaveMaps DEF Handle, Arrive, Lock, Work

-----------------------------------------------------------------------------
(* The invariant                                                           *)

\* A step outside the handlers leaves the state alone, or happens in a server
\* that is not up, in which nobody runs.
LEMMA OutsideHandlers ==
  ASSUME RInv, \/ ReconcileStart \/ Reconcile \/ ReconcileFails
               \/ Boot \/ BootSaveOpen \/ BootSaveWrite \/ Crash \/ Reboot \/ ClientWrites
  PROVE  /\ \A g \in Handlers : call'[g] = call[g] \/ call'[g] = IdleCall
         /\ st' = st \/ \A g \in Handlers : call'[g] = IdleCall
<1>1. server # "up" => \A g \in Handlers : call[g] = IdleCall
  BY DEF RInv, IInv, LocksOK
<1>2. CASE ReconcileStart \/ ClientWrites
  BY <1>2 DEF ReconcileStart, ClientWrites, ClientWrite
<1>3. CASE Reconcile \/ ReconcileFails
  <2>1. call' = call
    BY <1>3 DEF Reconcile, ReconcileTargets, ReconcilePool, ReconcilePortals, ReconcileLUNs,
         ReconcileVolume, ReconcileStore, ReconcileLun, ReconcileBackstores, ReconcileFails
  <2>2. st' = st \/ server = "booting"
    BY <1>3 DEF Reconcile, ReconcileTargets, ReconcilePool, ReconcilePortals, ReconcileLUNs,
         ReconcileVolume, ReconcileStore, ReconcileLun, ReconcileBackstores, ReconcileFails,
         Apply, Proceed, Stop
  <2> QED BY <1>1, <2>1, <2>2
<1>4. CASE Boot
  BY <1>1, <1>4 DEF Boot
<1>5. CASE BootSaveOpen \/ BootSaveWrite
  <2>1. call' = call /\ rec.pc \in {"save", "write"}
    BY <1>5 DEF BootSaveOpen, BootSaveWrite
  <2>2. server = "booting"
    BY <2>1 DEF RInv, IInv, LocksOK
  <2> QED BY <1>1, <2>1, <2>2
<1>6. CASE Crash \/ Reboot
  BY <1>6 DEF Crash, Reboot, Die
<1> QED BY <1>2, <1>3, <1>4, <1>5, <1>6

\* A handler that is making a volume is the writer: no other puts this volume
\* into the state before it does.
LEMMA HandleKeepsNew == ASSUME RInv, NEW h \in Handlers, Handle(h) PROVE CreatesNew'
<1> SUFFICES ASSUME NEW g \in Handlers, call'[g].op = "CreateVolume",
                    call'[g].pc \in {"store", "lun"}
             PROVE  ~HasVolume(st', call'[g].pool, call'[g].vol)
  BY DEF CreatesNew
<1>1. /\ call \in [Handlers -> Call] /\ call[g] \in Call /\ call[h] \in Call /\ Nobody \notin Handlers
      /\ call[g].pc \in {"store", "lun"} => writer = g
      /\ (call[g].op = "CreateVolume" /\ call[g].pc \in {"store", "lun"})
            => ~HasVolume(st, call[g].pool, call[g].vol)
  BY DEF RInv, IInv, TypeOK, LocksOK, CreatesNew
<1>2. IdleCall.pc = "idle"
  BY DEF IdleCall
<1>3. CASE CreatePool(h) \/ DeletePool(h) \/ DeleteVolume(h)
  <2>1. \E op, p, v, n, t : Enter(h, op, p, v, n, t)
    BY <1>3 DEF CreatePool, DeletePool, DeleteVolume
  <2>2. PICK op, p, v, n, t : Enter(h, op, p, v, n, t)
    BY <2>1
  <2>3. /\ st' = st
        /\ call' = [call EXCEPT ![h] = [op |-> op, pc |-> "lock", pool |-> p, vol |-> v,
                                        name |-> n, size |-> 0, target |-> t]]
    BY <2>2 DEF Enter
  <2> QED BY <1>1, <2>3
<1>4. CASE DeleteVolumeLocked(h) \/ DeleteVolumeStore(h) \/ SaveOpen(h) \/ SaveWrite(h)
           \/ CreateVolumeStore(h)
  <2>1. /\ st' = st
        /\ call' = [call EXCEPT ![h] = IdleCall] \/ \E pc : call' = [call EXCEPT ![h].pc = pc]
        /\ call[h].op = "DeleteVolume" \/ call[h].pc = "store"
              \/ call' = [call EXCEPT ![h] = IdleCall] \/ call' = [call EXCEPT ![h].pc = "write"]
    BY <1>4 DEF DeleteVolumeLocked, DeleteVolumeStore, SaveOpen, SaveWrite, CreateVolumeStore,
                Holds, At, Return, Continue
  <2>2. CASE g = h
    <3>1. call'[h] # IdleCall
      BY <1>2, <2>2
    <3>2. PICK pc : call' = [call EXCEPT ![h].pc = pc]
      BY <1>1, <2>1, <3>1
    <3>3. call'[h] = [call[h] EXCEPT !.pc = pc]
      BY <1>1, <3>2
    <3>4. /\ call'[h].op = call[h].op /\ call'[h].pool = call[h].pool
          /\ call'[h].vol = call[h].vol
      BY <1>1, <3>3 DEF Call
    <3>5. call[h].pc = "store"
      <4>1. call' = [call EXCEPT ![h].pc = "write"] => call'[h].pc = "write"
        BY <1>1 DEF Call
      <4>2. call' = [call EXCEPT ![h] = IdleCall] => call'[h] = IdleCall
        BY <1>1
      <4> QED BY <2>1, <2>2, <3>1, <3>4, <4>1, <4>2
    <3> QED BY <1>1, <2>1, <2>2, <3>4, <3>5
  <2>3. CASE g # h
    <3>1. call'[g] = call[g]
      BY <1>1, <2>1, <2>3
    <3> QED BY <1>1, <2>1, <3>1
  <2> QED BY <2>2, <2>3
<1>5. CASE CreatePoolLocked(h) \/ DeletePoolLocked(h) \/ CreateVolumeLun(h) \/ DeleteVolumeFile(h)
  <2>1. /\ writer \in {h, Nobody}
        /\ call' = [call EXCEPT ![h] = IdleCall] \/ call' = [call EXCEPT ![h].pc = "save"]
    BY <1>5 DEF CreatePoolLocked, DeletePoolLocked, CreateVolumeLun, DeleteVolumeFile,
                Holds, LockFree, Return, Continue
  <2>2. g # h
    BY <1>1, <1>2, <2>1 DEF Call
  <2>3. call'[g] = call[g] /\ writer # g
    BY <1>1, <2>1, <2>2
  <2> QED BY <1>1, <2>3
<1>6. CASE CreateVolume(h)
  <2>1. writer = Nobody /\ st'.vols = st.vols
    BY <1>6 DEF CreateVolume, LockFree, RInv, IInv, TypeOK, State
  <2>2. PICK p, v : \/ call' = call
                    \/ /\ ~HasVolume(st, p, v) /\ call'[h].pool = p /\ call'[h].vol = v
                       /\ \A f \in Handlers : f # h => call'[f] = call[f]
    <3>1. PICK parg \in PoolArgs, varg \in VolArgs \cup {Absent}, n \in NameArgs \cup {NoName},
               z \in SizeArgs :
        LET p == Truncate(parg)
            v == IF varg = Absent THEN NextVolumeId(st, cfs) ELSE Truncate(varg)
            s == [st EXCEPT !.MaxLUNID = Max({@, v})]
            path == DiskPath[<<st.pools[p], VolumeName(v, n)>>]
        IN  /\ v # 0
            /\ st' = s
            /\ \/ /\ ~HasPool(st, p) \/ HasVolume(st, p, v)
                  /\ Spend("requests", MaxRequests)
                  /\ UNCHANGED <<disk, call, writer>>
               \/ /\ HasPool(st, p) /\ ~HasVolume(st, p, v)
                  /\ \E r \in TouchDiskFile(disk, path, AsInt64(z)) :
                       /\ r.fault => budget.faults < MaxFaults
                       /\ budget' = [budget EXCEPT !.requests = @ + 1,
                                       !.faults = @ + IF r.fault THEN 1 ELSE 0]
                       /\ disk' = r.d
                       /\ IF r.ok
                          THEN /\ writer' = h
                               /\ call' = [call EXCEPT ![h] =
                                    [op |-> "CreateVolume", pc |-> "store", pool |-> p,
                                     vol |-> v, name |-> VolumeName(v, n),
                                     size |-> AsInt64(z), target |-> ZeroTarget]]
                          ELSE UNCHANGED <<call, writer>>
      BY <1>6 DEF CreateVolume
    <3> DEFINE pp == Truncate(parg)
               vv == IF varg = Absent THEN NextVolumeId(st, cfs) ELSE Truncate(varg)
    <3>2. CASE call' = call
      BY <3>2
    <3>3. CASE /\ ~HasVolume(st, pp, vv)
               /\ call' = [call EXCEPT ![h] =
                     [op |-> "CreateVolume", pc |-> "store", pool |-> pp, vol |-> vv,
                      name |-> VolumeName(vv, n), size |-> AsInt64(z), target |-> ZeroTarget]]
      BY <1>1, <3>3
    <3> QED BY <3>1, <3>2, <3>3
  <2>3. call'[g] # call[g]
    BY <1>1, <2>1
  <2> QED BY <1>1, <2>1, <2>2, <2>3 DEF HasVolume
<1> QED BY <1>3, <1>4, <1>5, <1>6 DEF Handle, Arrive, Lock, Work

\* A process that boots has read the file, and nobody else writes it.
LEMMA BootsKept == ASSUME RInv, Next PROVE BootsFromFile'
<1>1. CASE \E h \in Handlers : Handle(h)
  <2>1. server = "up" /\ server' = server
    BY <1>1 DEF Handle, Arrive, Lock, Work, CreatePool, DeletePool, CreateVolume, DeleteVolume,
         Enter, CreatePoolLocked, DeletePoolLocked, DeleteVolumeLocked, CreateVolumeStore,
         CreateVolumeLun, DeleteVolumeStore, DeleteVolumeFile, SaveOpen, SaveWrite, Holds, At
  <2> QED BY <2>1 DEF BootsFromFile
<1>2. CASE ReconcileStart \/ ClientWrites
  BY <1>2 DEF ReconcileStart, ClientWrites, ClientWrite, RInv, BootsFromFile
<1>3. CASE Reconcile \/ ReconcileFails
  <2>1. file' = file /\ (UNCHANGED <<server, st>> \/ Stop)
    BY <1>3 DEF Reconcile, ReconcileTargets, ReconcilePool, ReconcilePortals, ReconcileLUNs,
         ReconcileVolume, ReconcileStore, ReconcileLun, ReconcileBackstores, ReconcileFails,
         Apply, Proceed
  <2> QED BY <2>1 DEF Stop, RInv, BootsFromFile
<1>4. CASE Boot
  BY <1>4 DEF Boot, BootsFromFile
<1>5. CASE BootSaveOpen \/ BootSaveWrite
  BY <1>5 DEF BootSaveOpen, BootSaveWrite, Proceed, Stop, TornFile, RInv, BootsFromFile
<1>6. CASE Crash \/ Reboot
  BY <1>6 DEF Crash, Reboot, Die, BootsFromFile
<1> QED BY <1>1, <1>2, <1>3, <1>4, <1>5, <1>6 DEF Next, ClientWrites

\* The invariant holds at first, and every step keeps it.
LEMMA InitRInv == Init => RInv
BY InitIInv DEF Init, RInv, BootsFromFile, CreatesNew, IdleCall

LEMMA NextRInv == RInv /\ [Next]_vars => RInv'
<1> SUFFICES ASSUME RInv, [Next]_vars PROVE RInv'
  OBVIOUS
<1>1. IInv'
  BY NextIInv DEF RInv
<1>2. CASE Next
  <2>1. BootsFromFile'
    BY <1>2, BootsKept
  <2>2. CreatesNew'
    <3>1. CASE \E h \in Handlers : Handle(h)
      BY <3>1, HandleKeepsNew
    <3>2. CASE ~\E h \in Handlers : Handle(h)
      BY <1>2, <3>2, OutsideHandlers DEF Next, ClientWrites, RInv, CreatesNew, IdleCall
    <3> QED BY <3>1, <3>2
  <2> QED BY <1>1, <2>1, <2>2 DEF RInv
<1>3. CASE UNCHANGED vars
  BY <1>1, <1>3 DEF vars, RInv, BootsFromFile, CreatesNew
<1> QED BY <1>2, <1>3

-----------------------------------------------------------------------------
(* The theorems                                                            *)

\* A server starts with nothing, in memory and in its file.
LEMMA InitMaps == Init => C!Init
<1> SUFFICES ASSUME Init PROVE C!Init
  OBVIOUS
<1>1. /\ server = "down" /\ st = EmptyState /\ file = NoneFile
      /\ acked = [k \in Ids \X Ids |-> "unknown"]
  BY DEF Init
<1>2. KeptStates = {MemoryOf(EmptyState)}
  BY <1>1 DEF KeptStates, NoneFile
<1>3. MemoryOf(EmptyState) \in C!Memory /\ \A k \in Ids \X Ids : ~C!Has(MemoryOf(EmptyState), k)
  BY NoneTypes, MemoryFacts, EmptyStateFacts
<1>4. C!WellNumbered(MemoryOf(EmptyState))
  BY <1>3 DEF C!WellNumbered, C!Keys
<1>5. (server = "up") = FALSE
  BY <1>1
<1> QED BY <1>1, <1>2, <1>3, <1>4, <1>5, EmptyMemory DEF C!Init, C!Keys

\* Every step is a step of the catalog, or changes nothing of it.
LEMMA NextMaps == RInv /\ [Next]_vars => [C!Next]_(C!vars)
<1> SUFFICES ASSUME RInv, [Next]_vars PROVE C!Next \/ UNCHANGED C!vars
  OBVIOUS
<1>1. CASE \E h \in Handlers : Handle(h)
  BY <1>1, HandleMaps
<1>2. CASE ReconcileStart \/ ClientWrites
  BY <1>2, Stutter DEF ReconcileStart, ClientWrites, ClientWrite
<1>3. CASE UNCHANGED vars
  BY <1>3, Stutter DEF vars
<1> QED BY <1>1, <1>2, <1>3, ReconcileMaps, BootMaps, DieMaps DEF Next, ClientWrites

\* The sigma server implements the catalog, for every number of handlers, ids and
\* names: every call takes effect in one step, is saved before it is answered,
\* and comes back after a restart as it was saved last (SaveState, LoadState and
\* the order in which the handlers of sigma.go change the state).
THEOREM Refinement == Spec => ImplementsCatalog
BY InitRInv, NextRInv, InitMaps, NextMaps, PTL DEF Spec, ImplementsCatalog, C!Spec
=============================================================================
