------------------------- MODULE ProvisionerProofs -------------------------
(***************************************************************************)
(* What the Kubernetes provisioner and the server it talks to keep, proved *)
(* for every number of claims and ids and every bound of Provisioner.      *)
(***************************************************************************)
EXTENDS Provisioner, Extrema

USE RegistryAssumption, ProvisionerAssumption

-----------------------------------------------------------------------------
(* The operators of the server                                              *)

LEMMA IdsType == /\ Ids \subseteq Nat /\ 0 \in Ids /\ 1 \in Ids /\ IsFiniteSet(Ids)
<1>1. Ids \subseteq Nat /\ 0 \in Ids /\ 1 \in Ids
  BY DEF Ids
<1>2. IsFiniteSet(Ids)
  BY FS_Interval DEF Ids
<1> QED BY <1>1, <1>2

\* What State says of a state, field by field.
LEMMA StateIs ==
  ASSUME NEW s
  PROVE  s \in State <=>
           /\ s = [MaxLUNID |-> s.MaxLUNID, pools |-> s.pools, vols |-> s.vols]
           /\ s.MaxLUNID \in Ids
           /\ s.pools \in [Ids -> {"none", "class", "other"}]
           /\ s.vols \in [Ids \X Ids -> Claims \cup {Nobody}]
BY DEF State

\* NextVolumeId returns an id, or 0.
LEMMA NextIdType ==
  ASSUME reg \in State, stores \subseteq Ids \X Claims
  PROVE  NextVolumeId \in Ids
<1>1. CASE stores = {}
  BY <1>1, IdsType DEF NextVolumeId
<1>2. CASE stores # {}
  <2> DEFINE S == StoreIds \cup {reg.MaxLUNID}
             m == Max(S)
  <2>0. StoreIds \subseteq Ids
    BY DEF StoreIds
  <2>1. S \subseteq Ids /\ S # {}
    BY <2>0, StateIs
  <2>2. IsFiniteSet(S) /\ S \in SUBSET Nat
    BY <2>1, IdsType, FS_Subset
  <2>3. m \in Ids
    <3> HIDE DEF S
    <3> QED BY <2>1, <2>2, MaxIn
  <2>4. NextVolumeId = (m + 1) % (MaxU16 + 1)
    BY <1>2 DEF NextVolumeId
  <2> HIDE DEF m
  <2>5. (m + 1) % (MaxU16 + 1) \in 0..MaxU16
    BY <2>3 DEF Ids
  <2> QED BY <2>4, <2>5 DEF Ids
<1> QED BY <1>1, <1>2

\* Raised raises MaxLUNID and nothing else.
LEMMA RaisedIs ==
  ASSUME reg \in State, NEW v \in Ids
  PROVE  /\ Raised(v) \in State
         /\ Raised(v).pools = reg.pools /\ Raised(v).vols = reg.vols
         /\ Raised(v).MaxLUNID >= v /\ Raised(v).MaxLUNID >= reg.MaxLUNID
<1> DEFINE m == Max({reg.MaxLUNID, v})
<1>1. reg.MaxLUNID \in Ids /\ reg.MaxLUNID \in Int /\ v \in Int
  BY StateIs, IdsType
<1>2. m \in Ids /\ m >= v /\ m >= reg.MaxLUNID
  <2>1. m = IF reg.MaxLUNID >= v THEN reg.MaxLUNID ELSE v
    BY <1>1, MaxOfTwo
  <2> HIDE DEF m
  <2> QED BY <2>1, <1>1
<1> HIDE DEF m
<1>3. Raised(v) = [reg EXCEPT !.MaxLUNID = m]
  BY DEF Raised, m
<1>4. Raised(v) = [MaxLUNID |-> m, pools |-> reg.pools, vols |-> reg.vols]
  BY <1>3, StateIs
<1> QED BY <1>2, <1>4, StateIs

\* CreateVolume's state: one volume more.
LEMMA WithVolumeIs ==
  ASSUME reg \in State, NEW p \in Ids, NEW v \in Ids, NEW c \in Claims
  PROVE  /\ WithVolume(p, v, c) \in State
         /\ WithVolume(p, v, c).pools = reg.pools
         /\ WithVolume(p, v, c).MaxLUNID = Raised(v).MaxLUNID
         /\ WithVolume(p, v, c).vols = [reg.vols EXCEPT ![<<p, v>>] = c]
<1> DEFINE r == Raised(v)
           V == [reg.vols EXCEPT ![<<p, v>>] = c]
           s == WithVolume(p, v, c)
<1>1. r \in State /\ r.pools = reg.pools /\ r.vols = reg.vols
  BY RaisedIs
<1>2. s = [r EXCEPT !.vols = [r.vols EXCEPT ![<<p, v>>] = c]]
  BY DEF WithVolume
<1>3. V \in [Ids \X Ids -> Claims \cup {Nobody}]
  BY StateIs
<1> HIDE DEF r, s
<1>4. s = [MaxLUNID |-> r.MaxLUNID, pools |-> reg.pools, vols |-> V]
  BY <1>1, <1>2, StateIs
<1>5. r.MaxLUNID \in Ids /\ reg.pools \in [Ids -> {"none", "class", "other"}]
  BY <1>1, StateIs
<1> HIDE DEF V
<1>6. /\ s \in State /\ s.MaxLUNID = r.MaxLUNID
      /\ s.pools = reg.pools /\ s.vols = V
  <2>1. s.MaxLUNID = r.MaxLUNID /\ s.pools = reg.pools /\ s.vols = V
    BY <1>4
  <2> QED BY <1>3, <1>4, <1>5, <2>1 DEF State
<1> QED BY <1>6, Zenon DEF r, s, V

\* DeleteVolume's state: one volume less.
LEMMA WithoutVolumeIs ==
  ASSUME reg \in State, NEW p \in Ids, NEW v \in Ids
  PROVE  /\ WithoutVolume(p, v) \in State
         /\ WithoutVolume(p, v).pools = reg.pools
         /\ WithoutVolume(p, v).MaxLUNID = reg.MaxLUNID
         /\ WithoutVolume(p, v).vols = [reg.vols EXCEPT ![<<p, v>>] = Nobody]
<1> DEFINE V == [reg.vols EXCEPT ![<<p, v>>] = Nobody]
           s == WithoutVolume(p, v)
<1>1. s = [MaxLUNID |-> reg.MaxLUNID, pools |-> reg.pools, vols |-> V]
  BY StateIs DEF WithoutVolume
<1>2. V \in [Ids \X Ids -> Claims \cup {Nobody}]
  BY StateIs
<1>3. reg.MaxLUNID \in Ids /\ reg.pools \in [Ids -> {"none", "class", "other"}]
  BY StateIs
<1> HIDE DEF V, s
<1>4. /\ s \in State /\ s.MaxLUNID = reg.MaxLUNID
      /\ s.pools = reg.pools /\ s.vols = V
  <2>1. s.MaxLUNID = reg.MaxLUNID /\ s.pools = reg.pools /\ s.vols = V
    BY <1>1
  <2> QED BY <1>1, <1>2, <1>3, <2>1 DEF State
<1> QED BY <1>4, Zenon DEF s, V

\* CreatePool's state: one pool more, whose id is not 0.
LEMMA WithPoolIs ==
  ASSUME reg \in State, NEW p \in Ids
  PROVE  /\ WithPool(p) \in State
         /\ WithPool(p).vols = reg.vols
         /\ WithPool(p).MaxLUNID = reg.MaxLUNID
         /\ WithPool(p).pools = [reg.pools EXCEPT ![p] = "class"]
<1>1. WithPool(p) = [MaxLUNID |-> reg.MaxLUNID, pools |-> [reg.pools EXCEPT ![p] = "class"],
                     vols |-> reg.vols]
  BY StateIs DEF WithPool
<1>2. [reg.pools EXCEPT ![p] = "class"] \in [Ids -> {"none", "class", "other"}]
  BY StateIs
<1> QED BY <1>1, <1>2, StateIs

LEMMA FreePoolIs ==
  ASSUME FreePoolIds # {}
  PROVE  /\ Min(FreePoolIds) \in Ids \ {0}
         /\ ~HasPool(reg, Min(FreePoolIds))
<1>1. FreePoolIds \in SUBSET Nat
  BY DEF FreePoolIds
<1>2. Min(FreePoolIds) \in FreePoolIds
  BY <1>1, MinIn
<1> HIDE DEF FreePoolIds
<1> DEFINE m == Min(FreePoolIds)
<1>3. m \in FreePoolIds
  BY <1>2
<1> HIDE DEF m
<1>4. m \in Ids \ {0} /\ ~HasPool(reg, m)
  BY <1>3 DEF FreePoolIds, Ids
<1> QED BY <1>4 DEF m

\* SaveState writes the state that is in memory, or leaves the file as it was, or
\* torn.
Saving == \/ saved' = saved /\ torn' \in {torn, TRUE}
          \/ saved' = reg' /\ torn' = FALSE

\* Whatever the answer, a call ends in one of its states, and saves the last
\* of them or nothing.
LEMMA AnswerIs ==
  ASSUME NEW s0, NEW s, NEW T, NEW t, Succeeds(s, t) \/ Fails(s0, s, T, t)
  PROVE  /\ up' = up /\ reg' \in {s0, s} /\ stores' \in T \cup {t}
         /\ Saving
         /\ reg' # s => saved' = saved /\ torn' = torn
         /\ saved' = saved \/ saved' = s
BY DEF Succeeds, Fails, Saving

\* The backstores that a state calls for, and those that a call or ReconcileAll
\* leaves, are backstores.
LEMMA StoresType ==
  ASSUME stores \subseteq Ids \X Claims
  PROVE  /\ \A v : stores \ Hba(v) \subseteq Ids \X Claims
         /\ \A v : \A S \in Emptied(v) : S \subseteq Ids \X Claims
         /\ \A s \in State : /\ Reconciled(s) \subseteq Ids \X Claims
                            /\ \A S \in Partly(s) : S \subseteq Ids \X Claims
<1>1. \A v : Hba(v) \subseteq stores
  BY DEF Hba
<1>2. ASSUME NEW s \in State PROVE Volumes(s) \subseteq Ids \X Claims
  <2>1. s.vols \in [Ids \X Ids -> Claims \cup {Nobody}]
    BY StateIs
  <2>2. ASSUME NEW k \in Ids \X Ids, s.vols[k] # Nobody
        PROVE  <<k[2], s.vols[k]>> \in Ids \X Claims
    BY <2>1, <2>2
  <2> QED BY <2>2 DEF Volumes
<1>3. ASSUME NEW s \in State
      PROVE  /\ Reconciled(s) \subseteq Ids \X Claims
             /\ \A S \in Partly(s) : S \subseteq Ids \X Claims
  BY <1>2 DEF Reconciled, Partly
<1>4. \A v : \A S \in Emptied(v) : S \subseteq Ids \X Claims
  BY <1>1 DEF Emptied
<1> QED BY <1>3, <1>4

\* A server that is down has nothing in memory.
LEMMA BlankType ==
  /\ Blank \in State
  /\ \A k \in Ids \X Ids : Blank.vols[k] = Nobody
  /\ \A p \in Ids : Blank.pools[p] = "none"
<1> DEFINE P == [p \in Ids |-> "none"]
           V == [k \in Ids \X Ids |-> Nobody]
<1>1. /\ P \in [Ids -> {"none", "class", "other"}] /\ \A p \in Ids : P[p] = "none"
      /\ V \in [Ids \X Ids -> Claims \cup {Nobody}] /\ \A k \in Ids \X Ids : V[k] = Nobody
  OBVIOUS
<1>2. Blank = [MaxLUNID |-> 0, pools |-> P, vols |-> V]
  BY DEF Blank
<1> HIDE DEF P, V
<1>3. Blank.MaxLUNID = 0 /\ Blank.pools = P /\ Blank.vols = V
  BY <1>2
<1>4. Blank \in State
  BY <1>1, <1>2, <1>3, IdsType, StateIs
<1> QED BY <1>1, <1>3, <1>4

-----------------------------------------------------------------------------
(* Every variable has its type                                              *)

RegistryOK == /\ up \in BOOLEAN /\ reg \in State /\ saved \in State /\ torn \in BOOLEAN
              /\ stores \subseteq Ids \X Claims
ClassOK    == class \in Class /\ cached \in Versions /\ obj \in [Versions -> Ids]
WorkOK     == work \in [Claims -> Worker] /\ pv \in [Claims -> PV]
StrikesOK  == strikes \in [Claims -> 0..2]
BudgetOK   == budget \in [faults : 0..MaxFaults, crashes : 0..MaxCrashes,
                          edits : 0..MaxEdits, cut : Nat]

LEMMA TypeParts ==
  TypeOK <=> RegistryOK /\ ClassOK /\ WorkOK /\ StrikesOK /\ BudgetOK
BY DEF TypeOK, RegistryOK, ClassOK, WorkOK, StrikesOK, BudgetOK

LEMMA BootTears ==
  ASSUME BootFails
  PROVE  torn' = FALSE \/ torn' = TRUE
BY DEF BootFails

LEMMA RegistryStep ==
  ASSUME TypeOK, [Next]_vars
  PROVE  RegistryOK'
<1> RegistryOK
  BY TypeParts
<1>1. CASE UNCHANGED registry
  BY <1>1 DEF registry, RegistryOK
<1>2. ASSUME NEW s0 \in State, NEW s \in State, NEW T, NEW t,
             \A S \in T \cup {t} : S \subseteq Ids \X Claims,
             Succeeds(s, t) \/ Fails(s0, s, T, t)
      PROVE  RegistryOK'
  <2>1. /\ up' = up /\ reg' \in {s0, s} /\ saved' \in {saved, s} /\ stores' \in T \cup {t}
        /\ torn' \in {torn, TRUE, FALSE}
    BY <1>2, AnswerIs DEF Saving
  <2> QED BY <1>2, <2>1 DEF RegistryOK
<1>3. ASSUME NEW c \in Claims, CreatePool(c) PROVE RegistryOK'
  <2>1. CASE FreePoolIds = {}
    BY <1>1, <1>3, <2>1 DEF CreatePool
  <2>2. CASE FreePoolIds # {}
    <3> DEFINE p == Min(FreePoolIds)
    <3>1. p \in Ids
      BY <2>2, FreePoolIs
    <3>2. \/ Succeeds(WithPool(p), stores)
          \/ Fails(reg, WithPool(p), {stores}, stores)
      BY <1>3, <2>2 DEF CreatePool
    <3> HIDE DEF p
    <3>3. WithPool(p) \in State /\ reg \in State /\ stores \subseteq Ids \X Claims
      BY <3>1, WithPoolIs DEF RegistryOK
    <3> DEFINE s == WithPool(p)
               T == {stores}
    <3>4. \A S \in T \cup {stores} : S \subseteq Ids \X Claims
      BY <3>3
    <3>5. s \in State /\ (Succeeds(s, stores) \/ Fails(reg, s, T, stores))
      BY <3>2, <3>3
    <3> HIDE DEF s, T
    <3> QED BY <1>2, <3>3, <3>4, <3>5
  <2> QED BY <2>1, <2>2
<1>4. ASSUME NEW c \in Claims, CreateVolume(c) PROVE RegistryOK'
  <2> DEFINE p == work[c].pool
             v == NextVolumeId
             t == stores \cup {<<v, c>>}
  <2>1. p \in Ids /\ v \in Ids
    BY NextIdType, TypeParts DEF WorkOK, Worker, RegistryOK
  <2>2. \/ UNCHANGED registry
        \/ reg' = Raised(v) /\ UNCHANGED <<up, saved, torn, stores>>
        \/ \/ Succeeds(WithVolume(p, v, c), t)
           \/ Fails(Raised(v), WithVolume(p, v, c), {stores, t}, t)
    BY <1>4 DEF CreateVolume
  <2>3. t \subseteq Ids \X Claims /\ stores \subseteq Ids \X Claims
    BY <2>1 DEF RegistryOK
  <2> HIDE DEF p, v, t
  <2>4. Raised(v) \in State /\ WithVolume(p, v, c) \in State
    BY <2>1, RaisedIs, WithVolumeIs DEF RegistryOK
  <2>5. CASE reg' = Raised(v) /\ UNCHANGED <<up, saved, torn, stores>>
    BY <2>4, <2>5 DEF RegistryOK
  <2> QED BY <1>1, <1>2, <2>2, <2>3, <2>4, <2>5
<1>5. ASSUME NEW c \in Claims, NEW p \in Ids, NEW v \in Ids, DeleteVolume(c, p, v)
      PROVE  RegistryOK'
  <2>1. \/ UNCHANGED registry \/ Refuses(p, v)
        \/ Succeeds(WithoutVolume(p, v), stores \ Hba(v))
        \/ Fails(reg, WithoutVolume(p, v), Emptied(v), stores \ Hba(v))
    BY <1>5 DEF DeleteVolume
  <2>2. /\ WithoutVolume(p, v) \in State /\ reg \in State
        /\ stores \ Hba(v) \subseteq Ids \X Claims
        /\ \A S \in Emptied(v) : S \subseteq Ids \X Claims
    BY WithoutVolumeIs, StoresType DEF RegistryOK
  <2>3. CASE Refuses(p, v)
    BY <2>2, <2>3 DEF Refuses, RegistryOK
  <2>4. \A S \in Emptied(v) \cup {stores \ Hba(v)} : S \subseteq Ids \X Claims
    BY <2>2
  <2> QED BY <1>1, <1>2, <2>1, <2>2, <2>3, <2>4
<1>6. ASSUME NEW c \in Claims, Delete(c) PROVE RegistryOK'
  <2>1. /\ pv[c].pool \in Ids /\ pv[c].vol \in Ids
        /\ work[c].pool \in Ids /\ work[c].vol \in Ids
    BY TypeParts DEF WorkOK, Worker, PV
  <2> QED BY <1>5, <1>6, <2>1 DEF Delete
<1>7. ASSUME Crash \/ BootServer \/ ReconcileServer PROVE RegistryOK'
  <2> RegistryOK /\ reg \in State /\ saved \in State /\ stores \subseteq Ids \X Claims
    BY DEF RegistryOK
  <2>1. CASE Crash
    <3>1. CASE Stop
      BY <3>1, BlankType DEF Stop, RegistryOK
    <3> QED BY <1>1, <2>1, <3>1 DEF Crash
  <2>2. CASE BootServer
    <3>1. CASE Boots
      BY <3>1, StoresType DEF Boots, RegistryOK
    <3>2. CASE BootFails
      <4>1. torn' = FALSE \/ torn' = TRUE
        BY <3>2, BootTears
      <4>2. torn' \in BOOLEAN
        BY <4>1
      <4> QED BY <3>2, <4>2, StoresType DEF BootFails, RegistryOK
    <3> QED BY <2>2, <3>1, <3>2 DEF BootServer
  <2>3. CASE ReconcileServer
    <3>1. CASE Reconciles
      BY <3>1, StoresType DEF Reconciles, RegistryOK
    <3>2. CASE ReconcileFails
      BY <3>2, StoresType DEF ReconcileFails, RegistryOK
    <3> QED BY <2>3, <3>1, <3>2 DEF ReconcileServer
  <2> QED BY <1>7, <2>1, <2>2, <2>3
<1>8. ASSUME NEW c \in Claims,
             \/ Provision(c) \/ ListPools(c) \/ Annotate(c) \/ UpdateClass(c)
             \/ GetVolume(c) \/ Unavailable(c) \/ GuessVolume(c) \/ StorePV(c)
             \/ RemovePV(c) \/ Release(c) \/ Edit(c)
      PROVE  UNCHANGED registry
  BY <1>8 DEF Provision, ListPools, Annotate, UpdateClass, GetVolume, Unavailable,
              GuessVolume, StorePV, RemovePV, Release, Edit
<1>9. ASSUME Refresh \/ UNCHANGED vars PROVE UNCHANGED registry
  BY <1>9 DEF Refresh, vars, registry
<1> QED BY <1>1, <1>3, <1>4, <1>6, <1>7, <1>8, <1>9 DEF Next, Step

LEMMA FreshIs ==
  ASSUME TypeOK, FreshProcess
  PROVE  /\ work' = [c \in Claims |-> Idle] /\ cached' = class.version
         /\ obj' \in [Versions -> Ids] /\ class.version \in Versions
         /\ \A v \in Versions : obj'[v] = IF v = class.version THEN class.pool ELSE obj[v]
BY DEF FreshProcess, TypeOK, Class

LEMMA ClassStep ==
  ASSUME TypeOK, [Next]_vars
  PROVE  ClassOK'
<1> ClassOK /\ WorkOK
  BY TypeParts
<1> USE DEF ClassOK
<1>1. ASSUME UNCHANGED api PROVE ClassOK'
  BY <1>1 DEF api
<1>2. ASSUME NEW c \in Claims, Annotate(c) PROVE ClassOK'
  BY <1>2 DEF Annotate, WorkOK, Worker
<1>3. ASSUME NEW c \in Claims, UpdateClass(c) PROVE ClassOK'
  <2> DEFINE v == work[c].version
  <2>1. v \in Versions /\ v \in Nat /\ obj[v] \in Ids /\ UNCHANGED <<cached, obj>>
    BY <1>3 DEF UpdateClass, WorkOK, Worker, Versions
  <2>2. \/ class' = class
        \/ v < MaxVersion /\ class' = [pool |-> obj[v], version |-> v + 1]
    BY <1>3 DEF UpdateClass
  <2> HIDE DEF v
  <2>3. CASE class' = class
    BY <2>1, <2>3
  <2>4. CASE v < MaxVersion /\ class' = [pool |-> obj[v], version |-> v + 1]
    BY <2>1, <2>4 DEF Class, Versions
  <2> QED BY <2>2, <2>3, <2>4
<1>4. ASSUME Refresh PROVE ClassOK'
  BY <1>4 DEF Refresh, Class
<1>5. ASSUME FreshProcess, class' = class PROVE ClassOK'
  BY <1>5, FreshIs
<1>6. ASSUME Crash PROVE ClassOK'
  BY <1>5, <1>6 DEF Crash
<1>7. ASSUME NEW c \in Claims, GetVolume(c) PROVE ClassOK'
  BY <1>5, <1>7 DEF GetVolume
<1>8. ASSUME NEW c \in Claims,
             \/ Provision(c) \/ ListPools(c) \/ CreatePool(c) \/ CreateVolume(c)
             \/ Unavailable(c) \/ GuessVolume(c) \/ Delete(c) \/ StorePV(c)
             \/ RemovePV(c) \/ Release(c) \/ Edit(c)
      PROVE  UNCHANGED api
  BY <1>8 DEF Provision, ListPools, CreatePool, CreateVolume, Unavailable, GuessVolume,
              Delete, DeleteVolume, StorePV, RemovePV, Release, Edit
<1>9. ASSUME BootServer \/ ReconcileServer \/ UNCHANGED vars PROVE UNCHANGED api
  BY <1>9 DEF BootServer, ReconcileServer, vars, api
<1> QED BY <1>1, <1>2, <1>3, <1>4, <1>6, <1>7, <1>8, <1>9 DEF Next, Step

LEMMA WorkStep ==
  ASSUME TypeOK, [Next]_vars
  PROVE  WorkOK'
<1> RegistryOK /\ ClassOK /\ WorkOK
  BY TypeParts
<1> USE DEF WorkOK
<1>0. Idle \in Worker
  BY IdsType DEF Idle, Worker, Versions
<1>1. ASSUME NEW c \in Claims,
             \/ UNCHANGED work \/ GiveUp(c)
             \/ \E pc \in {"newpool", "update", "create", "get", "remove"} : Go(c, pc)
      PROVE  work' \in [Claims -> Worker]
  BY <1>0, <1>1 DEF GiveUp, Go, Worker
<1>2. ASSUME NEW c \in Claims, Provision(c) PROVE work' \in [Claims -> Worker]
  <2>1. PoolKnown(c) \in Ids /\ cached \in Versions /\ 0 \in Ids
    BY IdsType DEF PoolKnown, ClassOK
  <2> HIDE DEF WorkOK
  <2>2. [pc |-> IF PoolKnown(c) = 0 THEN "list"
                ELSE IF Annotated(c) THEN "create" ELSE "annotate",
         version |-> cached, pool |-> PoolKnown(c), vol |-> 0] \in Worker
    BY <2>1 DEF Worker
  <2> QED BY <1>2, <2>2 DEF Provision, WorkOK
<1>3. ASSUME NEW c \in Claims, ListPools(c) PROVE work' \in [Claims -> Worker]
  <2>1. ASSUME NEW p \in Ids, work' = [work EXCEPT ![c].pc = "annotate", ![c].pool = p]
        PROVE  work' \in [Claims -> Worker]
    BY <2>1 DEF Worker
  <2> QED BY <1>1, <1>3, <2>1 DEF ListPools, PoolsOfClass
<1>4. ASSUME NEW c \in Claims, CreatePool(c) PROVE work' \in [Claims -> Worker]
  <2>1. ASSUME NEW p \in Ids, work' = [work EXCEPT ![c].pc = "annotate", ![c].pool = p]
        PROVE  work' \in [Claims -> Worker]
    BY <2>1 DEF Worker
  <2>2. FreePoolIds # {} => Min(FreePoolIds) \in Ids
    BY FreePoolIs
  <2> QED BY <1>1, <1>4, <2>1, <2>2 DEF CreatePool
<1>5. ASSUME NEW c \in Claims, CreateVolume(c) PROVE work' \in [Claims -> Worker]
  <2>1. NextVolumeId \in Ids
    BY NextIdType DEF RegistryOK
  <2>2. ASSUME NEW v \in Ids, work' = [work EXCEPT ![c].pc = "store", ![c].vol = v]
        PROVE  work' \in [Claims -> Worker]
    BY <2>2 DEF Worker
  <2> QED BY <1>1, <1>5, <2>1, <2>2 DEF CreateVolume
<1>6. ASSUME FreshProcess PROVE work' \in [Claims -> Worker]
  BY <1>0, <1>6 DEF FreshProcess
<1>7. ASSUME NEW c \in Claims, GuessVolume(c) PROVE work' \in [Claims -> Worker]
  <2>1. DeletePools(c) \subseteq Ids
    BY IdsType DEF DeletePools, PoolsOfClass, PV, ClassOK, Class
  <2>2. ASSUME NEW p \in Ids,
               work' = [work EXCEPT ![c] = [Idle EXCEPT !.pc = "drop", !.pool = p,
                                                        !.vol = pv[c].vol]]
        PROVE  work' \in [Claims -> Worker]
    <3>1. [Idle EXCEPT !.pc = "drop", !.pool = p, !.vol = pv[c].vol] \in Worker
      BY <1>0, <2>2 DEF Worker, PV
    <3> QED BY <2>2, <3>1
  <2> QED BY <1>1, <1>7, <2>1, <2>2 DEF GuessVolume
<1>8. ASSUME NEW c \in Claims, Delete(c) PROVE work' \in [Claims -> Worker]
  BY <1>1, <1>8 DEF Delete, DeleteVolume
<1>9. ASSUME NEW c \in Claims, StorePV(c) \/ RemovePV(c) \/ Release(c) \/ Edit(c)
      PROVE  WorkOK'
  <2>1. work' \in [Claims -> Worker]
    BY <1>1, <1>9 DEF StorePV, RemovePV, Release, Edit
  <2>2. ASSUME StorePV(c) PROVE pv' \in [Claims -> PV]
    BY <2>2 DEF StorePV, PV, Worker
  <2>3. ASSUME RemovePV(c) PROVE pv' \in [Claims -> PV]
    BY <2>3 DEF RemovePV, PV
  <2>4. ASSUME Release(c) PROVE pv' \in [Claims -> PV]
    BY <2>4 DEF Release, PV
  <2>5. ASSUME Edit(c) PROVE pv' \in [Claims -> PV]
    <3>1. PICK N \in SUBSET pv[c].noted : pv' = [pv EXCEPT ![c].noted = N]
      BY <2>5 DEF Edit
    <3>2. N \in SUBSET Notes
      BY DEF PV
    <3> QED BY <3>1, <3>2 DEF PV
  <2> QED BY <1>9, <2>1, <2>2, <2>3, <2>4, <2>5
<1>10. ASSUME NEW c \in Claims,
              \/ Provision(c) \/ ListPools(c) \/ CreatePool(c) \/ Annotate(c)
              \/ UpdateClass(c) \/ CreateVolume(c) \/ GetVolume(c) \/ Unavailable(c)
              \/ GuessVolume(c) \/ Delete(c)
       PROVE  WorkOK'
  <2>1. pv' = pv
    BY <1>10 DEF Provision, ListPools, CreatePool, Annotate, UpdateClass, CreateVolume,
                 GetVolume, Unavailable, GuessVolume, Delete, DeleteVolume
  <2>2. ASSUME Annotate(c) \/ UpdateClass(c) \/ GetVolume(c) \/ Unavailable(c)
        PROVE  work' \in [Claims -> Worker]
    BY <1>1, <1>6, <2>2 DEF Annotate, UpdateClass, GetVolume, Unavailable
  <2> QED BY <1>2, <1>3, <1>4, <1>5, <1>7, <1>8, <1>10, <2>1, <2>2
<1>11. ASSUME Refresh \/ ReconcileServer \/ BootServer \/ Crash \/ UNCHANGED vars
       PROVE  WorkOK'
  BY <1>6, <1>11 DEF Refresh, ReconcileServer, BootServer, Crash, vars
<1> QED BY <1>9, <1>10, <1>11 DEF Next, Step

\* Delete counts what it carried out, up to 2.
LEMMA CountIs ==
  ASSUME NEW x \in 0..2
  PROVE  Min({x + 1, 2}) = IF x = 0 THEN 1 ELSE 2
<1>1. Min({x + 1, 2}) \in {x + 1, 2} /\ \A y \in {x + 1, 2} : Min({x + 1, 2}) <= y
  BY MinIn
<1> QED BY <1>1

LEMMA DeleteCounts ==
  ASSUME TypeOK, NEW c \in Claims, NEW p, NEW v, DeleteVolume(c, p, v)
  PROVE  /\ strikes' \in [Claims -> 0..2]
         /\ \A d \in Claims \ {c} : strikes'[d] = strikes[d]
         /\ strikes'[c] >= strikes[c]
         /\ reg' # reg => strikes'[c] = (IF strikes[c] = 0 THEN 1 ELSE 2)
         /\ strikes'[c] > strikes[c] => reg' = WithoutVolume(p, v) /\ HasPool(reg, p)
<1>1. strikes \in [Claims -> 0..2] /\ strikes[c] \in 0..2
  BY TypeParts DEF StrikesOK
<1> DEFINE m == Min({strikes[c] + 1, 2})
<1>2. m = IF strikes[c] = 0 THEN 1 ELSE 2
  BY <1>1, CountIs
<1> DEFINE s == WithoutVolume(p, v)
<1>3. CASE UNCHANGED <<reg, strikes>>
  BY <1>1, <1>3
<1>4. CASE /\ HasPool(reg, p)
           /\ strikes' = [strikes EXCEPT ![c] = IF reg' = s THEN m ELSE @]
           /\ reg' \in {reg, s}
  <2> HIDE DEF m, s
  <2>1. strikes' = [strikes EXCEPT ![c] = IF reg' = s THEN m ELSE strikes[c]]
    BY <1>4
  <2>2. strikes'[c] = (IF reg' = s THEN m ELSE strikes[c])
    BY <1>1, <2>1
  <2>3. \A d \in Claims \ {c} : strikes'[d] = strikes[d]
    BY <1>1, <2>1
  <2>4. strikes' \in [Claims -> 0..2]
    BY <1>1, <1>2, <2>1
  <2>5. CASE reg' = s
    BY <1>1, <1>2, <1>4, <2>2, <2>3, <2>4, <2>5 DEF s
  <2>6. CASE reg' # s
    BY <1>1, <1>4, <2>2, <2>3, <2>4, <2>6
  <2> QED BY <2>5, <2>6
<1>5. \/ UNCHANGED <<reg, strikes>>
      \/ /\ HasPool(reg, p)
         /\ strikes' = [strikes EXCEPT ![c] = IF reg' = s THEN m ELSE @]
         /\ reg' \in {reg, s}
  BY AnswerIs DEF DeleteVolume, Refuses, registry
<1> QED BY <1>3, <1>4, <1>5

LEMMA StrikesStep ==
  ASSUME TypeOK, [Next]_vars
  PROVE  StrikesOK'
<1>1. StrikesOK
  BY TypeParts
<1>2. ASSUME NEW c \in Claims, Delete(c) PROVE StrikesOK'
  BY <1>2, DeleteCounts DEF Delete, StrikesOK
<1>3. ASSUME NEW c \in Claims,
             \/ Provision(c) \/ ListPools(c) \/ CreatePool(c) \/ Annotate(c)
             \/ UpdateClass(c) \/ CreateVolume(c) \/ GetVolume(c) \/ Unavailable(c)
             \/ GuessVolume(c) \/ StorePV(c) \/ RemovePV(c) \/ Release(c) \/ Edit(c)
      PROVE  strikes' = strikes
  BY <1>3 DEF Provision, ListPools, CreatePool, Annotate, UpdateClass, CreateVolume,
              GetVolume, Unavailable, GuessVolume, StorePV, RemovePV, Release, Edit
<1>4. ASSUME Refresh \/ ReconcileServer \/ BootServer \/ Crash \/ UNCHANGED vars
      PROVE  strikes' = strikes
  BY <1>4 DEF Refresh, ReconcileServer, BootServer, Crash, vars
<1> QED BY <1>1, <1>2, <1>3, <1>4 DEF Next, Step, StrikesOK

LEMMA CutType == Cut \subseteq Claims /\ IsFiniteSet(Cut) /\ Cardinality(Cut) \in Nat
<1>1. Cut \subseteq Claims
  BY DEF Cut
<1> QED BY <1>1, FS_Subset, FS_CardinalityType

LEMMA ServerBudget ==
  ASSUME TypeOK, ReconcileServer \/ BootServer
  PROVE  NoFault \/ Fault
<1> budget \in [faults : 0..MaxFaults, crashes : 0..MaxCrashes, edits : 0..MaxEdits,
                cut : Nat]
  BY DEF TypeOK
<1>1. ASSUME NEW w, w \in BOOLEAN, FaultUnless(w) PROVE NoFault \/ Fault
  <2>1. CASE w
    <3>1. budget' = [budget EXCEPT !.faults = @]
      BY <1>1, <2>1 DEF FaultUnless
    <3> QED BY <3>1 DEF NoFault
  <2>2. CASE ~w
    BY <1>1, <2>2 DEF FaultUnless, Fault
  <2> QED BY <1>1, <2>1, <2>2
<1>2. Wedged(reg) \in BOOLEAN /\ Wedged(saved) \in BOOLEAN
  BY DEF Wedged
<1> QED BY <1>1, <1>2 DEF ReconcileServer, BootServer

LEMMA BudgetStep ==
  ASSUME TypeOK, [Next]_vars
  PROVE  BudgetOK'
<1>1. BudgetOK
  BY TypeParts
<1> USE DEF BudgetOK
<1>2. ASSUME NoFault \/ Fault PROVE BudgetOK'
  BY <1>1, <1>2 DEF NoFault, Fault
<1>3. ASSUME NEW c \in Claims, Edit(c) PROVE BudgetOK'
  BY <1>1, <1>3 DEF Edit
<1>4. ASSUME NEW c \in Claims, GetVolume(c) PROVE BudgetOK'
  BY <1>1, <1>4, CutType DEF GetVolume
<1>5. ASSUME Crash PROVE BudgetOK'
  <2> DEFINE n == Cardinality(Cut)
  <2>1. n \in Nat
    BY CutType
  <2>2. \/ budget' = [budget EXCEPT !.crashes = @ + 1]
        \/ budget' = [budget EXCEPT !.crashes = @ + 1, !.cut = @ + n]
    BY <1>5 DEF Crash
  <2>3. budget.crashes < MaxCrashes
    BY <1>5 DEF Crash
  <2> HIDE DEF n
  <2>4. budget.crashes + 1 \in 0..MaxCrashes /\ budget.cut + n \in Nat
    BY <1>1, <2>1, <2>3
  <2>5. CASE budget' = [budget EXCEPT !.crashes = @ + 1]
    BY <1>1, <2>4, <2>5
  <2>6. CASE budget' = [budget EXCEPT !.crashes = @ + 1, !.cut = @ + n]
    BY <1>1, <2>4, <2>6
  <2> QED BY <2>2, <2>5, <2>6
<1>6. ASSUME NEW c \in Claims,
             \/ Provision(c) \/ ListPools(c) \/ CreatePool(c) \/ Annotate(c)
             \/ UpdateClass(c) \/ CreateVolume(c) \/ Unavailable(c) \/ GuessVolume(c)
             \/ Delete(c) \/ StorePV(c) \/ RemovePV(c) \/ Release(c)
      PROVE  NoFault \/ Fault
  BY <1>6 DEF Provision, ListPools, CreatePool, Annotate, UpdateClass, CreateVolume,
              Unavailable, GuessVolume, Delete, DeleteVolume, StorePV, RemovePV, Release
<1>7. ASSUME Refresh \/ ReconcileServer \/ BootServer \/ UNCHANGED vars
      PROVE  NoFault \/ Fault
  BY <1>7, ServerBudget DEF Refresh, vars, NoFault
<1> QED BY <1>2, <1>3, <1>4, <1>5, <1>6, <1>7 DEF Next, Step

LEMMA TypeInit == Init => TypeOK
<1> SUFFICES ASSUME Init PROVE TypeOK
  OBVIOUS
<1>1. RegistryOK
  <2>1. PICK p \in ByHand :
          reg = [MaxLUNID |-> 0, pools |-> [i \in Ids |-> IF i = 1 THEN p ELSE "none"],
                 vols |-> [k \in Ids \X Ids |-> Nobody]]
    BY DEF Init
  <2>2. p \in {"none", "class", "other"}
    OBVIOUS
  <2>3. [i \in Ids |-> IF i = 1 THEN p ELSE "none"] \in [Ids -> {"none", "class", "other"}]
    BY <2>2
  <2>4. [k \in Ids \X Ids |-> Nobody] \in [Ids \X Ids -> Claims \cup {Nobody}]
    OBVIOUS
  <2>5. reg \in State
    BY <2>1, <2>3, <2>4, IdsType DEF State
  <2> QED BY <2>5 DEF Init, RegistryOK
<1>2. ClassOK
  BY IdsType DEF Init, ClassOK, Class, Versions
<1>3. WorkOK
  BY IdsType DEF Init, WorkOK, Worker, PV, Idle, NoPV, Versions
<1>4. StrikesOK /\ BudgetOK
  BY DEF Init, StrikesOK, BudgetOK
<1> QED BY <1>1, <1>2, <1>3, <1>4, TypeParts

LEMMA TypeStep ==
  ASSUME TypeOK, [Next]_vars
  PROVE  TypeOK'
BY RegistryStep, ClassStep, WorkStep, StrikesStep, BudgetStep
DEF TypeOK, RegistryOK, ClassOK, WorkOK, StrikesOK, BudgetOK

\* The variables of the provisioner, of the library that runs it and of the
\* server keep their types, for every number of claims, ids, versions and faults.
THEOREM TypeCorrect == Spec => []TypeOK
<1>1. TypeOK /\ [Next]_vars => TypeOK'
  BY TypeStep
<1> QED BY TypeInit, <1>1, PTL DEF Spec

-----------------------------------------------------------------------------
(* A bound PersistentVolume has its volume behind it                        *)

\* A worker of a claim that has no PersistentVolume provisions it, one of a
\* released one deletes it.
WorkerOK(c) ==
    /\ work[c].pc \in {"list", "newpool", "annotate", "update", "create", "get", "store"}
         => pv[c].phase = "none"
    /\ work[c].pc \in {"drop", "remove"} => pv[c].phase = "released"
    /\ At(c, "drop") => "pool" \notin pv[c].noted /\ work[c].vol = pv[c].vol
    /\ At(c, "store") => work[c].vol # 0
    /\ pv[c].phase # "none" => pv[c].vol # 0
    /\ pv[c].phase = "none" => pv[c] = NoPV
    /\ strikes[c] # 0 => pv[c].phase \in {"released", "gone"}
WorkersOK == \A c \in Claims : WorkerOK(c)

\* A step of a claim is one of that claim only, but for a panic.
LEMMA OtherClaims ==
  ASSUME TypeOK, NEW c \in Claims, NEW d \in Claims \ {c},
         Step(c) \/ Release(c) \/ Edit(c), ~GetVolume(c)
  PROVE  work'[d] = work[d] /\ pv'[d] = pv[d] /\ strikes'[d] = strikes[d]
<1> USE DEF Go, GiveUp
<1> work \in [Claims -> Worker] /\ pv \in [Claims -> PV] /\ strikes \in [Claims -> 0..2]
  BY DEF TypeOK
<1>1. CASE Provision(c) \/ ListPools(c) \/ CreatePool(c) \/ Annotate(c)
  BY <1>1 DEF Provision, ListPools, CreatePool, Annotate
<1>2. CASE UpdateClass(c) \/ CreateVolume(c) \/ Unavailable(c) \/ GuessVolume(c)
  BY <1>2 DEF UpdateClass, CreateVolume, Unavailable, GuessVolume
<1>3. ASSUME NEW p, NEW v, DeleteVolume(c, p, v)
      PROVE  work'[d] = work[d] /\ pv'[d] = pv[d] /\ strikes'[d] = strikes[d]
  <2>1. work'[d] = work[d] /\ pv'[d] = pv[d]
    BY <1>3 DEF DeleteVolume
  <2> QED BY <1>3, <2>1, DeleteCounts
<1>4. CASE Delete(c)
  BY <1>3, <1>4 DEF Delete
<1>5. CASE StorePV(c) \/ RemovePV(c) \/ Release(c) \/ Edit(c)
  BY <1>5 DEF StorePV, RemovePV, Release, Edit
<1> QED BY <1>1, <1>2, <1>4, <1>5 DEF Step

\* A worker that finds no server starts anew.
LEMMA UnavailableIs ==
  ASSUME TypeOK, NEW c \in Claims, Unavailable(c)
  PROVE  work'[c] = Idle /\ UNCHANGED <<pv, strikes>>
BY DEF TypeOK, Unavailable, GiveUp

\* How a worker moves on.
LEMMA Moves ==
  ASSUME TypeOK, NEW c \in Claims
  PROVE  /\ \A pc : Go(c, pc) => work'[c] = [work[c] EXCEPT !.pc = pc] /\ work'[c].pc = pc
         /\ GiveUp(c) => work'[c] = Idle /\ work'[c].pc = "idle"
<1> work \in [Claims -> Worker]
  BY DEF TypeOK
<1>1. ASSUME NEW pc, Go(c, pc)
      PROVE  work'[c] = [work[c] EXCEPT !.pc = pc] /\ work'[c].pc = pc
  BY <1>1 DEF Go, Worker
<1>2. GiveUp(c) => work'[c] = Idle /\ work'[c].pc = "idle"
  BY DEF GiveUp, Idle
<1> QED BY <1>1, <1>2

LEMMA NotToStore ==
  ASSUME TypeOK, NEW c \in Claims,
         \/ Go(c, "newpool") \/ Go(c, "update") \/ Go(c, "create") \/ Go(c, "get")
         \/ GiveUp(c)
  PROVE  work'[c].pc # "store"
<1>1. Go(c, "newpool") => work'[c].pc = "newpool"
  BY Moves
<1>2. Go(c, "update") => work'[c].pc = "update"
  BY Moves
<1>3. Go(c, "create") => work'[c].pc = "create"
  BY Moves
<1>4. Go(c, "get") => work'[c].pc = "get"
  BY Moves
<1>5. GiveUp(c) => work'[c].pc = "idle"
  BY Moves
<1> QED BY <1>1, <1>2, <1>3, <1>4, <1>5

LEMMA PoolMove ==
  ASSUME TypeOK, NEW c \in Claims, NEW p, work' = [work EXCEPT ![c].pc = "annotate", ![c].pool = p]
  PROVE  work'[c].pc = "annotate" /\ work'[c].pool = p /\ work'[c].version = work[c].version
BY DEF TypeOK, Worker

\* What the steps of a worker do to its own variables: those of Provision,
LEMMA ProvisionSteps ==
  ASSUME TypeOK, NEW c \in Claims,
         \/ Provision(c) \/ ListPools(c) \/ CreatePool(c) \/ Annotate(c)
         \/ UpdateClass(c) \/ CreateVolume(c)
  PROVE  /\ UNCHANGED <<pv, strikes>>
         /\ \/ pv[c] = NoPV
            \/ work[c].pc \in {"list", "newpool", "annotate", "update", "create"}
         /\ work'[c].pc \in {"idle", "list", "newpool", "annotate", "update", "create",
                             "get", "store"}
         /\ work'[c].pc = "store" => work'[c].vol # 0
<1> work \in [Claims -> Worker]
  BY DEF TypeOK
<1>1. CASE Provision(c)
  <2>1. pv[c] = NoPV /\ UNCHANGED <<pv, strikes>>
    BY <1>1 DEF Provision
  <2>2. work'[c].pc \in {"list", "create", "annotate"}
    BY <1>1 DEF Provision
  <2> QED BY <2>1, <2>2
<1>2. CASE ListPools(c)
  <2>1. \/ \E p : work' = [work EXCEPT ![c].pc = "annotate", ![c].pool = p]
        \/ Go(c, "newpool") \/ GiveUp(c)
    BY <1>2 DEF ListPools
  <2>2. work[c].pc = "list" /\ UNCHANGED <<pv, strikes>>
    BY <1>2 DEF ListPools, At
  <2>3. work'[c].pc \in {"annotate", "newpool", "idle"}
    BY <2>1, Moves, PoolMove
  <2> QED BY <2>2, <2>3
<1>3. CASE CreatePool(c)
  <2>1. \/ \E p : work' = [work EXCEPT ![c].pc = "annotate", ![c].pool = p]
        \/ GiveUp(c)
    BY <1>3 DEF CreatePool
  <2>2. work[c].pc = "newpool" /\ UNCHANGED <<pv, strikes>>
    BY <1>3 DEF CreatePool, At
  <2>3. work'[c].pc \in {"annotate", "idle"}
    BY <2>1, Moves, PoolMove
  <2> QED BY <2>2, <2>3
<1>4. CASE Annotate(c)
  <2>1. work[c].pc = "annotate" /\ UNCHANGED <<pv, strikes>> /\ Go(c, "update")
    BY <1>4 DEF Annotate, At
  <2>2. work'[c].pc = "update"
    BY <2>1, Moves
  <2> QED BY <2>1, <2>2
<1>5. CASE UpdateClass(c)
  <2>1. Go(c, "create") \/ GiveUp(c)
    BY <1>5 DEF UpdateClass
  <2>2. work[c].pc = "update" /\ UNCHANGED <<pv, strikes>>
    BY <1>5 DEF UpdateClass, At
  <2>3. work'[c].pc \in {"create", "idle"}
    BY <2>1, Moves
  <2> QED BY <2>2, <2>3
<1>6. CASE CreateVolume(c)
  <2> DEFINE v == NextVolumeId
  <2>1. \/ GiveUp(c) \/ Go(c, "get")
        \/ v # 0 /\ work' = [work EXCEPT ![c].pc = "store", ![c].vol = v]
    BY <1>6 DEF CreateVolume
  <2>2. work[c].pc = "create" /\ UNCHANGED <<pv, strikes>>
    BY <1>6 DEF CreateVolume, At
  <2> HIDE DEF v
  <2>3. ASSUME work' = [work EXCEPT ![c].pc = "store", ![c].vol = v]
        PROVE  work'[c].pc = "store" /\ work'[c].vol = v
    BY <2>3 DEF Worker
  <2>4. \/ work'[c].pc \in {"idle", "get"}
        \/ v # 0 /\ work'[c].pc = "store" /\ work'[c].vol = v
    BY <2>1, <2>3, Moves
  <2> QED BY <2>2, <2>4
<1> QED BY <1>1, <1>2, <1>3, <1>4, <1>5, <1>6

\* those of Delete,
LEMMA DeleteSteps ==
  ASSUME TypeOK, NEW c \in Claims, Delete(c) \/ GuessVolume(c)
  PROVE  /\ pv' = pv
         /\ work[c].pc = "drop" \/ pv[c].phase = "released"
         /\ work'[c].pc \in {"idle", "drop", "remove"}
         /\ work'[c].pc = "drop" => /\ work'[c].vol = pv[c].vol
                                   /\ "pool" \notin pv[c].noted
<1> work \in [Claims -> Worker] /\ pv \in [Claims -> PV]
  BY DEF TypeOK
<1>1. ASSUME NEW p, NEW v, DeleteVolume(c, p, v)
      PROVE  pv' = pv /\ work'[c].pc \in {"idle", "remove"}
  <2>1. pv' = pv /\ (GiveUp(c) \/ Go(c, "remove"))
    BY <1>1 DEF DeleteVolume
  <2> QED BY <2>1, Moves
<1>2. CASE Delete(c)
  BY <1>1, <1>2 DEF Delete, At
<1> USE DEF At, Go, GiveUp, Idle
<1>3. CASE GuessVolume(c)
  <2>1. pv[c].noted # Notes /\ pv[c].noted \subseteq Notes
    BY <1>3 DEF GuessVolume, PV
  <2>2. "vol" \in pv[c].noted => "pool" \notin pv[c].noted
    BY <2>1 DEF Notes
  <2>3. pv' = pv /\ pv[c].phase = "released"
    BY <1>3 DEF GuessVolume
  <2>4. \/ work' = [work EXCEPT ![c].pc = "remove"]
        \/ \E p : /\ work' = [work EXCEPT ![c] = [Idle EXCEPT !.pc = "drop", !.pool = p,
                                                               !.vol = pv[c].vol]]
                  /\ "vol" \in pv[c].noted
    BY <1>3 DEF GuessVolume
  <2>5. CASE work' = [work EXCEPT ![c].pc = "remove"]
    BY <2>3, <2>5
  <2>6. CASE \E p : /\ work' = [work EXCEPT ![c] = [Idle EXCEPT !.pc = "drop", !.pool = p,
                                                                 !.vol = pv[c].vol]]
                    /\ "vol" \in pv[c].noted
    BY <2>2, <2>3, <2>6
  <2> QED BY <2>4, <2>5, <2>6
<1> QED BY <1>2, <1>3

\* and those around them.
LEMMA LibrarySteps ==
  ASSUME TypeOK, NEW c \in Claims
  PROVE  /\ StorePV(c) => /\ work[c].pc = "store" /\ work'[c] = Idle /\ strikes' = strikes
                          /\ pv'[c] = [phase |-> "bound", pool |-> work[c].pool,
                                       vol |-> work[c].vol, noted |-> Notes]
         /\ RemovePV(c) => /\ work[c].pc = "remove" /\ work'[c] = Idle /\ strikes' = strikes
                           /\ pv'[c] = [pv[c] EXCEPT !.phase = "gone"]
         /\ Release(c) => /\ pv[c].phase = "bound" /\ UNCHANGED <<work, strikes>>
                          /\ pv'[c] = [pv[c] EXCEPT !.phase = "released"]
         /\ Edit(c) => /\ pv[c].phase \in {"bound", "released"} /\ UNCHANGED <<work, strikes>>
                       /\ \E N \in SUBSET pv[c].noted :
                            N # pv[c].noted /\ pv'[c] = [pv[c] EXCEPT !.noted = N]
<1> work \in [Claims -> Worker] /\ pv \in [Claims -> PV]
  BY DEF TypeOK
<1>1. StorePV(c) => /\ work[c].pc = "store" /\ work'[c] = Idle /\ strikes' = strikes
                    /\ pv'[c] = [phase |-> "bound", pool |-> work[c].pool,
                                 vol |-> work[c].vol, noted |-> Notes]
  BY DEF StorePV, At, GiveUp
<1>2. RemovePV(c) => /\ work[c].pc = "remove" /\ work'[c] = Idle /\ strikes' = strikes
                     /\ pv'[c] = [pv[c] EXCEPT !.phase = "gone"]
  BY DEF RemovePV, At, GiveUp
<1>3. Release(c) => /\ pv[c].phase = "bound" /\ UNCHANGED <<work, strikes>>
                    /\ pv'[c] = [pv[c] EXCEPT !.phase = "released"]
  BY DEF Release
<1>4. Edit(c) => /\ pv[c].phase \in {"bound", "released"} /\ UNCHANGED <<work, strikes>>
                 /\ \E N \in SUBSET pv[c].noted :
                      N # pv[c].noted /\ pv'[c] = [pv[c] EXCEPT !.noted = N]
  BY DEF Edit
<1> QED BY <1>1, <1>2, <1>3, <1>4

LEMMA WorkersStep ==
  ASSUME TypeOK, WorkersOK, [Next]_vars
  PROVE  WorkersOK'
<1> USE DEF WorkerOK, At
<1>1. ASSUME NEW d \in Claims, work'[d] = work[d], pv'[d] = pv[d], strikes'[d] = strikes[d]
      PROVE  WorkerOK(d)'
  BY <1>1 DEF WorkersOK
<1>2. ASSUME NEW d \in Claims, work'[d] = Idle, pv'[d] = pv[d], strikes'[d] = strikes[d]
      PROVE  WorkerOK(d)'
  BY <1>2 DEF WorkersOK, Idle
<1>3. ASSUME FreshProcess, UNCHANGED <<pv, strikes>> PROVE WorkersOK'
  BY <1>2, <1>3 DEF FreshProcess, WorkersOK
<1>4. ASSUME NEW c \in Claims, Step(c) \/ Release(c) \/ Edit(c), ~GetVolume(c)
      PROVE  WorkerOK(c)'
  <2> WorkerOK(c)
    BY DEF WorkersOK
  <2>1. ASSUME \/ Provision(c) \/ ListPools(c) \/ CreatePool(c) \/ Annotate(c)
               \/ UpdateClass(c) \/ CreateVolume(c)
        PROVE  WorkerOK(c)'
    <3>1. pv[c].phase = "none"
      BY <2>1, ProvisionSteps DEF NoPV
    <3> QED BY <2>1, <3>1, ProvisionSteps
  <2>2. ASSUME GuessVolume(c) \/ Delete(c) PROVE WorkerOK(c)'
    <3>1. pv[c].phase = "released"
      BY <2>2, DeleteSteps
    <3> QED BY <2>2, <3>1, DeleteSteps
  <2>3. ASSUME StorePV(c) PROVE WorkerOK(c)'
    <3>1. /\ work[c].pc = "store" /\ work'[c] = Idle /\ strikes' = strikes
          /\ pv'[c] = [phase |-> "bound", pool |-> work[c].pool,
                       vol |-> work[c].vol, noted |-> Notes]
      BY <2>3, LibrarySteps
    <3>2. /\ pv'[c].phase = "bound" /\ pv'[c].vol = work[c].vol /\ pv[c].phase = "none"
          /\ work[c].vol # 0
      BY <3>1
    <3>3. strikes'[c] = 0
      BY <3>1, <3>2
    <3> QED BY <3>1, <3>2, <3>3 DEF Idle
  <2>4. ASSUME RemovePV(c) PROVE WorkerOK(c)'
    <3>1. /\ pv[c].phase = "released" /\ work'[c] = Idle /\ strikes' = strikes
          /\ pv'[c] = [pv[c] EXCEPT !.phase = "gone"]
      BY <2>4, LibrarySteps
    <3>2. pv'[c].phase = "gone" /\ pv'[c].vol = pv[c].vol
      BY <3>1 DEF TypeOK, PV
    <3> QED BY <3>1, <3>2 DEF Idle
  <2>5. ASSUME Release(c) PROVE WorkerOK(c)'
    <3>1. /\ pv[c].phase = "bound" /\ UNCHANGED <<work, strikes>>
          /\ pv'[c] = [pv[c] EXCEPT !.phase = "released"]
      BY <2>5, LibrarySteps
    <3>2. pv'[c].phase = "released" /\ pv'[c].vol = pv[c].vol
      BY <3>1 DEF TypeOK, PV
    <3> QED BY <3>1, <3>2
  <2>6. ASSUME Edit(c) PROVE WorkerOK(c)'
    <3>1. PICK N \in SUBSET pv[c].noted : pv'[c] = [pv[c] EXCEPT !.noted = N]
      BY <2>6, LibrarySteps
    <3>2. UNCHANGED <<work, strikes>> /\ pv[c].phase \in {"bound", "released"}
      BY <2>6, LibrarySteps
    <3>3. pv'[c].phase = pv[c].phase /\ pv'[c].vol = pv[c].vol /\ pv'[c].noted = N
      BY <3>1 DEF TypeOK, PV
    <3> QED BY <3>2, <3>3
  <2>7. ASSUME Unavailable(c) PROVE WorkerOK(c)'
    BY <1>2, <2>7, UnavailableIs
  <2> QED BY <1>4, <2>1, <2>2, <2>3, <2>4, <2>5, <2>6, <2>7 DEF Step
<1>5. ASSUME NEW c \in Claims, Step(c) \/ Release(c) \/ Edit(c), ~GetVolume(c)
      PROVE  WorkersOK'
  BY <1>1, <1>4, <1>5, OtherClaims DEF WorkersOK
<1>6. ASSUME NEW c \in Claims, GetVolume(c) PROVE WorkersOK'
  BY <1>3, <1>6 DEF GetVolume
<1>7. ASSUME Refresh \/ ReconcileServer \/ BootServer \/ UNCHANGED vars PROVE WorkersOK'
  BY <1>1, <1>7 DEF Refresh, ReconcileServer, BootServer, vars, WorkersOK
<1>8. ASSUME Crash PROVE WorkersOK'
  <2>1. CASE UNCHANGED work
    BY <1>1, <1>8, <2>1 DEF Crash, WorkersOK
  <2>2. CASE FreshProcess
    BY <1>3, <1>8, <2>2 DEF Crash
  <2> QED BY <1>8, <2>1, <2>2 DEF Crash
<1> QED BY <1>5, <1>6, <1>7, <1>8 DEF Next

-----------------------------------------------------------------------------
(* What a step does to the server                                           *)

Answered(s0, s, T, t) == Succeeds(s, t) \/ Fails(s0, s, T, t)

Rests == UNCHANGED <<up, reg, saved>> /\ torn' \in {torn, TRUE}
MakesPool(p) == /\ up /\ p # 0 /\ ~HasPool(reg, p)
                /\ Answered(reg, WithPool(p), {stores}, stores)
Raises(v) == up /\ v # 0 /\ reg' = Raised(v) /\ UNCHANGED <<up, saved, torn, stores>>
MakesVolume(c, p, v) ==
    /\ up /\ v # 0 /\ HasPool(reg, p) /\ reg.vols[<<p, v>>] = Nobody
    /\ LET t == stores \cup {<<v, c>>}
       IN  Answered(Raised(v), WithVolume(p, v, c), {stores, t}, t)
DropsVolume(p, v) ==
    /\ up /\ v # 0 /\ HasPool(reg, p)
    /\ Answered(reg, WithoutVolume(p, v), Emptied(v), stores \ Hba(v))

\* The volume that the next DeleteVolume for a claim is about.
Target(c) == IF At(c, "drop") THEN <<work[c].pool, work[c].vol>> ELSE Key(c)

LEMMA DeleteIs ==
  ASSUME TypeOK, WorkersOK, NEW c \in Claims, Delete(c)
  PROVE  /\ DeleteVolume(c, Target(c)[1], Target(c)[2])
         /\ Target(c) = <<Target(c)[1], Target(c)[2]>>
         /\ Target(c)[1] \in Ids /\ Target(c)[2] \in Ids \ {0}
         /\ Target(c)[2] = pv[c].vol /\ pv[c].phase = "released"
         /\ Target(c) # Key(c) => "pool" \notin pv[c].noted
<1> WorkerOK(c) /\ work[c] \in Worker /\ pv[c] \in PV
  BY DEF WorkersOK, TypeOK
<1>1. /\ work[c].pool \in Ids /\ work[c].vol \in Ids /\ pv[c].pool \in Ids /\ pv[c].vol \in Ids
  BY DEF Worker, PV
<1>2. CASE At(c, "drop")
  <2>1. DeleteVolume(c, work[c].pool, work[c].vol)
    BY <1>2 DEF Delete, At
  <2>2. /\ pv[c].phase = "released" /\ work[c].vol = pv[c].vol /\ pv[c].vol # 0
        /\ "pool" \notin pv[c].noted
    BY <1>2 DEF WorkerOK, At
  <2> QED BY <1>1, <1>2, <2>1, <2>2 DEF Target
<1>3. CASE ~At(c, "drop")
  <2>1. DeleteVolume(c, pv[c].pool, pv[c].vol) /\ pv[c].phase = "released"
    BY <1>3 DEF Delete
  <2>2. pv[c].vol # 0
    BY <2>1 DEF WorkerOK
  <2> QED BY <1>1, <1>3, <2>1, <2>2 DEF Target, Key
<1> QED BY <1>2, <1>3

LEMMA ServerSteps ==
  ASSUME TypeOK, WorkersOK, [Next]_vars
  PROVE  \/ Rests \/ Stop \/ Boots
         \/ \E p \in Ids : MakesPool(p)
         \/ \E v \in Ids : Raises(v)
         \/ \E c \in Claims, p, v \in Ids : CreateVolume(c) /\ MakesVolume(c, p, v)
         \/ \E c \in Claims, p, v \in Ids :
              Delete(c) /\ Target(c) = <<p, v>> /\ DropsVolume(p, v)
<1>1. ASSUME UNCHANGED registry PROVE Rests
  BY <1>1 DEF Rests, registry
<1>2. ASSUME NEW c \in Claims, CreatePool(c) PROVE Rests \/ \E p \in Ids : MakesPool(p)
  <2>1. CASE FreePoolIds = {}
    BY <1>1, <1>2, <2>1 DEF CreatePool
  <2>2. CASE FreePoolIds # {}
    <3> DEFINE p == Min(FreePoolIds)
    <3>1. p \in Ids \ {0} /\ ~HasPool(reg, p)
      BY <2>2, FreePoolIs
    <3>2. up /\ Answered(reg, WithPool(p), {stores}, stores)
      BY <1>2, <2>2 DEF CreatePool, Answered
    <3> HIDE DEF p
    <3> QED BY <3>1, <3>2 DEF MakesPool
  <2> QED BY <2>1, <2>2
<1>3. ASSUME NEW c \in Claims, CreateVolume(c)
      PROVE  \/ Rests \/ \E v \in Ids : Raises(v)
             \/ \E p, v \in Ids : MakesVolume(c, p, v)
  <2> DEFINE p == work[c].pool
             v == NextVolumeId
             t == stores \cup {<<v, c>>}
  <2>1. p \in Ids /\ v \in Ids
    BY NextIdType, TypeParts DEF WorkOK, Worker, RegistryOK
  <2>2. /\ up
        /\ \/ UNCHANGED registry
           \/ v # 0 /\ reg' = Raised(v) /\ UNCHANGED <<up, saved, torn, stores>>
           \/ /\ v # 0 /\ HasPool(reg, p) /\ reg.vols[<<p, v>>] = Nobody
              /\ \/ Succeeds(WithVolume(p, v, c), t)
                 \/ Fails(Raised(v), WithVolume(p, v, c), {stores, t}, t)
    BY <1>3 DEF CreateVolume
  <2> HIDE DEF p, v
  <2> QED BY <1>1, <2>1, <2>2 DEF Raises, MakesVolume, Answered
<1>4. ASSUME NEW c \in Claims, Delete(c)
      PROVE  Rests \/ \E p, v \in Ids : Target(c) = <<p, v>> /\ DropsVolume(p, v)
  <2>1. PICK p \in Ids, v \in Ids \ {0} : Target(c) = <<p, v>> /\ DeleteVolume(c, p, v)
    <3>1. /\ DeleteVolume(c, Target(c)[1], Target(c)[2])
          /\ Target(c) = <<Target(c)[1], Target(c)[2]>>
          /\ Target(c)[1] \in Ids /\ Target(c)[2] \in Ids \ {0}
      BY <1>4, DeleteIs
    <3> QED BY <3>1
  <2>2. \/ UNCHANGED registry \/ Refuses(p, v)
        \/ /\ up /\ HasPool(reg, p)
           /\ Answered(reg, WithoutVolume(p, v), Emptied(v), stores \ Hba(v))
    BY <2>1 DEF DeleteVolume, Answered
  <2>3. Refuses(p, v) => Rests
    BY DEF Refuses, Rests
  <2> QED BY <1>1, <2>1, <2>2, <2>3 DEF DropsVolume
<1>5. ASSUME Crash PROVE Rests \/ Stop
  BY <1>1, <1>5 DEF Crash
<1>6. ASSUME ReconcileServer \/ BootServer PROVE Rests \/ Boots
  <2>1. ReconcileServer => Rests
    BY DEF ReconcileServer, Reconciles, ReconcileFails, Rests
  <2>2. ASSUME BootFails PROVE Rests
    <3>1. torn = FALSE
      BY <2>2 DEF BootFails, TypeOK
    <3>2. torn' = FALSE \/ torn' = TRUE
      BY <2>2, BootTears
    <3>3. torn' \in {torn, TRUE}
      BY <3>1, <3>2
    <3> QED BY <2>2, <3>3 DEF BootFails, Rests
  <2> QED BY <1>6, <2>1, <2>2 DEF BootServer
<1>7. ASSUME NEW c \in Claims,
             \/ Provision(c) \/ ListPools(c) \/ Annotate(c) \/ UpdateClass(c)
             \/ GetVolume(c) \/ Unavailable(c) \/ GuessVolume(c) \/ StorePV(c)
             \/ RemovePV(c) \/ Release(c) \/ Edit(c)
      PROVE  UNCHANGED registry
  BY <1>7 DEF Provision, ListPools, Annotate, UpdateClass, GetVolume, Unavailable,
              GuessVolume, StorePV, RemovePV, Release, Edit
<1>8. ASSUME Refresh \/ UNCHANGED vars PROVE UNCHANGED registry
  BY <1>8 DEF Refresh, vars, registry
<1>9. ASSUME NEW c \in Claims, Step(c) \/ Release(c) \/ Edit(c)
      PROVE  \/ Rests \/ \E p \in Ids : MakesPool(p)
             \/ \E v \in Ids : Raises(v)
             \/ \E p, v \in Ids : CreateVolume(c) /\ MakesVolume(c, p, v)
             \/ \E p, v \in Ids : Delete(c) /\ Target(c) = <<p, v>> /\ DropsVolume(p, v)
  BY <1>1, <1>2, <1>3, <1>4, <1>7, <1>9 DEF Step
<1> QED BY <1>1, <1>5, <1>6, <1>8, <1>9 DEF Next

\* The effects of the steps that have an answer, whatever it is.
LEMMA MakesPoolIs ==
  ASSUME TypeOK, NEW p \in Ids, MakesPool(p)
  PROVE  /\ up' = up /\ reg' \in {reg, WithPool(p)} /\ Saving
         /\ saved' = saved \/ saved' = reg'
         /\ reg'.vols = reg.vols /\ reg'.MaxLUNID = reg.MaxLUNID
         /\ reg'.pools = reg.pools \/ reg'.pools = [reg.pools EXCEPT ![p] = "class"]
<1>1. Succeeds(WithPool(p), stores) \/ Fails(reg, WithPool(p), {stores}, stores)
  BY DEF MakesPool, Answered
<1>2. up' = up /\ reg' \in {reg, WithPool(p)} /\ Saving
  BY <1>1, AnswerIs
<1>3. /\ WithPool(p).vols = reg.vols /\ WithPool(p).MaxLUNID = reg.MaxLUNID
      /\ WithPool(p).pools = [reg.pools EXCEPT ![p] = "class"]
  BY WithPoolIs DEF TypeOK
<1>4. reg'.vols = reg.vols /\ reg'.MaxLUNID = reg.MaxLUNID
  BY <1>2, <1>3
<1>5. reg'.pools = reg.pools \/ reg'.pools = [reg.pools EXCEPT ![p] = "class"]
  BY <1>2, <1>3
<1> QED BY <1>2, <1>4, <1>5 DEF Saving

LEMMA MakesVolumeIs ==
  ASSUME TypeOK, NEW c \in Claims, NEW p \in Ids, NEW v \in Ids, MakesVolume(c, p, v)
  PROVE  /\ up' = up /\ reg' \in {Raised(v), WithVolume(p, v, c)} /\ Saving
         /\ saved' = saved \/ saved' = reg'
         /\ reg' # WithVolume(p, v, c) => saved' = saved /\ torn' = torn
         /\ \/ reg'.vols = reg.vols
            \/ reg'.vols = [reg.vols EXCEPT ![<<p, v>>] = c]
         /\ reg'.pools = reg.pools /\ reg'.MaxLUNID = Raised(v).MaxLUNID
<1> DEFINE r == Raised(v)
           w == WithVolume(p, v, c)
           t == stores \cup {<<v, c>>}
           T == {stores, t}
<1>1. Succeeds(w, t) \/ Fails(r, w, T, t)
  BY DEF MakesVolume, Answered
<1>2. /\ r.vols = reg.vols /\ w.vols = [reg.vols EXCEPT ![<<p, v>>] = c]
      /\ r.pools = reg.pools /\ w.pools = reg.pools /\ w.MaxLUNID = r.MaxLUNID
  BY RaisedIs, WithVolumeIs DEF TypeOK
<1> HIDE DEF r, w, t, T
<1>3. /\ up' = up /\ reg' \in {r, w} /\ Saving
      /\ reg' # w => saved' = saved /\ torn' = torn
  BY <1>1, AnswerIs
<1>4. reg'.vols = reg.vols \/ reg'.vols = [reg.vols EXCEPT ![<<p, v>>] = c]
  BY <1>2, <1>3
<1>5. reg'.pools = reg.pools /\ reg'.MaxLUNID = r.MaxLUNID
  BY <1>2, <1>3
<1>6. saved' = saved \/ saved' = reg'
  BY <1>3 DEF Saving
<1> QED BY <1>3, <1>4, <1>5, <1>6 DEF r, w

LEMMA DropsVolumeIs ==
  ASSUME TypeOK, NEW p \in Ids, NEW v \in Ids, DropsVolume(p, v)
  PROVE  /\ up' = up /\ reg' \in {reg, WithoutVolume(p, v)} /\ Saving
         /\ saved' = saved \/ saved' = reg'
         /\ reg'.vols = reg.vols \/ reg'.vols = [reg.vols EXCEPT ![<<p, v>>] = Nobody]
         /\ reg'.pools = reg.pools /\ reg'.MaxLUNID = reg.MaxLUNID
<1> DEFINE w == WithoutVolume(p, v)
           t == stores \ Hba(v)
           T == Emptied(v)
<1>1. Succeeds(w, t) \/ Fails(reg, w, T, t)
  BY DEF DropsVolume, Answered
<1>2. /\ w.vols = [reg.vols EXCEPT ![<<p, v>>] = Nobody]
      /\ w.pools = reg.pools /\ w.MaxLUNID = reg.MaxLUNID
  BY WithoutVolumeIs DEF TypeOK
<1> HIDE DEF w, t, T
<1>3. up' = up /\ reg' \in {reg, w} /\ Saving
  BY <1>1, AnswerIs
<1>4. reg'.vols = reg.vols \/ reg'.vols = [reg.vols EXCEPT ![<<p, v>>] = Nobody]
  BY <1>2, <1>3
<1>5. reg'.pools = reg.pools /\ reg'.MaxLUNID = reg.MaxLUNID
  BY <1>2, <1>3
<1>6. saved' = saved \/ saved' = reg'
  BY <1>3 DEF Saving
<1> QED BY <1>3, <1>4, <1>5, <1>6 DEF w

-----------------------------------------------------------------------------
\* The volume a claim relies on: from the answer of CreateVolume until a
\* DeleteVolume was carried out for it.
InUse(c) == \/ At(c, "store") \/ pv[c].phase = "bound"
            \/ pv[c].phase = "released" /\ strikes[c] = 0
Place(c) == IF At(c, "store") THEN <<work[c].pool, work[c].vol>> ELSE Key(c)

\* The volume of claim c may have been taken by a DeleteVolume for d (TakenBy says
\* so of a claim that has its PersistentVolume).
HitBy(c, d) == /\ d # c /\ pv[d].vol = Place(c)[2]
               /\ \/ strikes[d] = 2 /\ pv[d].pool = Place(c)[1]
                  \/ strikes[d] # 0 /\ "pool" \notin pv[d].noted
Backed == \A c \in Claims : InUse(c) =>
    \/ (up => reg.vols[Place(c)] = c) /\ saved.vols[Place(c)] = c
    \/ \E d \in Claims : HitBy(c, d)

\* A PersistentVolume stays the one it is, and loses annotations at most.
LEMMA PVKept ==
  ASSUME TypeOK, WorkersOK, [Next]_vars, NEW d \in Claims, pv[d].phase # "none"
  PROVE  /\ pv'[d].vol = pv[d].vol /\ pv'[d].pool = pv[d].pool
         /\ pv'[d].noted \subseteq pv[d].noted /\ pv'[d].phase # "none"
         /\ strikes'[d] >= strikes[d]
<1> pv[d] \in PV /\ strikes[d] \in 0..2 /\ WorkerOK(d)
  BY DEF TypeOK, WorkersOK
<1>1. CASE pv'[d] = pv[d] /\ strikes'[d] = strikes[d]
  BY <1>1
<1>2. ASSUME NEW c \in Claims, c # d, Step(c) \/ Release(c) \/ Edit(c), ~GetVolume(c)
      PROVE  pv'[d] = pv[d] /\ strikes'[d] = strikes[d]
  BY <1>2, OtherClaims
<1>3. ASSUME \/ Provision(d) \/ ListPools(d) \/ CreatePool(d) \/ Annotate(d)
             \/ UpdateClass(d) \/ CreateVolume(d)
      PROVE  pv'[d] = pv[d] /\ strikes'[d] = strikes[d]
  BY <1>3, ProvisionSteps
<1>4. ASSUME Delete(d) \/ GuessVolume(d)
      PROVE  pv'[d] = pv[d] /\ strikes'[d] >= strikes[d]
  <2>1. pv'[d] = pv[d]
    BY <1>4, DeleteSteps
  <2>2. Delete(d) => strikes'[d] >= strikes[d]
    BY DeleteCounts DEF Delete
  <2>3. GuessVolume(d) => strikes'[d] = strikes[d]
    BY DEF GuessVolume
  <2> QED BY <1>4, <2>1, <2>2, <2>3
<1>5. ASSUME StorePV(d) PROVE FALSE
  BY <1>5, LibrarySteps DEF WorkerOK
<1>6. ASSUME RemovePV(d) \/ Release(d) \/ Edit(d)
      PROVE  /\ pv'[d].vol = pv[d].vol /\ pv'[d].pool = pv[d].pool
             /\ pv'[d].noted \subseteq pv[d].noted /\ pv'[d].phase # "none"
             /\ strikes'[d] = strikes[d]
  <2>1. strikes'[d] = strikes[d]
    BY <1>6, LibrarySteps
  <2>2. \/ pv'[d] = [pv[d] EXCEPT !.phase = "gone"]
        \/ pv'[d] = [pv[d] EXCEPT !.phase = "released"]
        \/ \E N \in SUBSET pv[d].noted : pv'[d] = [pv[d] EXCEPT !.noted = N]
    BY <1>6, LibrarySteps
  <2> QED BY <2>1, <2>2 DEF PV
<1>7. ASSUME NEW c \in Claims, GetVolume(c) PROVE pv'[d] = pv[d] /\ strikes'[d] = strikes[d]
  BY <1>7 DEF GetVolume
<1>8. ASSUME Refresh \/ ReconcileServer \/ BootServer \/ Crash \/ UNCHANGED vars
      PROVE  pv'[d] = pv[d] /\ strikes'[d] = strikes[d]
  BY <1>8 DEF Refresh, ReconcileServer, BootServer, Crash, vars
<1>9. ASSUME Step(d) \/ Release(d) \/ Edit(d), ~GetVolume(d)
      PROVE  /\ pv'[d].vol = pv[d].vol /\ pv'[d].pool = pv[d].pool
             /\ pv'[d].noted \subseteq pv[d].noted /\ pv'[d].phase # "none"
             /\ strikes'[d] >= strikes[d]
  BY <1>3, <1>4, <1>5, <1>6, <1>9, UnavailableIs DEF Step
<1>10. ASSUME NEW c \in Claims, Step(c) \/ Release(c) \/ Edit(c)
       PROVE  /\ pv'[d].vol = pv[d].vol /\ pv'[d].pool = pv[d].pool
              /\ pv'[d].noted \subseteq pv[d].noted /\ pv'[d].phase # "none"
              /\ strikes'[d] >= strikes[d]
  BY <1>1, <1>2, <1>7, <1>9, <1>10
<1> QED BY <1>1, <1>8, <1>10 DEF Next

LEMMA HitKept ==
  ASSUME TypeOK, WorkersOK, [Next]_vars, NEW c \in Claims, NEW d \in Claims,
         HitBy(c, d), Place(c)' = Place(c)
  PROVE  HitBy(c, d)'
<1> WorkerOK(d) /\ TypeOK'
  BY TypeStep DEF WorkersOK
<1>1. pv[d].phase # "none" /\ strikes[d] # 0
  BY DEF HitBy, WorkerOK
<1>2. /\ pv'[d].vol = pv[d].vol /\ pv'[d].pool = pv[d].pool
      /\ pv'[d].noted \subseteq pv[d].noted /\ strikes'[d] >= strikes[d]
  BY <1>1, PVKept
<1>3. strikes[d] \in 0..2 /\ strikes'[d] \in 0..2
  BY DEF TypeOK
<1>4. strikes'[d] # 0 /\ (strikes[d] = 2 => strikes'[d] = 2)
  BY <1>1, <1>2, <1>3
<1> QED BY <1>2, <1>4 DEF HitBy

\* A claim in use was so before the step, with the same volume, or has got its
\* volume from CreateVolume in it.
LEMMA InUseSteps ==
  ASSUME TypeOK, WorkersOK, [Next]_vars, NEW c \in Claims, InUse(c)'
  PROVE  \/ InUse(c) /\ Place(c)' = Place(c)
         \/ CreateVolume(c) /\ At(c, "store")'
<1> WorkerOK(c) /\ strikes[c] \in 0..2 /\ strikes'[c] \in 0..2 /\ pv[c] \in PV
  BY TypeStep DEF TypeOK, WorkersOK
<1> USE DEF InUse, At
<1>1. ASSUME work'[c] = work[c], pv'[c] = pv[c], strikes'[c] = strikes[c]
      PROVE  InUse(c) /\ Place(c)' = Place(c)
  BY <1>1 DEF Place, Key
<1>2. ASSUME work'[c] = Idle, pv'[c] = pv[c], strikes'[c] = strikes[c]
      PROVE  InUse(c) /\ Place(c)' = Place(c)
  <2>1. work'[c].pc # "store" /\ work[c].pc # "store"
    BY <1>2 DEF Idle, WorkerOK
  <2> QED BY <1>2, <2>1 DEF Place, Key
<1>3. ASSUME \/ Provision(c) \/ ListPools(c) \/ CreatePool(c) \/ Annotate(c)
             \/ UpdateClass(c) \/ CreateVolume(c)
      PROVE  CreateVolume(c) /\ At(c, "store")'
  <2>1. pv[c].phase = "none" /\ pv' = pv
    BY <1>3, ProvisionSteps DEF WorkerOK, NoPV
  <2>2. At(c, "store")'
    BY <2>1
  <2>3. ASSUME ~CreateVolume(c) PROVE work'[c].pc # "store"
    <3>1. Provision(c) => work'[c].pc # "store"
      BY DEF Provision, TypeOK
    <3>2. ListPools(c) => work'[c].pc # "store"
      <4>1. ListPools(c) => \/ \E p : work' = [work EXCEPT ![c].pc = "annotate", ![c].pool = p]
                            \/ Go(c, "newpool") \/ GiveUp(c)
        BY DEF ListPools
      <4> QED BY <4>1, NotToStore, PoolMove
    <3>3. CreatePool(c) => work'[c].pc # "store"
      <4>1. CreatePool(c) => \/ \E p : work' = [work EXCEPT ![c].pc = "annotate", ![c].pool = p]
                             \/ GiveUp(c)
        BY DEF CreatePool
      <4> QED BY <4>1, NotToStore, PoolMove
    <3>4. Annotate(c) => work'[c].pc # "store"
      BY NotToStore DEF Annotate
    <3>5. UpdateClass(c) => work'[c].pc # "store"
      <4>1. UpdateClass(c) => Go(c, "create") \/ GiveUp(c)
        BY DEF UpdateClass
      <4> QED BY <4>1, NotToStore
    <3> QED BY <1>3, <2>3, <3>1, <3>2, <3>3, <3>4, <3>5
  <2> QED BY <2>2, <2>3
<1>4. ASSUME GuessVolume(c) \/ Delete(c)
      PROVE  InUse(c) /\ Place(c)' = Place(c)
  <2>1. /\ pv' = pv /\ pv[c].phase = "released"
        /\ work'[c].pc \in {"idle", "drop", "remove"} /\ work[c].pc # "store"
    BY <1>4, DeleteSteps DEF WorkerOK
  <2>2. strikes'[c] >= strikes[c]
    <3>1. Delete(c) => strikes'[c] >= strikes[c]
      BY DeleteCounts DEF Delete
    <3>2. GuessVolume(c) => strikes'[c] = strikes[c]
      BY DEF GuessVolume
    <3> QED BY <1>4, <3>1, <3>2
  <2> QED BY <2>1, <2>2 DEF Place, Key
<1>5. ASSUME StorePV(c) PROVE InUse(c) /\ Place(c)' = Place(c)
  <2>1. /\ work[c].pc = "store" /\ work'[c] = Idle
        /\ pv'[c] = [phase |-> "bound", pool |-> work[c].pool,
                     vol |-> work[c].vol, noted |-> Notes]
    BY <1>5, LibrarySteps
  <2>2. work'[c].pc # "store" /\ pv'[c].pool = work[c].pool /\ pv'[c].vol = work[c].vol
    BY <2>1 DEF Idle
  <2> QED BY <2>1, <2>2 DEF Place, Key
<1>6. ASSUME RemovePV(c) PROVE FALSE
  <2>1. work'[c] = Idle /\ pv'[c] = [pv[c] EXCEPT !.phase = "gone"]
    BY <1>6, LibrarySteps
  <2>2. work'[c].pc # "store" /\ pv'[c].phase = "gone"
    BY <2>1 DEF Idle, PV
  <2> QED BY <2>2
<1>7. ASSUME Release(c) PROVE InUse(c) /\ Place(c)' = Place(c)
  <2>1. /\ pv[c].phase = "bound" /\ work' = work
        /\ pv'[c] = [pv[c] EXCEPT !.phase = "released"]
    BY <1>7, LibrarySteps
  <2>2. work[c].pc # "store" /\ pv'[c].pool = pv[c].pool /\ pv'[c].vol = pv[c].vol
    BY <2>1 DEF PV, WorkerOK
  <2> QED BY <2>1, <2>2 DEF Place, Key
<1>8. ASSUME Edit(c) PROVE InUse(c) /\ Place(c)' = Place(c)
  <2>1. PICK N : pv'[c] = [pv[c] EXCEPT !.noted = N]
    BY <1>8, LibrarySteps
  <2>2. UNCHANGED <<work, strikes>>
    BY <1>8, LibrarySteps
  <2>3. pv'[c].pool = pv[c].pool /\ pv'[c].vol = pv[c].vol /\ pv'[c].phase = pv[c].phase
    BY <2>1 DEF PV
  <2> QED BY <2>2, <2>3 DEF Place, Key
<1>9. ASSUME NEW d \in Claims, GetVolume(d) PROVE InUse(c) /\ Place(c)' = Place(c)
  BY <1>2, <1>9 DEF GetVolume, FreshProcess
<1>10. ASSUME NEW d \in Claims \ {c}, Step(d) \/ Release(d) \/ Edit(d)
       PROVE  InUse(c) /\ Place(c)' = Place(c)
  BY <1>1, <1>9, <1>10, OtherClaims
<1>11. ASSUME Step(c) \/ Release(c) \/ Edit(c)
       PROVE  \/ InUse(c) /\ Place(c)' = Place(c)
              \/ CreateVolume(c) /\ At(c, "store")'
  <2>1. ASSUME Unavailable(c) PROVE InUse(c) /\ Place(c)' = Place(c)
    BY <1>2, <2>1, UnavailableIs
  <2> HIDE DEF InUse, At
  <2> QED BY <1>3, <1>4, <1>5, <1>6, <1>7, <1>8, <1>9, <1>11, <2>1 DEF Step
<1>12. ASSUME Refresh \/ ReconcileServer \/ BootServer \/ UNCHANGED vars
       PROVE  InUse(c) /\ Place(c)' = Place(c)
  BY <1>1, <1>12 DEF Refresh, ReconcileServer, BootServer, vars
<1>13. ASSUME Crash PROVE InUse(c) /\ Place(c)' = Place(c)
  BY <1>1, <1>2, <1>13 DEF Crash, FreshProcess
<1> HIDE DEF InUse, At
<1> QED BY <1>10, <1>11, <1>12, <1>13 DEF Next

\* CreateVolume tells the claim of a volume that it has made and saved.
LEMMA CreatedIs ==
  ASSUME TypeOK, NEW c \in Claims, CreateVolume(c), At(c, "store")'
  PROVE  /\ reg'.vols[Place(c)'] = c /\ saved'.vols[Place(c)'] = c
         /\ Place(c)' \in Ids \X Ids
<1> DEFINE p == work[c].pool
           v == NextVolumeId
<1>1. p \in Ids /\ v \in Ids
  BY NextIdType, TypeParts DEF WorkOK, Worker, RegistryOK
<1>2. /\ Succeeds(WithVolume(p, v, c), stores \cup {<<v, c>>})
      /\ work' = [work EXCEPT ![c].pc = "store", ![c].vol = v]
  <2>1. \/ /\ Succeeds(WithVolume(p, v, c), stores \cup {<<v, c>>})
           /\ work' = [work EXCEPT ![c].pc = "store", ![c].vol = v]
        \/ GiveUp(c) \/ Go(c, "get")
    BY DEF CreateVolume
  <2>2. work'[c].pc = "store"
    BY DEF At
  <2> QED BY <2>1, <2>2, NotToStore
<1> HIDE DEF v
<1>3. work'[c].pool = p /\ work'[c].vol = v /\ Place(c)' = <<p, v>>
  <2>1. work'[c].pool = p /\ work'[c].vol = v
    BY <1>2 DEF TypeOK, Worker
  <2> QED BY <2>1 DEF Place
<1>4. WithVolume(p, v, c).vols[<<p, v>>] = c
  <2>1. WithVolume(p, v, c).vols = [reg.vols EXCEPT ![<<p, v>>] = c]
    BY <1>1, WithVolumeIs DEF TypeOK
  <2>2. reg.vols \in [Ids \X Ids -> Claims \cup {Nobody}]
    BY StateIs DEF TypeOK
  <2> QED BY <1>1, <2>1, <2>2
<1>5. reg' = WithVolume(p, v, c) /\ saved' = WithVolume(p, v, c)
  BY <1>2 DEF Succeeds
<1> QED BY <1>1, <1>3, <1>4, <1>5

\* A DeleteVolume carried out for e at the place of c's volume: e's own volume
\* was gone already, or hit before.
LEMMA HitIs ==
  ASSUME TypeOK, WorkersOK, Backed, [Next]_vars, up,
         NEW c \in Claims, InUse(c), InUse(c)', Place(c)' = Place(c), reg.vols[Place(c)] = c,
         NEW e \in Claims, Delete(e), Target(e) = Place(c), reg' # reg
  PROVE  \E d \in Claims : HitBy(c, d)'
<1> /\ WorkerOK(c) /\ WorkerOK(e) /\ strikes[e] \in 0..2 /\ strikes'[e] \in 0..2
    /\ strikes[c] \in 0..2 /\ strikes'[c] \in 0..2
  BY TypeStep DEF TypeOK, WorkersOK
<1>1. /\ pv[e].vol = Place(c)[2] /\ pv[e].phase = "released"
      /\ Key(e) # Place(c) => "pool" \notin pv[e].noted
  BY DeleteIs
<1>2. strikes'[e] = (IF strikes[e] = 0 THEN 1 ELSE 2) /\ strikes[c] = 0
  <2>1. strikes'[e] = (IF strikes[e] = 0 THEN 1 ELSE 2)
    BY DeleteIs, DeleteCounts
  <2>2. strikes[c] = 0
    BY DEF InUse, WorkerOK, At
  <2> QED BY <2>1, <2>2
<1>3. pv' = pv /\ work'[e].pc \in {"idle", "drop", "remove"}
  BY DeleteSteps
<1>4. e # c
  <2>1. CASE e = c
    <3>1. strikes'[c] # 0 /\ pv'[c].phase = "released" /\ work'[c].pc # "store"
      BY <1>1, <1>2, <1>3, <2>1
    <3> QED BY <3>1 DEF InUse, At
  <2> QED BY <2>1
<1>5. CASE Key(e) # Place(c)
  <2>1. strikes'[e] # 0 /\ "pool" \notin pv'[e].noted /\ pv'[e].vol = Place(c)'[2]
    BY <1>1, <1>2, <1>3, <1>5
  <2>2. HitBy(c, e)'
    BY <1>4, <2>1 DEF HitBy
  <2> QED BY <2>2
<1>6. CASE Key(e) = Place(c) /\ strikes[e] # 0
  <2>1. pv[e].pool = Place(c)[1]
    BY <1>6 DEF Key
  <2>2. strikes'[e] = 2 /\ pv'[e].pool = Place(c)'[1] /\ pv'[e].vol = Place(c)'[2]
    BY <1>1, <1>2, <1>3, <1>6, <2>1
  <2>3. HitBy(c, e)'
    BY <1>4, <2>2 DEF HitBy
  <2> QED BY <2>3
<1>7. CASE Key(e) = Place(c) /\ strikes[e] = 0
  <2>1. InUse(e) /\ Place(e) = Place(c)
    BY <1>1, <1>7 DEF InUse, Place, WorkerOK, At
  <2>2. reg.vols[Place(e)] # e
    BY <1>4, <2>1
  <2>3. PICK d \in Claims : HitBy(e, d)
    BY <2>1, <2>2 DEF Backed
  <2>4. d # c
    BY <1>2, <2>3 DEF HitBy
  <2>5. HitBy(c, d)
    BY <2>1, <2>3, <2>4 DEF HitBy
  <2> QED BY <2>5, HitKept
<1> QED BY <1>5, <1>6, <1>7

LEMMA BackedStep ==
  ASSUME TypeOK, WorkersOK, Backed, [Next]_vars
  PROVE  Backed'
<1> SUFFICES ASSUME NEW c \in Claims, InUse(c)'
             PROVE  \/ (up' => reg'.vols[Place(c)'] = c) /\ saved'.vols[Place(c)'] = c
                    \/ \E d \in Claims : HitBy(c, d)'
  BY DEF Backed
<1>1. CASE CreateVolume(c) /\ At(c, "store")'
  BY <1>1, CreatedIs
<1>2. CASE InUse(c) /\ Place(c)' = Place(c)
  <2>1. CASE \E d \in Claims : HitBy(c, d)
    BY <1>2, <2>1, HitKept
  <2>2. CASE (up => reg.vols[Place(c)] = c) /\ saved.vols[Place(c)] = c
    <3> DEFINE k == Place(c)
               Kept == (up' => reg'.vols[k] = c) /\ saved'.vols[k] = c
    <3>0. k \in Ids \X Ids /\ c # Nobody
          /\ reg.vols \in [Ids \X Ids -> Claims \cup {Nobody}]
      BY StateIs DEF Place, Key, TypeOK, PV, Worker
    <3>10. (up => reg.vols[k] = c) /\ saved.vols[k] = c
      BY <2>2
    <3> HIDE DEF k
    <3>1. ASSUME Rests PROVE Kept
      BY <3>10, <3>1 DEF Rests
    <3>2. ASSUME Stop \/ Boots PROVE Kept
      BY <3>10, <3>2 DEF Stop, Boots
    <3>3. ASSUME NEW p \in Ids, MakesPool(p) PROVE Kept
      <4>1. /\ up' = up /\ reg'.vols = reg.vols
            /\ saved' = saved \/ (up /\ saved' = reg')
        BY <3>3, MakesPoolIs DEF MakesPool
      <4> QED BY <3>10, <4>1
    <3>4. ASSUME NEW v \in Ids, Raises(v) PROVE Kept
      <4>1. up' = up /\ reg'.vols = reg.vols /\ saved' = saved
        BY <3>4, RaisedIs DEF Raises, TypeOK
      <4> QED BY <3>10, <4>1
    <3>5. ASSUME NEW e \in Claims, NEW p \in Ids, NEW v \in Ids, MakesVolume(e, p, v)
          PROVE  Kept
      <4>0. up /\ up' = up
        BY <3>5, MakesVolumeIs DEF MakesVolume
      <4>1. /\ \/ reg'.vols = reg.vols
               \/ reg'.vols = [reg.vols EXCEPT ![<<p, v>>] = e]
            /\ saved' = saved \/ saved' = reg'
        BY <3>5, MakesVolumeIs
      <4>2. k # <<p, v>>
        BY <3>0, <3>5, <3>10, <4>0 DEF MakesVolume
      <4>3. reg'.vols[k] = c
        BY <3>0, <3>10, <4>0, <4>1, <4>2
      <4> QED BY <3>10, <4>0, <4>1, <4>3
    <3>6. ASSUME NEW e \in Claims, NEW p \in Ids, NEW v \in Ids, Delete(e),
                 Target(e) = <<p, v>>, DropsVolume(p, v)
          PROVE  Kept \/ \E d \in Claims : HitBy(c, d)'
      <4>1. /\ up /\ up' = up
            /\ \/ reg'.vols = reg.vols
               \/ reg'.vols = [reg.vols EXCEPT ![<<p, v>>] = Nobody]
            /\ saved' = saved \/ saved' = reg'
        BY <3>6, DropsVolumeIs DEF DropsVolume
      <4>2. CASE reg' = reg
        BY <3>10, <4>1, <4>2
      <4>3. CASE k # <<p, v>>
        <5>1. reg'.vols[k] = c
          BY <3>0, <3>10, <4>1, <4>3
        <5> QED BY <3>10, <4>1, <5>1
      <4>4. CASE reg' # reg /\ k = <<p, v>>
        BY <1>2, <3>6, <3>10, <4>1, <4>4, HitIs DEF k
      <4> QED BY <4>2, <4>3, <4>4
    <3> QED BY <1>2, <3>1, <3>2, <3>3, <3>4, <3>5, <3>6, ServerSteps DEF k
  <2> QED BY <1>2, <2>1, <2>2 DEF Backed
<1> QED BY <1>1, <1>2, InUseSteps

\* What BoundBacked rests on.
BackedInv == TypeOK /\ WorkersOK /\ Backed

LEMMA BackedInit == Init => BackedInv
<1> SUFFICES ASSUME Init PROVE BackedInv
  OBVIOUS
<1>1. TypeOK
  BY TypeInit
<1>2. ASSUME NEW c \in Claims PROVE /\ work[c] = Idle /\ pv[c] = NoPV /\ strikes[c] = 0
  BY DEF Init
<1>3. WorkersOK
  BY <1>2 DEF WorkersOK, WorkerOK, At, Idle, NoPV
<1>4. Backed
  BY <1>2 DEF Backed, InUse, At, Idle, NoPV
<1> QED BY <1>1, <1>3, <1>4 DEF BackedInv

LEMMA BackedInvariant == Spec => []BackedInv
<1>1. BackedInv /\ [Next]_vars => BackedInv'
  BY TypeStep, WorkersStep, BackedStep DEF BackedInv
<1> QED BY BackedInit, <1>1, PTL DEF Spec

\* Whatever failed, was repeated or crashed, and in whatever order the workers
\* ran, a bound PersistentVolume has its volume behind it, in the server that is up
\* and in the state file unless a save has left it torn, but for a DeleteVolume
\* for another claim that was given the id before (TakenBy).
THEOREM VolumesBacked == Spec => []BoundBacked
<1>1. BackedInv => BoundBacked
  <2> SUFFICES ASSUME BackedInv, NEW c \in Claims, pv[c].phase = "bound"
               PROVE  \/ (up => reg.vols[Key(c)] = c) /\ saved.vols[Key(c)] = c
                      \/ \E d \in Claims : TakenBy(c, d)
    BY DEF BoundBacked
  <2>1. WorkerOK(c)
    BY DEF BackedInv, WorkersOK
  <2>2. InUse(c) /\ Place(c) = Key(c) /\ Key(c) = <<pv[c].pool, pv[c].vol>>
    BY <2>1 DEF InUse, Place, Key, WorkerOK, At
  <2>3. \A d \in Claims : HitBy(c, d) => TakenBy(c, d)
    BY <2>2 DEF HitBy, TakenBy
  <2> QED BY <2>2, <2>3 DEF BackedInv, Backed
<1> QED BY BackedInvariant, <1>1, PTL

-----------------------------------------------------------------------------
(* The pool of the StorageClass                                             *)

\* There is no pool 0, so that it can stand for one that is not known.
NoPoolZero == reg.pools[0] = "none" /\ saved.pools[0] = "none"

\* A worker that makes the pool up, having found none in the class, has read an
\* older class than one with a pool.
ClassReadOK(c) ==
    /\ work[c].version <= cached
    /\ work[c].pc \in {"list", "newpool"} => OwnPool[c] = 0
    /\ work[c].pc \in {"annotate", "update"} =>
         work[c].pool # 0 /\ (OwnPool[c] # 0 => work[c].pool = OwnPool[c])
    /\ (work[c].pc \in {"list", "newpool", "annotate", "update"}
          /\ OwnPool[c] = 0 /\ class.pool # 0) => work[c].version < class.version

\* What was written into the object of the newest class is its pool, or one of a
\* claim.
NewestObject ==
    /\ cached <= class.version
    /\ (class.pool # 0 /\ cached = class.version) =>
         /\ obj[cached] # 0
         /\ obj[cached] = class.pool \/ \E c \in Claims : obj[cached] = OwnPool[c]

ClassInv == BackedInv /\ NoPoolZero /\ NewestObject /\ \A c \in Claims : ClassReadOK(c)

LEMMA NoPoolZeroStep ==
  ASSUME TypeOK, WorkersOK, NoPoolZero, [Next]_vars
  PROVE  NoPoolZero'
<1> 0 \in Ids /\ reg.pools \in [Ids -> {"none", "class", "other"}]
  BY IdsType, StateIs DEF TypeOK
<1>1. ASSUME reg'.pools[0] = "none", saved' = saved \/ saved' = reg' \/ saved' = reg
      PROVE  NoPoolZero'
  BY <1>1 DEF NoPoolZero
<1>2. CASE Rests
  BY <1>1, <1>2 DEF Rests, NoPoolZero
<1>3. CASE Stop \/ Boots
  BY <1>3, BlankType DEF Stop, Boots, NoPoolZero
<1>4. ASSUME NEW p \in Ids, MakesPool(p) PROVE NoPoolZero'
  <2>1. p # 0 /\ (reg'.pools = reg.pools \/ reg'.pools = [reg.pools EXCEPT ![p] = "class"])
        /\ (saved' = saved \/ saved' = reg')
    BY <1>4, MakesPoolIs DEF MakesPool
  <2>2. reg'.pools[0] = "none"
    BY <2>1 DEF NoPoolZero
  <2> QED BY <1>1, <2>1, <2>2
<1>5. ASSUME NEW v \in Ids, Raises(v) PROVE NoPoolZero'
  <2>1. reg'.pools = reg.pools /\ saved' = saved
    BY <1>5, RaisedIs DEF Raises, TypeOK
  <2> QED BY <1>1, <2>1 DEF NoPoolZero
<1>6. ASSUME NEW c \in Claims, NEW p \in Ids, NEW v \in Ids, MakesVolume(c, p, v)
      PROVE  NoPoolZero'
  <2>1. reg'.pools = reg.pools /\ (saved' = saved \/ saved' = reg')
    BY <1>6, MakesVolumeIs
  <2> QED BY <1>1, <2>1 DEF NoPoolZero
<1>7. ASSUME NEW p \in Ids, NEW v \in Ids, DropsVolume(p, v) PROVE NoPoolZero'
  <2>1. reg'.pools = reg.pools /\ (saved' = saved \/ saved' = reg')
    BY <1>7, DropsVolumeIs
  <2> QED BY <1>1, <2>1 DEF NoPoolZero
<1> QED BY <1>2, <1>3, <1>4, <1>5, <1>6, <1>7, ServerSteps

LEMMA ClassReadStep ==
  ASSUME TypeOK, WorkersOK, NoPoolZero, NewestObject, NEW c \in Claims, ClassReadOK(c),
         class' = class, cached' = cached,
         Step(c) \/ Release(c) \/ Edit(c), ~GetVolume(c)
  PROVE  ClassReadOK(c)'
<1> work \in [Claims -> Worker] /\ cached \in Nat
  BY DEF TypeOK, Versions
<1> work[c].version \in Nat
  BY DEF Worker, Versions
<1> OwnPool[c] \in Nat
  BY IdsType
<1> USE DEF ClassReadOK
<1>1. ASSUME work'[c] = Idle \/ work'[c] = work[c] PROVE ClassReadOK(c)'
  BY <1>1 DEF Idle
<1>2. ASSUME work'[c].version = work[c].version, work'[c].pc \in {"create", "get", "remove", "store"}
      PROVE  ClassReadOK(c)'
  BY <1>2
<1>3. CASE Provision(c)
  <2>1. work'[c] = [pc |-> IF PoolKnown(c) = 0 THEN "list"
                          ELSE IF Annotated(c) THEN "create" ELSE "annotate",
                    version |-> cached, pool |-> PoolKnown(c), vol |-> 0]
    BY <1>3 DEF Provision
  <2>2. work'[c].version = cached /\ work'[c].pool = PoolKnown(c)
    BY <2>1
  <2>3. CASE PoolKnown(c) = 0
    <3>1. OwnPool[c] = 0 /\ obj[cached] = 0 /\ work'[c].pc = "list"
      BY <2>1, <2>3 DEF PoolKnown
    <3>2. class.pool # 0 => cached < class.version
      BY <3>1 DEF NewestObject, TypeOK, Class, Versions
    <3> QED BY <2>2, <3>1, <3>2
  <2>4. CASE PoolKnown(c) # 0 /\ Annotated(c)
    BY <2>1, <2>2, <2>4
  <2>5. CASE PoolKnown(c) # 0 /\ ~Annotated(c)
    <3>1. OwnPool[c] # 0 /\ PoolKnown(c) = OwnPool[c] /\ work'[c].pc = "annotate"
      BY <2>1, <2>5 DEF PoolKnown, Annotated
    <3> QED BY <2>2, <3>1
  <2> QED BY <2>3, <2>4, <2>5
<1>4. ASSUME NEW p \in Ids \ {0}, work' = [work EXCEPT ![c].pc = "annotate", ![c].pool = p],
             work[c].pc \in {"list", "newpool"}
      PROVE  ClassReadOK(c)'
  <2>1. work'[c].pc = "annotate" /\ work'[c].pool = p /\ work'[c].version = work[c].version
    BY <1>4, PoolMove
  <2> QED BY <1>4, <2>1
<1>5. ASSUME NEW pc, Go(c, pc) PROVE /\ work'[c].pc = pc /\ work'[c].version = work[c].version
                                     /\ work'[c].pool = work[c].pool
  BY <1>5 DEF Go, Worker
<1>6. CASE ListPools(c)
  <2>1. work[c].pc = "list"
    BY <1>6 DEF ListPools, At
  <2>2. ASSUME Go(c, "newpool") PROVE ClassReadOK(c)'
    <3>1. /\ work'[c].pc = "newpool" /\ work'[c].version = work[c].version
      BY <1>5, <2>2
    <3> QED BY <2>1, <3>1
  <2>3. 0 \notin PoolsOfClass /\ PoolsOfClass \subseteq Ids
    BY DEF PoolsOfClass, NoPoolZero
  <2>4. \/ \E p \in PoolsOfClass : work' = [work EXCEPT ![c].pc = "annotate", ![c].pool = p]
        \/ Go(c, "newpool") \/ GiveUp(c)
    BY <1>6 DEF ListPools
  <2> QED BY <1>1, <1>4, <2>1, <2>2, <2>3, <2>4, Moves
<1>7. CASE CreatePool(c)
  <2>1. work[c].pc = "newpool"
    BY <1>7 DEF CreatePool, At
  <2>2. \/ GiveUp(c)
        \/ \E p \in Ids \ {0} : work' = [work EXCEPT ![c].pc = "annotate", ![c].pool = p]
    BY <1>7, FreePoolIs DEF CreatePool
  <2> QED BY <1>1, <1>4, <2>1, <2>2, Moves
<1>8. CASE Annotate(c)
  <2>1. work[c].pc = "annotate" /\ Go(c, "update")
    BY <1>8 DEF Annotate, At
  <2>2. /\ work'[c].pc = "update" /\ work'[c].version = work[c].version
        /\ work'[c].pool = work[c].pool
    BY <1>5, <2>1
  <2> QED BY <2>1, <2>2
<1>9. CASE UpdateClass(c)
  <2>1. Go(c, "create") \/ GiveUp(c)
    BY <1>9 DEF UpdateClass
  <2> QED BY <1>1, <1>2, <1>5, <2>1, Moves
<1>10. CASE CreateVolume(c)
  <2>1. ASSUME NEW v, work' = [work EXCEPT ![c].pc = "store", ![c].vol = v]
        PROVE  work'[c].pc = "store" /\ work'[c].version = work[c].version
    BY <2>1 DEF Worker
  <2>2. \/ GiveUp(c) \/ Go(c, "get")
        \/ \E v : work' = [work EXCEPT ![c].pc = "store", ![c].vol = v]
    BY <1>10 DEF CreateVolume
  <2>3. CASE GiveUp(c)
    BY <1>1, <2>3, Moves
  <2>4. CASE Go(c, "get")
    <3>1. work'[c].pc = "get" /\ work'[c].version = work[c].version
      BY <1>5, <2>4
    <3> QED BY <1>2, <3>1
  <2>5. CASE \E v : work' = [work EXCEPT ![c].pc = "store", ![c].vol = v]
    BY <1>2, <2>1, <2>5
  <2> QED BY <2>2, <2>3, <2>4, <2>5
<1>11. ASSUME Go(c, "remove") PROVE ClassReadOK(c)'
  <2>1. work'[c].pc = "remove" /\ work'[c].version = work[c].version
    BY <1>5, <1>11
  <2> QED BY <1>2, <2>1
<1>12. CASE GuessVolume(c)
  <2>1. ASSUME NEW p, NEW v,
               work' = [work EXCEPT ![c] = [Idle EXCEPT !.pc = "drop", !.pool = p, !.vol = v]]
        PROVE  work'[c].pc = "drop" /\ work'[c].version = 0
    BY <2>1 DEF Idle
  <2>2. \/ Go(c, "remove")
        \/ \E p, v : work' = [work EXCEPT ![c] = [Idle EXCEPT !.pc = "drop", !.pool = p, !.vol = v]]
    BY <1>12 DEF GuessVolume
  <2>3. CASE work'[c].pc = "drop" /\ work'[c].version = 0
    BY <2>3
  <2> QED BY <1>11, <2>1, <2>2, <2>3
<1>13. CASE Delete(c)
  <2>1. GiveUp(c) \/ Go(c, "remove")
    BY <1>13 DEF Delete, DeleteVolume
  <2> QED BY <1>1, <1>11, <2>1, Moves
<1>14. CASE StorePV(c) \/ RemovePV(c) \/ Release(c) \/ Edit(c)
  BY <1>1, <1>14, LibrarySteps
<1>15. CASE Unavailable(c)
  BY <1>1, <1>15, UnavailableIs
<1> HIDE DEF ClassReadOK
<1> QED BY <1>3, <1>6, <1>7, <1>8, <1>9, <1>10, <1>12, <1>13, <1>14, <1>15 DEF Step

\* UpdateClass sends the object of the newest class, or nothing changes.
LEMMA UpdateIs ==
  ASSUME TypeOK, NewestObject, NEW c \in Claims, ClassReadOK(c), UpdateClass(c), class' # class
  PROVE  /\ cached = class.version /\ class'.version = class.version + 1
         /\ class'.pool = obj[cached] /\ class'.pool # class.pool
<1> DEFINE v == work[c].version
<1>1. v = class.version /\ obj[v] # class.pool /\ class' = [pool |-> obj[v], version |-> v + 1]
  BY DEF UpdateClass
<1>2. v \in Nat /\ cached \in Nat /\ v <= cached /\ cached <= class.version
  BY DEF TypeOK, Worker, Versions, ClassReadOK, NewestObject
<1> HIDE DEF v
<1>3. cached = v
  BY <1>1, <1>2
<1> QED BY <1>1, <1>3

\* The steps that leave the class, the cache and its objects as they are.
LEMMA ApiSteps ==
  ASSUME NEW c \in Claims,
         \/ Provision(c) \/ ListPools(c) \/ CreatePool(c) \/ CreateVolume(c)
         \/ Unavailable(c) \/ GuessVolume(c) \/ Delete(c) \/ StorePV(c)
         \/ RemovePV(c) \/ Release(c) \/ Edit(c)
  PROVE  class' = class /\ cached' = cached /\ obj' = obj
BY DEF Provision, ListPools, CreatePool, CreateVolume, Unavailable, GuessVolume, Delete,
       DeleteVolume, StorePV, RemovePV, Release, Edit, api

LEMMA ClassInvStep == ClassInv /\ [Next]_vars => ClassInv'
<1> SUFFICES ASSUME ClassInv, [Next]_vars PROVE ClassInv'
  OBVIOUS
<1> /\ TypeOK /\ WorkersOK /\ NoPoolZero /\ NewestObject
    /\ \A c \in Claims : ClassReadOK(c)
  BY DEF ClassInv, BackedInv
<1> DEFINE Goal == NewestObject' /\ \A c \in Claims : ClassReadOK(c)'
<1> /\ cached \in Nat /\ class.version \in Nat /\ cached \in Versions
    /\ class.version \in Versions /\ obj \in [Versions -> Ids]
  BY DEF TypeOK, Versions, Class
<1>1. ASSUME NEW d \in Claims, work'[d] = work[d], class' = class, cached <= cached', cached' \in Nat
      PROVE  ClassReadOK(d)'
  <2>1. work[d].version \in Nat
    BY DEF TypeOK, Worker, Versions
  <2> QED BY <1>1, <2>1 DEF ClassReadOK
<1>2. ASSUME NEW d \in Claims, work'[d] = Idle, cached' \in Nat PROVE ClassReadOK(d)'
  BY <1>2 DEF ClassReadOK, Idle
<1>3. ASSUME NEW c \in Claims, Step(c) \/ Release(c) \/ Edit(c),
             ~GetVolume(c), class' = class, cached' = cached
      PROVE  \A d \in Claims : ClassReadOK(d)'
  <2>1. ClassReadOK(c)'
    BY <1>3, ClassReadStep
  <2>2. ASSUME NEW d \in Claims \ {c} PROVE ClassReadOK(d)'
    BY <1>1, <1>3, <2>2, OtherClaims
  <2> QED BY <2>1, <2>2
<1>4. ASSUME class' = class, cached' = cached, obj' = obj PROVE NewestObject'
  BY <1>4 DEF NewestObject
<1>5. ASSUME NEW c \in Claims,
             \/ Provision(c) \/ ListPools(c) \/ CreatePool(c) \/ CreateVolume(c)
             \/ Unavailable(c) \/ GuessVolume(c) \/ Delete(c) \/ StorePV(c)
             \/ RemovePV(c) \/ Release(c) \/ Edit(c)
      PROVE  Goal
  <2>1. class' = class /\ cached' = cached /\ obj' = obj
    BY <1>5, ApiSteps
  <2>2. ~GetVolume(c) \/ work' = [d \in Claims |-> Idle]
    BY DEF GetVolume, FreshProcess
  <2>3. CASE ~GetVolume(c)
    BY <1>3, <1>4, <1>5, <2>1, <2>3 DEF Step
  <2>4. CASE work' = [d \in Claims |-> Idle]
    BY <1>2, <1>4, <2>1, <2>4
  <2> QED BY <2>2, <2>3, <2>4
<1>6. ASSUME NEW c \in Claims, Annotate(c) PROVE Goal
  <2>1. /\ class' = class /\ cached' = cached /\ work[c].pc = "annotate"
        /\ obj' = [obj EXCEPT ![work[c].version] = work[c].pool]
    BY <1>6 DEF Annotate, At
  <2>2. work'[c].pc = "update"
    BY <1>6, Moves DEF Annotate
  <2>3. ~GetVolume(c)
    BY <2>1 DEF GetVolume, At
  <2>4. CASE work[c].version = cached /\ class.pool # 0 /\ cached = class.version
    <3>1. OwnPool[c] # 0 /\ work[c].pool = OwnPool[c]
      BY <2>1, <2>4 DEF ClassReadOK
    <3>2. obj'[cached] = OwnPool[c]
      BY <2>1, <2>4, <3>1
    <3> QED BY <1>3, <1>6, <2>1, <2>3, <2>4, <3>1, <3>2 DEF NewestObject, Step
  <2>5. CASE ~(work[c].version = cached /\ class.pool # 0 /\ cached = class.version)
    <3>1. (class.pool # 0 /\ cached = class.version) => obj'[cached] = obj[cached]
      BY <2>1, <2>5
    <3> QED BY <1>3, <1>6, <2>1, <2>3, <3>1 DEF NewestObject, Step
  <2> QED BY <2>4, <2>5
<1>7. ASSUME NEW c \in Claims, UpdateClass(c) PROVE Goal
  <2>1. ~GetVolume(c)
    BY <1>7 DEF UpdateClass, GetVolume, At
  <2>2. cached' = cached /\ obj' = obj
    BY <1>7 DEF UpdateClass
  <2>3. CASE class' = class
    BY <1>3, <1>4, <1>7, <2>1, <2>2, <2>3 DEF Step
  <2>4. CASE class' # class
    <3>1. cached = class.version /\ class'.version = class.version + 1
      BY <1>7, <2>4, UpdateIs
    <3>2. NewestObject'
      BY <2>2, <3>1 DEF NewestObject
    <3>3. Go(c, "create") \/ GiveUp(c)
      BY <1>7 DEF UpdateClass
    <3>4. ASSUME NEW d \in Claims \ {c} PROVE ClassReadOK(d)'
      <4>1. work'[d] = work[d]
        BY <3>3 DEF Go, GiveUp, TypeOK
      <4>2. work[d].version \in Nat /\ work[d].version <= cached
        BY DEF TypeOK, Worker, Versions, ClassReadOK
      <4>3. /\ work[d].pc \in {"list", "newpool"} => OwnPool[d] = 0
            /\ work[d].pc \in {"annotate", "update"} =>
                 work[d].pool # 0 /\ (OwnPool[d] # 0 => work[d].pool = OwnPool[d])
        BY DEF ClassReadOK
      <4>4. work[d].version < class'.version
        BY <3>1, <4>2
      <4> QED BY <2>2, <4>1, <4>2, <4>3, <4>4 DEF ClassReadOK
    <3>5. ClassReadOK(c)'
      <4>1. CASE GiveUp(c)
        BY <1>2, <2>2, <4>1, Moves
      <4>2. CASE Go(c, "create")
        <5>1. work'[c].pc = "create" /\ work'[c].version = work[c].version
          BY <4>2 DEF Go, TypeOK, Worker
        <5> QED BY <2>2, <5>1 DEF ClassReadOK
      <4> QED BY <3>3, <4>1, <4>2
    <3> QED BY <3>2, <3>4, <3>5
  <2> QED BY <2>3, <2>4
<1>8. ASSUME FreshProcess, class' = class PROVE Goal
  <2>1. cached' = class.version /\ obj'[class.version] = class.pool /\ work' = [d \in Claims |-> Idle]
    BY <1>8, FreshIs
  <2>2. NewestObject'
    BY <1>8, <2>1 DEF NewestObject
  <2> QED BY <1>2, <2>1, <2>2
<1>9. ASSUME NEW c \in Claims, GetVolume(c) PROVE Goal
  BY <1>8, <1>9 DEF GetVolume
<1>10. ASSUME Refresh PROVE Goal
  <2>1. /\ cached' = class.version /\ class' = class /\ work' = work
        /\ obj' = [obj EXCEPT ![class.version] = class.pool]
    BY <1>10 DEF Refresh
  <2>2. cached <= cached'
    BY <2>1 DEF NewestObject
  <2>3. NewestObject'
    BY <2>1 DEF NewestObject
  <2> QED BY <1>1, <2>1, <2>2, <2>3
<1>11. ASSUME UNCHANGED <<class, cached, obj, work>> PROVE Goal
  BY <1>1, <1>4, <1>11
<1>12. ASSUME Crash PROVE Goal
  BY <1>8, <1>11, <1>12 DEF Crash
<1>13. ASSUME ReconcileServer \/ BootServer \/ UNCHANGED vars PROVE Goal
  BY <1>11, <1>13 DEF ReconcileServer, BootServer, vars, api
<1>14. Goal
  <2> HIDE DEF Goal
  <2> QED BY <1>5, <1>6, <1>7, <1>9, <1>10, <1>12, <1>13 DEF Next, Step
<1>15. BackedInv'
  BY TypeStep, WorkersStep, BackedStep DEF ClassInv, BackedInv
<1> QED BY <1>14, <1>15, NoPoolZeroStep DEF ClassInv

LEMMA ClassInvInit == Init => ClassInv
<1> SUFFICES ASSUME Init PROVE ClassInv
  OBVIOUS
<1>1. NoPoolZero
  BY IdsType DEF Init, NoPoolZero
<1>2. NewestObject
  BY DEF Init, NewestObject
<1>3. ASSUME NEW c \in Claims PROVE ClassReadOK(c)
  BY DEF Init, ClassReadOK, Idle
<1> QED BY <1>1, <1>2, <1>3, BackedInit DEF ClassInv

\* A StorageClass that carries the id of a pool is given another one only for a
\* claim with a pool of its own: no interleaving of workers, stale objects and
\* restarts makes the others wander.
THEOREM ClassKeepsPool == Spec => ClassPoolKept
<1>1. ASSUME ClassInv, [Next]_vars, class.pool # 0, class'.pool # class.pool
      PROVE  \E c \in Claims : OwnPool[c] = class'.pool
  <2>1. TypeOK /\ NewestObject /\ \A c \in Claims : ClassReadOK(c)
    BY <1>1 DEF ClassInv, BackedInv
  <2>2. PICK c \in Claims : UpdateClass(c)
    <3>1. ASSUME NEW c \in Claims, Step(c) \/ Release(c) \/ Edit(c), ~UpdateClass(c)
          PROVE  class' = class
      <4>1. Annotate(c) \/ GetVolume(c) => class' = class
        BY DEF Annotate, GetVolume
      <4> QED BY <3>1, <4>1, ApiSteps DEF Step
    <3>2. Refresh \/ ReconcileServer \/ BootServer \/ Crash \/ UNCHANGED vars
            => class' = class
      BY DEF Refresh, ReconcileServer, BootServer, Crash, vars, api
    <3> QED BY <1>1, <3>1, <3>2 DEF Next
  <2>3. cached = class.version /\ class'.pool = obj[cached]
    BY <1>1, <2>1, <2>2, UpdateIs
  <2> QED BY <1>1, <2>1, <2>3 DEF NewestObject
<1>2. ClassInv /\ [Next]_vars =>
        [(class.pool # 0 /\ class'.pool # class.pool) =>
            \E c \in Claims : OwnPool[c] = class'.pool]_vars
  BY <1>1
<1>3. Spec => []ClassInv
  BY ClassInvInit, ClassInvStep, PTL DEF Spec
<1> QED BY <1>2, <1>3, PTL DEF Spec, ClassPoolKept

-----------------------------------------------------------------------------
(* The server is a catalog                                                  *)

\* What the memory of a state holds is what the state has.
LEMMA MemoryIs ==
  ASSUME NEW s \in State
  PROVE  /\ MemoryOf(s) \in C!Memory /\ MemoryOf(s).top = s.MaxLUNID
         /\ \A k \in Ids \X Ids :
              /\ k[2] # 0 => MemoryOf(s).thing[k] = s.vols[k]
              /\ k[2] = 0 => MemoryOf(s).thing[k] =
                               (IF s.pools[k[1]] = "none" THEN Nobody ELSE s.pools[k[1]])
         /\ \A k \in Ids \X Ids :
              C!Has(MemoryOf(s), k) <=> IF k[2] # 0 THEN s.vols[k] # Nobody ELSE HasPool(s, k[1])
<1> DEFINE thing == [k \in Ids \X Ids |-> IF k[2] # 0 THEN s.vols[k]
                                        ELSE IF s.pools[k[1]] = "none" THEN Nobody
                                        ELSE s.pools[k[1]]]
<1> /\ s.MaxLUNID \in Ids /\ s.pools \in [Ids -> {"none", "class", "other"}]
    /\ s.vols \in [Ids \X Ids -> Claims \cup {Nobody}]
  BY StateIs
<1>1. MemoryOf(s) = [top |-> s.MaxLUNID, thing |-> thing]
  BY DEF MemoryOf
<1>2. ASSUME NEW k \in Ids \X Ids
      PROVE  /\ thing[k] \in (Claims \cup {"class", "other"}) \cup {Nobody}
             /\ thing[k] # Nobody <=> IF k[2] # 0 THEN s.vols[k] # Nobody ELSE HasPool(s, k[1])
             /\ thing[k] = IF k[2] # 0 THEN s.vols[k]
                           ELSE IF s.pools[k[1]] = "none" THEN Nobody ELSE s.pools[k[1]]
  <2>1. CASE k[2] # 0
    BY <2>1
  <2>2. CASE k[2] = 0
    <3>1. k[1] \in Ids /\ s.pools[k[1]] \in {"none", "class", "other"}
      OBVIOUS
    <3>2. "class" # Nobody /\ "other" # Nobody
      OBVIOUS
    <3> QED BY <2>2, <3>1, <3>2 DEF HasPool
  <2> QED BY <2>1, <2>2
<1>3. thing \in [Ids \X Ids -> (Claims \cup {"class", "other"}) \cup {Nobody}]
  BY <1>2
<1>4. \A k \in Ids \X Ids :
        /\ k[2] # 0 => thing[k] = s.vols[k]
        /\ k[2] = 0 => thing[k] = (IF s.pools[k[1]] = "none" THEN Nobody ELSE s.pools[k[1]])
  BY <1>2
<1>5. \A k \in Ids \X Ids :
        thing[k] # Nobody <=> IF k[2] # 0 THEN s.vols[k] # Nobody ELSE HasPool(s, k[1])
  BY <1>2
<1> HIDE DEF thing
<1>6. MemoryOf(s).top = s.MaxLUNID /\ MemoryOf(s).thing = thing
  BY <1>1
<1>7. MemoryOf(s) \in C!Memory
  BY <1>1, <1>3 DEF C!Memory, C!Keys
<1> QED BY <1>4, <1>5, <1>6, <1>7 DEF C!Has

\* What a boot could load is what it was, what is in memory, or nothing.
Loadable == IF torn THEN {} ELSE {MemoryOf(saved)}

LEMMA KeptIs ==
  ASSUME Saving, torn \in BOOLEAN
  PROVE  \/ UNCHANGED <<saved, torn>>
         \/ Loadable' = {MemoryOf(reg)'}
         \/ Loadable' = {}
<1>1. CASE saved' = reg' /\ torn' = FALSE
  BY <1>1 DEF Loadable
<1>2. CASE saved' = saved /\ torn' \in {torn, TRUE}
  BY <1>2 DEF Loadable
<1> QED BY <1>1, <1>2 DEF Saving

\* A step that leaves the memory is a save, one that goes wrong, or nothing.
LEMMA SaveOrStutter ==
  ASSUME MemoryOf(reg)' = MemoryOf(reg), up, up' = up, Saving, torn \in BOOLEAN
  PROVE  C!Next \/ UNCHANGED C!vars
<1>1. CASE UNCHANGED <<saved, torn>>
  BY <1>1 DEF C!vars
<1>2. CASE Loadable' = {MemoryOf(reg)'}
  <2> DEFINE unknown == [k \in Ids \X Ids |-> "unknown"]
  <2>1. Loadable' = {MemoryOf(reg)}
    BY <1>2
  <2>2. /\ unknown \in [C!Keys -> {"unknown", "present", "absent"}]
        /\ \A k \in C!Keys : unknown[k] \in {unknown[k], C!Status(k)}
    BY DEF C!Keys
  <2>3. C!Save
    BY <2>1, <2>2 DEF C!Save, Loadable
  <2> QED BY <2>3 DEF C!Next
<1>3. CASE Loadable' = {}
  <2>1. C!Lose
    BY <1>3 DEF C!Lose, Loadable
  <2> QED BY <2>1 DEF C!Next
<1> QED BY <1>1, <1>2, <1>3, KeptIs

\* A step that makes one thing, and saves it or not.
LEMMA CreateIs ==
  ASSUME TypeOK, TypeOK', NEW k \in Ids \X Ids,
         ~C!Has(MemoryOf(reg), k), C!Has(MemoryOf(reg'), k),
         \A j \in (Ids \X Ids) \ {k} : MemoryOf(reg').thing[j] = MemoryOf(reg).thing[j],
         reg.MaxLUNID <= reg'.MaxLUNID,
         k[2] # 0 => C!Has(MemoryOf(reg), <<k[1], 0>>) /\ k[2] <= reg'.MaxLUNID,
         up, up' = up, Saving
  PROVE  C!Next
<1> DEFINE unknown == [j \in Ids \X Ids |-> "unknown"]
<1>1. MemoryOf(reg)' = MemoryOf(reg') /\ Loadable' \in {Loadable, {MemoryOf(reg)'}, {}}
  BY KeptIs DEF Loadable, TypeOK
<1>2. /\ MemoryOf(reg) \in C!Memory /\ MemoryOf(reg).top = reg.MaxLUNID
      /\ MemoryOf(reg') \in C!Memory /\ MemoryOf(reg').top = reg'.MaxLUNID
  BY MemoryIs DEF TypeOK
<1>3. unknown = [unknown EXCEPT ![k] = "unknown"]
  OBVIOUS
<1>4. C!Create(k)
  BY <1>1, <1>2, <1>3 DEF C!Create, C!Keys, Loadable
<1> QED BY <1>4 DEF C!Next, C!Keys

LEMMA RaiseIs ==
  ASSUME TypeOK, TypeOK', reg'.vols = reg.vols, reg'.pools = reg.pools,
         reg.MaxLUNID <= reg'.MaxLUNID, up, UNCHANGED <<up, saved, torn>>
  PROVE  C!Next \/ UNCHANGED C!vars
<1>1. MemoryOf(reg').thing = MemoryOf(reg).thing
  BY DEF MemoryOf
<1>2. /\ MemoryOf(reg).top = reg.MaxLUNID
      /\ MemoryOf(reg') \in C!Memory /\ MemoryOf(reg').top = reg'.MaxLUNID
  BY MemoryIs DEF TypeOK
<1>3. CASE reg.MaxLUNID = reg'.MaxLUNID
  <2>1. MemoryOf(reg') = MemoryOf(reg)
    BY <1>3 DEF MemoryOf
  <2> QED BY <2>1 DEF C!vars
<1>4. CASE reg.MaxLUNID # reg'.MaxLUNID
  <2>1. reg.MaxLUNID < reg'.MaxLUNID
    <3>1. reg.MaxLUNID \in Ids /\ reg'.MaxLUNID \in Ids
      BY StateIs DEF TypeOK
    <3>2. reg.MaxLUNID \in Nat /\ reg'.MaxLUNID \in Nat
      BY <3>1, IdsType, Zenon
    <3> QED BY <1>4, <3>2
  <2>2. C!Count
    BY <1>1, <1>2, <2>1 DEF C!Count
  <2> QED BY <2>2 DEF C!Next
<1> QED BY <1>3, <1>4

LEMMA CatalogStep ==
  ASSUME TypeOK, WorkersOK, [Next]_vars
  PROVE  C!Next \/ UNCHANGED C!vars
<1> TypeOK' /\ reg \in State /\ reg' \in State /\ torn \in BOOLEAN
  BY TypeStep DEF TypeOK
<1> /\ reg.vols \in [Ids \X Ids -> Claims \cup {Nobody}]
    /\ reg.pools \in [Ids -> {"none", "class", "other"}]
    /\ reg.MaxLUNID \in Nat
  BY StateIs, IdsType
<1> 0 \in Ids
  BY IdsType
<1>1. CASE Rests
  <2>1. CASE torn' = torn
    BY <1>1, <2>1 DEF Rests, C!vars
  <2>2. CASE torn' = TRUE
    <3>1. C!Lose
      BY <1>1, <2>2 DEF Rests, C!Lose
    <3> QED BY <3>1 DEF C!Next
  <2> QED BY <1>1, <2>1, <2>2 DEF Rests
<1>2. CASE Stop \/ Boots
  <2>1. MemoryOf(Blank) = C!Empty
    <3>1. MemoryOf(Blank).top = 0
      BY MemoryIs, BlankType DEF Blank
    <3>2. MemoryOf(Blank) = [top |-> 0, thing |-> [k \in Ids \X Ids |-> Nobody]]
      BY <3>1, BlankType DEF MemoryOf
    <3> QED BY <3>2 DEF C!Empty, C!Keys
  <2>2. Stop => C!Stop
    BY <2>1 DEF Stop, C!Stop
  <2>3. Boots => C!Start
    BY DEF Boots, C!Start
  <2> QED BY <1>2, <2>2, <2>3 DEF C!Next
<1>3. ASSUME NEW p \in Ids, MakesPool(p) PROVE C!Next \/ UNCHANGED C!vars
  <2>1. /\ reg' \in {reg, WithPool(p)} /\ reg'.vols = reg.vols
        /\ reg'.MaxLUNID = reg.MaxLUNID /\ Saving /\ up /\ up' = up
    BY <1>3, MakesPoolIs DEF MakesPool
  <2>2. CASE reg' = reg
    BY <2>1, <2>2, SaveOrStutter
  <2>3. CASE reg' = WithPool(p)
    <3> DEFINE k == <<p, 0>>
    <3>1. reg'.pools = [reg.pools EXCEPT ![p] = "class"]
      BY <2>3, WithPoolIs
    <3>2. k \in Ids \X Ids /\ k[1] = p /\ k[2] = 0 /\ ~HasPool(reg, p) /\ HasPool(reg', p)
      BY <1>3, <3>1 DEF MakesPool, HasPool
    <3>3. ~C!Has(MemoryOf(reg), k) /\ C!Has(MemoryOf(reg'), k)
      BY <3>2, MemoryIs
    <3>4. ASSUME NEW j \in (Ids \X Ids) \ {k}
          PROVE  MemoryOf(reg').thing[j] = MemoryOf(reg).thing[j]
      <4>1. CASE j[2] # 0
        BY <2>1, <4>1, MemoryIs
      <4>2. CASE j[2] = 0
        <5>1. j[1] \in Ids /\ j[1] # p
          BY <3>4, <4>2
        <5>2. reg'.pools[j[1]] = reg.pools[j[1]]
          BY <3>1, <5>1
        <5> QED BY <4>2, <5>2, MemoryIs
      <4> QED BY <4>1, <4>2
    <3> HIDE DEF k
    <3> QED BY <2>1, <3>2, <3>3, <3>4, CreateIs
  <2> QED BY <2>1, <2>2, <2>3
<1>4. ASSUME NEW v \in Ids, Raises(v) PROVE C!Next \/ UNCHANGED C!vars
  <2>1. /\ reg'.vols = reg.vols /\ reg'.pools = reg.pools
        /\ reg.MaxLUNID <= reg'.MaxLUNID /\ up /\ UNCHANGED <<up, saved, torn>>
    <3>1. Raised(v).MaxLUNID >= reg.MaxLUNID /\ Raised(v).MaxLUNID \in Ids
      BY RaisedIs, StateIs
    <3> QED BY <1>4, <3>1, RaisedIs, IdsType DEF Raises
  <2> QED BY <2>1, RaiseIs
<1>5. ASSUME NEW c \in Claims, NEW p \in Ids, NEW v \in Ids, MakesVolume(c, p, v)
      PROVE  C!Next \/ UNCHANGED C!vars
  <2> DEFINE w == WithVolume(p, v, c)
  <2>1. /\ reg' \in {Raised(v), w} /\ reg'.pools = reg.pools
        /\ up /\ up' = up /\ Saving /\ (reg' # w => saved' = saved /\ torn' = torn)
    BY <1>5, MakesVolumeIs DEF MakesVolume
  <2>2. v <= reg'.MaxLUNID /\ reg.MaxLUNID <= reg'.MaxLUNID
    <3>1. /\ Raised(v).MaxLUNID >= v /\ Raised(v).MaxLUNID >= reg.MaxLUNID
          /\ Raised(v).MaxLUNID \in Ids /\ reg'.MaxLUNID = Raised(v).MaxLUNID
      BY <1>5, RaisedIs, StateIs, MakesVolumeIs
    <3> QED BY <3>1, IdsType
  <2> HIDE DEF w
  <2>3. CASE reg' = w
    <3> DEFINE k == <<p, v>>
    <3>1. reg'.vols = [reg.vols EXCEPT ![k] = c]
      BY <2>3, WithVolumeIs DEF w
    <3>2. /\ k \in Ids \X Ids /\ k[1] = p /\ k[2] = v /\ v # 0
          /\ reg.vols[k] = Nobody /\ reg'.vols[k] = c /\ c # Nobody /\ HasPool(reg, p)
      BY <1>5, <3>1 DEF MakesVolume
    <3>3. ~C!Has(MemoryOf(reg), k) /\ C!Has(MemoryOf(reg'), k)
      BY <3>2, MemoryIs
    <3>4. C!Has(MemoryOf(reg), <<k[1], 0>>)
      <4>1. <<p, 0>> \in Ids \X Ids /\ <<p, 0>>[1] = p /\ <<p, 0>>[2] = 0
        OBVIOUS
      <4> QED BY <3>2, <4>1, MemoryIs
    <3>5. ASSUME NEW j \in (Ids \X Ids) \ {k}
          PROVE  MemoryOf(reg').thing[j] = MemoryOf(reg).thing[j]
      <4>1. reg'.vols[j] = reg.vols[j]
        BY <3>1, <3>2
      <4> QED BY <2>1, <4>1, MemoryIs
    <3> HIDE DEF k
    <3> QED BY <2>1, <2>2, <2>3, <3>2, <3>3, <3>4, <3>5, CreateIs
  <2>4. CASE reg' # w
    <3>1. UNCHANGED <<saved, torn>> /\ reg'.vols = reg.vols
      BY <2>1, <2>4, RaisedIs
    <3> QED BY <2>1, <2>2, <3>1, RaiseIs
  <2> QED BY <2>3, <2>4
<1>6. ASSUME NEW p \in Ids, NEW v \in Ids, DropsVolume(p, v)
      PROVE  C!Next \/ UNCHANGED C!vars
  <2>1. /\ reg' \in {reg, WithoutVolume(p, v)} /\ reg'.pools = reg.pools
        /\ reg'.MaxLUNID = reg.MaxLUNID /\ Saving /\ up /\ up' = up
    BY <1>6, DropsVolumeIs DEF DropsVolume
  <2>2. CASE reg' = reg
    BY <2>1, <2>2, SaveOrStutter
  <2>3. CASE reg' = WithoutVolume(p, v)
    <3> DEFINE k == <<p, v>>
    <3>1. reg'.vols = [reg.vols EXCEPT ![k] = Nobody]
      BY <2>3, WithoutVolumeIs
    <3>2. k \in Ids \X Ids /\ k[2] # 0 /\ C!Of(k) = {k}
      BY <1>6 DEF DropsVolume, C!Of
    <3>3. ASSUME NEW j \in Ids \X Ids
          PROVE  MemoryOf(reg').thing[j] = IF j \in {k} THEN Nobody ELSE MemoryOf(reg).thing[j]
      <4>1. CASE j = k
        <5>1. reg'.vols[k] = Nobody
          BY <3>1, <3>2
        <5> QED BY <3>2, <4>1, <5>1, MemoryIs
      <4>2. CASE j # k
        <5>1. reg'.vols[j] = reg.vols[j]
          BY <3>1, <3>2, <4>2
        <5> QED BY <2>1, <4>2, <5>1, MemoryIs
      <4> QED BY <4>1, <4>2
    <3>4. /\ MemoryOf(reg').top = MemoryOf(reg).top /\ MemoryOf(reg') \in C!Memory
          /\ Loadable' \in {Loadable, {MemoryOf(reg')}, {}}
      BY <2>1, MemoryIs, KeptIs DEF Loadable
    <3>5. [j \in Ids \X Ids |-> "unknown"] =
            [j \in Ids \X Ids |-> IF j \in C!Of(k) THEN "unknown"
                                ELSE [i \in Ids \X Ids |-> "unknown"][j]]
      OBVIOUS
    <3> HIDE DEF k
    <3>6. C!Delete(k)
      BY <2>1, <3>2, <3>3, <3>4, <3>5 DEF C!Delete, C!Keys, Loadable
    <3> QED BY <3>2, <3>6 DEF C!Next, C!Keys
  <2> QED BY <2>1, <2>2, <2>3
<1> QED BY <1>1, <1>2, <1>3, <1>4, <1>5, <1>6, ServerSteps

LEMMA CatalogInit == Init => C!Init
<1> SUFFICES ASSUME Init PROVE C!Init
  OBVIOUS
<1>1. TypeOK
  BY TypeInit
<1>2. MemoryOf(saved) = MemoryOf(reg) /\ MemoryOf(reg) \in C!Memory
  BY <1>1, MemoryIs DEF Init, TypeOK
<1>3. C!WellNumbered(MemoryOf(reg))
  <2>1. \A k \in Ids \X Ids : reg.vols[k] = Nobody
    BY DEF Init
  <2> QED BY <1>1, <2>1, MemoryIs DEF C!WellNumbered, C!Keys, TypeOK
<1>4. up = TRUE /\ torn = FALSE
  BY DEF Init
<1>5. (IF torn THEN {} ELSE {MemoryOf(saved)}) = {MemoryOf(reg)}
  BY <1>2, <1>4
<1> QED BY <1>2, <1>3, <1>4, <1>5 DEF C!Init, C!Keys

\* Workers, retries, restarts and faults find a catalog: a call, whatever its
\* answer, makes or deletes one thing or nothing, and saves it, or not, or tears
\* the file; a boot brings back what was saved last, if the file is not torn.
THEOREM TalksToACatalog == Spec => TalksToCatalog
<1>1. BackedInv /\ [Next]_vars => [C!Next]_(C!vars)
  BY CatalogStep DEF BackedInv
<1> QED BY CatalogInit, BackedInvariant, <1>1, PTL DEF Spec, TalksToCatalog, C!Spec

-----------------------------------------------------------------------------
(* How many volumes are left behind                                         *)

\* Volume k is the one of c's PersistentVolume, or on its way there.
Live(c, k) == \/ pv[c].phase \in {"bound", "released"} /\ Key(c) = k
              \/ At(c, "store") /\ <<work[c].pool, work[c].vol>> = k

\* Whom the server, or its state file, has volume k for.
Held(k) == {reg.vols[k], saved.vols[k]} \ {Nobody}

\* The volumes that are left behind, or would be after a restart,
Loose == {k \in Ids \X Ids : \E d \in Held(k) : ~Live(d, k)}

\* and the PersistentVolumes of which Delete has no more than a guess.
Edited == {c \in Claims : pv[c].phase \in {"bound", "released"} /\ pv[c].noted # Notes}

\* Delete succeeds for a PersistentVolume that is as it was made only when its
\* volume is gone, from the state file too: no restart brings it back.
Removed == \A c \in Claims :
    At(c, "remove") /\ pv[c].noted = Notes => c \notin Held(Key(c))

Debt == Cardinality(Loose) + Cardinality(Edited)
Paid == budget.faults + budget.cut + budget.edits
DebtPaid == Debt <= Paid

LEMMA HeldIs ==
  ASSUME TypeOK, NEW k \in Ids \X Ids
  PROVE  Held(k) \subseteq Claims
BY StateIs DEF Held, TypeOK

LEMMA KeyIs ==
  ASSUME TypeOK, NEW c \in Claims
  PROVE  Key(c) \in Ids \X Ids /\ <<work[c].pool, work[c].vol>> \in Ids \X Ids
BY DEF Key, TypeOK, PV, Worker

LEMMA Finite ==
  /\ IsFiniteSet(Loose) /\ Cardinality(Loose) \in Nat
  /\ IsFiniteSet(Edited) /\ Cardinality(Edited) \in Nat
<1>1. IsFiniteSet(Ids \X Ids)
  BY IdsType, FS_Product
<1>2. Loose \subseteq Ids \X Ids /\ Edited \subseteq Claims
  BY DEF Loose, Edited
<1> QED BY <1>1, <1>2, FS_Subset, FS_CardinalityType

\* The server gets volumes for claims by CreateVolume only.
LEMMA HeldSteps ==
  ASSUME TypeOK, WorkersOK, [Next]_vars
  PROVE  \/ \A k \in Ids \X Ids : Held(k)' \subseteq Held(k)
         \/ \E c \in Claims, p, v \in Ids : CreateVolume(c) /\ MakesVolume(c, p, v)
<1> DEFINE Kept == \A k \in Ids \X Ids : Held(k)' \subseteq Held(k)
<1>0. /\ reg.vols \in [Ids \X Ids -> Claims \cup {Nobody}]
      /\ saved.vols \in [Ids \X Ids -> Claims \cup {Nobody}]
  BY StateIs DEF TypeOK
<1>1. ASSUME reg'.vols = reg.vols, saved' \in {saved, reg'} PROVE Kept
  BY <1>1 DEF Held
<1>2. ASSUME Rests PROVE Kept
  BY <1>1, <1>2 DEF Rests
<1>3. ASSUME Stop \/ Boots PROVE Kept
  BY <1>3, BlankType DEF Stop, Boots, Held
<1>4. ASSUME NEW p \in Ids, MakesPool(p) PROVE Kept
  BY <1>1, <1>4, MakesPoolIs
<1>5. ASSUME NEW v \in Ids, Raises(v) PROVE Kept
  BY <1>1, <1>5, RaisedIs DEF Raises, TypeOK
<1>6. ASSUME NEW p \in Ids, NEW v \in Ids, DropsVolume(p, v) PROVE Kept
  <2>1. /\ \/ reg'.vols = reg.vols
           \/ reg'.vols = [reg.vols EXCEPT ![<<p, v>>] = Nobody]
        /\ saved' \in {saved, reg'}
    BY <1>6, DropsVolumeIs
  <2>2. \A k \in Ids \X Ids : reg'.vols[k] \in {reg.vols[k], Nobody}
    BY <1>0, <2>1
  <2> QED BY <2>1, <2>2 DEF Held
<1> HIDE DEF Kept
<1>7. Kept \/ \E c \in Claims, p, v \in Ids : CreateVolume(c) /\ MakesVolume(c, p, v)
  BY ServerSteps, <1>2, <1>3, <1>4, <1>5, <1>6
<1> QED BY <1>7 DEF Kept

\* A PersistentVolume keeps its volume until it is removed, a worker until its
\* process ends.
LEMMA LiveSteps ==
  ASSUME TypeOK, WorkersOK, [Next]_vars, NEW d \in Claims, NEW k, Live(d, k)
  PROVE  \/ Live(d, k)'
         \/ RemovePV(d) /\ k = Key(d)
         \/ /\ FreshProcess /\ (Crash \/ \E c \in Claims : GetVolume(c))
            /\ At(d, "store") /\ k = <<work[d].pool, work[d].vol>>
<1> DEFINE Ends == /\ FreshProcess /\ (Crash \/ \E c \in Claims : GetVolume(c))
                   /\ At(d, "store") /\ k = <<work[d].pool, work[d].vol>>
           Goes == RemovePV(d) /\ k = Key(d)
<1> WorkerOK(d) /\ pv[d] \in PV
  BY DEF TypeOK, WorkersOK
<1>0. /\ ~At(d, "store") => pv[d].phase \in {"bound", "released"} /\ Key(d) = k
      /\ At(d, "store") => pv[d].phase = "none" /\ k = <<work[d].pool, work[d].vol>>
  BY DEF Live, WorkerOK, At
<1>1. ASSUME work'[d] = work[d], pv'[d] = pv[d] PROVE Live(d, k)'
  BY <1>1 DEF Live, At, Key
<1>2. ASSUME work'[d] = Idle, pv'[d] = pv[d], ~At(d, "store") PROVE Live(d, k)'
  BY <1>0, <1>2 DEF Live, Key
<1>3. ASSUME FreshProcess, pv' = pv, Crash \/ \E c \in Claims : GetVolume(c)
      PROVE  Live(d, k)' \/ Ends
  BY <1>0, <1>2, <1>3 DEF FreshProcess
<1>4. ASSUME \/ Provision(d) \/ ListPools(d) \/ CreatePool(d) \/ Annotate(d)
             \/ UpdateClass(d) \/ CreateVolume(d)
      PROVE  FALSE
  <2>1. pv[d].phase = "none"
    BY <1>4, ProvisionSteps DEF NoPV, WorkerOK
  <2>2. work[d].pc # "store"
    BY <1>4 DEF Provision, ListPools, CreatePool, Annotate, UpdateClass, CreateVolume, At
  <2> QED BY <1>0, <2>1, <2>2 DEF At
<1>5. ASSUME GuessVolume(d) \/ Delete(d) PROVE Live(d, k)'
  <2>1. pv' = pv /\ pv[d].phase = "released"
    BY <1>5, DeleteSteps DEF WorkerOK
  <2> QED BY <1>0, <2>1 DEF Live, Key
<1>6. ASSUME StorePV(d) PROVE Live(d, k)'
  <2>1. /\ work[d].pc = "store"
        /\ pv'[d] = [phase |-> "bound", pool |-> work[d].pool,
                     vol |-> work[d].vol, noted |-> Notes]
    BY <1>6, LibrarySteps
  <2> QED BY <1>0, <2>1 DEF Live, Key, At
<1>7. ASSUME RemovePV(d) PROVE k = Key(d)
  BY <1>0, <1>7, LibrarySteps DEF At
<1>8. ASSUME Release(d) \/ Edit(d) PROVE Live(d, k)'
  <2>1. \/ pv[d].phase = "bound" /\ pv'[d] = [pv[d] EXCEPT !.phase = "released"]
        \/ \E N : pv'[d] = [pv[d] EXCEPT !.noted = N]
    BY <1>8, LibrarySteps
  <2>2. work' = work /\ pv[d].phase \in {"bound", "released"}
    BY <1>8, LibrarySteps
  <2>3. /\ pv'[d].phase \in {"bound", "released"}
        /\ pv'[d].pool = pv[d].pool /\ pv'[d].vol = pv[d].vol
    BY <2>1, <2>2 DEF PV
  <2> QED BY <1>0, <2>2, <2>3 DEF Live, Key
<1>9. ASSUME NEW c \in Claims, GetVolume(c)
      PROVE  Live(d, k)' \/ Ends
  BY <1>3, <1>9 DEF GetVolume
<1>10. ASSUME NEW c \in Claims \ {d}, Step(c) \/ Release(c) \/ Edit(c), ~GetVolume(c)
       PROVE  Live(d, k)'
  BY <1>1, <1>10, OtherClaims
<1>11. ASSUME Refresh \/ ReconcileServer \/ BootServer \/ UNCHANGED vars
       PROVE  Live(d, k)'
  BY <1>1, <1>11 DEF Refresh, ReconcileServer, BootServer, vars
<1>12. ASSUME Crash
       PROVE  Live(d, k)' \/ Ends
  <2>1. pv' = pv /\ (UNCHANGED work \/ FreshProcess)
    BY <1>12 DEF Crash
  <2> QED BY <1>1, <1>3, <1>12, <2>1
<1>13. ASSUME Step(d) \/ Release(d) \/ Edit(d), ~GetVolume(d)
       PROVE  Live(d, k)' \/ Goes
  <2>1. ASSUME Unavailable(d) PROVE Live(d, k)'
    <3>1. ~At(d, "store")
      BY <2>1 DEF Unavailable, At
    <3> QED BY <1>2, <2>1, <3>1, UnavailableIs
  <2> QED BY <1>4, <1>5, <1>6, <1>7, <1>8, <1>13, <2>1 DEF Step
<1>14. ASSUME NEW c \in Claims, Step(c) \/ Release(c) \/ Edit(c)
       PROVE  Live(d, k)' \/ Goes \/ Ends
  BY <1>9, <1>10, <1>13, <1>14
<1> QED BY <1>11, <1>12, <1>14 DEF Next

LEMMA CreateHeld ==
  ASSUME TypeOK, NEW c \in Claims, NEW p \in Ids, NEW v \in Ids, MakesVolume(c, p, v),
         NEW k \in Ids \X Ids
  PROVE  /\ {reg'.vols[k], saved'.vols[k]} \subseteq {reg.vols[k], saved.vols[k], c}
         /\ k # <<p, v>> => {reg'.vols[k], saved'.vols[k]} \subseteq {reg.vols[k], saved.vols[k]}
<1>1. reg.vols \in [Ids \X Ids -> Claims \cup {Nobody}]
  BY StateIs DEF TypeOK
<1>2. /\ \/ reg'.vols = reg.vols
         \/ reg'.vols = [reg.vols EXCEPT ![<<p, v>>] = c]
      /\ saved' = saved \/ saved' = reg'
  BY MakesVolumeIs
<1>3. reg'.vols[k] = reg.vols[k] \/ (k = <<p, v>> /\ reg'.vols[k] = c)
  BY <1>1, <1>2
<1> QED BY <1>2, <1>3

\* Removed is kept: a claim at "remove" has come there by a Delete, and gets no
\* volume.
LEMMA RemovedStep ==
  ASSUME TypeOK, WorkersOK, Removed, [Next]_vars
  PROVE  Removed'
<1> SUFFICES ASSUME NEW c \in Claims, At(c, "remove")', pv'[c].noted = Notes
             PROVE  c \notin Held(Key(c))'
  BY DEF Removed
<1> WorkerOK(c) /\ pv[c] \in PV /\ Key(c) \in Ids \X Ids /\ c # Nobody
  BY KeyIs DEF TypeOK, WorkersOK
<1>1. \/ At(c, "remove") /\ Key(c)' = Key(c) /\ pv[c].noted = Notes
      \/ Delete(c) /\ Key(c)' = Key(c) /\ pv[c].noted = Notes
  <2> DEFINE Was == At(c, "remove") /\ Key(c)' = Key(c) /\ pv[c].noted = Notes
  <2>1. ASSUME work'[c] = work[c], pv'[c] = pv[c] PROVE Was
    BY <2>1 DEF At, Key
  <2>2. ASSUME work'[c] = Idle PROVE FALSE
    BY <2>2 DEF At, Idle
  <2>3. ASSUME \/ Provision(c) \/ ListPools(c) \/ CreatePool(c) \/ Annotate(c)
               \/ UpdateClass(c) \/ CreateVolume(c)
        PROVE  FALSE
    BY <2>3, ProvisionSteps DEF At
  <2>4. ASSUME Delete(c) PROVE Key(c)' = Key(c) /\ pv[c].noted = Notes
    BY <2>4, DeleteSteps DEF Key
  <2>5. ASSUME GuessVolume(c) PROVE FALSE
    <3>1. pv' = pv /\ pv[c].noted # Notes
      BY <2>5 DEF GuessVolume
    <3> QED BY <3>1
  <2>6. ASSUME StorePV(c) \/ RemovePV(c) PROVE FALSE
    BY <2>2, <2>6, LibrarySteps
  <2>7. ASSUME Release(c) \/ Edit(c) PROVE Was
    <3>1. \/ pv[c].phase = "bound" /\ pv'[c] = [pv[c] EXCEPT !.phase = "released"]
          \/ \E N \in SUBSET pv[c].noted : N # pv[c].noted /\ pv'[c] = [pv[c] EXCEPT !.noted = N]
      BY <2>7, LibrarySteps
    <3>2. work' = work
      BY <2>7, LibrarySteps
    <3>3. pv[c].noted \subseteq Notes
      BY DEF PV
    <3>4. /\ pv'[c].pool = pv[c].pool /\ pv'[c].vol = pv[c].vol
          /\ \/ pv'[c].noted = pv[c].noted
             \/ \E N \in SUBSET pv[c].noted : N # pv[c].noted /\ pv'[c].noted = N
      BY <3>1 DEF PV
    <3> QED BY <3>2, <3>3, <3>4 DEF At, Key
  <2>8. ASSUME NEW d \in Claims, GetVolume(d) PROVE FALSE
    BY <2>2, <2>8 DEF GetVolume, FreshProcess
  <2>9. ASSUME NEW d \in Claims \ {c}, Step(d) \/ Release(d) \/ Edit(d), ~GetVolume(d)
        PROVE  Was
    BY <2>1, <2>9, OtherClaims
  <2>10. ASSUME Refresh \/ ReconcileServer \/ BootServer \/ UNCHANGED vars PROVE Was
    BY <2>1, <2>10 DEF Refresh, ReconcileServer, BootServer, vars
  <2>11. ASSUME Crash PROVE Was
    <3>1. pv' = pv /\ (UNCHANGED work \/ work'[c] = Idle)
      BY <2>11 DEF Crash, FreshProcess
    <3> QED BY <2>1, <2>2, <3>1
  <2> HIDE DEF Was
  <2>12. ASSUME Step(c) \/ Release(c) \/ Edit(c)
         PROVE  Was \/ (Delete(c) /\ Key(c)' = Key(c) /\ pv[c].noted = Notes)
    BY <2>2, <2>3, <2>4, <2>5, <2>6, <2>7, <2>8, <2>12, UnavailableIs DEF Step
  <2>13. Was \/ (Delete(c) /\ Key(c)' = Key(c) /\ pv[c].noted = Notes)
    BY <2>8, <2>9, <2>10, <2>11, <2>12 DEF Next
  <2> QED BY <2>13 DEF Was
<1> DEFINE k == Key(c)
<1>2. ASSUME At(c, "remove"), pv[c].noted = Notes, k' = k PROVE c \notin Held(k)'
  <2> HIDE DEF k
  <2>1. c \notin Held(k) /\ k \in Ids \X Ids
    BY <1>2 DEF Removed, k
  <2>2. c \notin {reg'.vols[k], saved'.vols[k]}
    <3>1. CASE \A j \in Ids \X Ids : Held(j)' \subseteq Held(j)
      BY <2>1, <3>1 DEF Held
    <3>2. ASSUME NEW d \in Claims, NEW p \in Ids, NEW v \in Ids,
                 CreateVolume(d), MakesVolume(d, p, v)
          PROVE  c \notin {reg'.vols[k], saved'.vols[k]}
      <4>1. d # c
        BY <1>2, <3>2 DEF CreateVolume, At
      <4>2. {reg'.vols[k], saved'.vols[k]} \subseteq {reg.vols[k], saved.vols[k], d}
        BY <2>1, <3>2, CreateHeld
      <4> QED BY <2>1, <4>1, <4>2 DEF Held
    <3> QED BY <3>1, <3>2, HeldSteps
  <2> QED BY <1>2, <2>2 DEF Held
<1>3. ASSUME Delete(c), pv[c].noted = Notes, k' = k PROVE c \notin Held(k)'
  <2> DEFINE p == pv[c].pool
             v == pv[c].vol
  <2>1. p \in Ids /\ v \in Ids /\ k = <<p, v>>
    BY DEF PV, Key
  <2>2. DeleteVolume(c, p, v)
    <3>1. ~At(c, "drop")
      BY <1>3 DEF WorkerOK, Notes
    <3> QED BY <1>3, <3>1 DEF Delete
  <2>3. ~GiveUp(c)
    BY Moves DEF At
  <2>4. Succeeds(WithoutVolume(p, v), stores \ Hba(v))
    BY <2>2, <2>3 DEF DeleteVolume
  <2>5. reg' = WithoutVolume(p, v) /\ saved' = WithoutVolume(p, v)
    BY <2>4 DEF Succeeds
  <2> HIDE DEF p, v, k
  <2>6. WithoutVolume(p, v).vols = [reg.vols EXCEPT ![<<p, v>>] = Nobody]
    BY <2>1, WithoutVolumeIs DEF TypeOK
  <2>7. reg'.vols[k] = Nobody /\ saved'.vols[k] = Nobody
    <3>1. reg.vols \in [Ids \X Ids -> Claims \cup {Nobody}]
      BY StateIs DEF TypeOK
    <3> QED BY <2>1, <2>5, <2>6, <3>1
  <2> QED BY <1>3, <2>7 DEF Held
<1> QED BY <1>1, <1>2, <1>3

LEMMA CardGrows ==
  ASSUME NEW A, NEW B, NEW S, IsFiniteSet(A), IsFiniteSet(S), B \subseteq A \cup S
  PROVE  /\ Cardinality(A) \in Nat /\ Cardinality(B) \in Nat /\ Cardinality(S) \in Nat
         /\ Cardinality(B) <= Cardinality(A) + Cardinality(S)
<1>1. IsFiniteSet(A \cup S) /\ IsFiniteSet(A \cap S) /\ IsFiniteSet(B)
      /\ Cardinality(B) <= Cardinality(A \cup S)
  BY FS_Union, FS_Subset
<1>2. Cardinality(A \cup S) = Cardinality(A) + Cardinality(S) - Cardinality(A \cap S)
  BY FS_Union
<1>3. /\ Cardinality(A) \in Nat /\ Cardinality(B) \in Nat /\ Cardinality(S) \in Nat
      /\ Cardinality(A \cup S) \in Nat /\ Cardinality(A \cap S) \in Nat
  BY <1>1, FS_Union, FS_CardinalityType
<1> QED BY <1>1, <1>2, <1>3

\* Every edit is paid for.
LEMMA EditedSteps ==
  ASSUME TypeOK, WorkersOK, [Next]_vars, NEW d \in Edited', d \notin Edited
  PROVE  Edit(d)
<1> d \in Claims /\ pv[d] \in PV /\ WorkerOK(d)
  BY DEF Edited, TypeOK, WorkersOK
<1>0. pv'[d].phase \in {"bound", "released"} /\ pv'[d].noted # Notes
  BY DEF Edited
<1>1. ASSUME pv'[d] = pv[d] PROVE FALSE
  BY <1>0, <1>1 DEF Edited
<1>2. ASSUME StorePV(d) PROVE FALSE
  <2>1. pv'[d] = [phase |-> "bound", pool |-> work[d].pool, vol |-> work[d].vol, noted |-> Notes]
    BY <1>2, LibrarySteps
  <2> QED BY <1>0, <2>1
<1>3. ASSUME RemovePV(d) PROVE FALSE
  <2>1. pv'[d] = [pv[d] EXCEPT !.phase = "gone"]
    BY <1>3, LibrarySteps
  <2> QED BY <1>0, <2>1 DEF PV
<1>4. ASSUME Release(d) PROVE FALSE
  <2>1. pv[d].phase = "bound" /\ pv'[d] = [pv[d] EXCEPT !.phase = "released"]
    BY <1>4, LibrarySteps
  <2>2. pv'[d].noted = pv[d].noted
    BY <2>1 DEF PV
  <2> QED BY <1>0, <2>1, <2>2 DEF Edited
<1>5. ASSUME NEW c \in Claims \ {d}, Step(c) \/ Release(c) \/ Edit(c), ~GetVolume(c)
      PROVE  FALSE
  BY <1>1, <1>5, OtherClaims
<1>6. ASSUME Step(d) \/ Release(d) \/ Edit(d), ~GetVolume(d) PROVE Edit(d)
  BY <1>1, <1>2, <1>3, <1>4, <1>6, ProvisionSteps, DeleteSteps, UnavailableIs DEF Step
<1>7. ASSUME NEW c \in Claims, GetVolume(c) PROVE FALSE
  BY <1>1, <1>7 DEF GetVolume
<1>8. ASSUME Refresh \/ ReconcileServer \/ BootServer \/ Crash \/ UNCHANGED vars PROVE FALSE
  BY <1>1, <1>8 DEF Refresh, ReconcileServer, BootServer, Crash, vars
<1> QED BY <1>5, <1>6, <1>7, <1>8 DEF Next

LEMMA PaidType == TypeOK => /\ budget.faults \in Nat /\ budget.cut \in Nat
                            /\ budget.edits \in Nat /\ Paid \in Nat
BY DEF TypeOK, Paid

\* What the steps pay.
LEMMA PaidSteps ==
  ASSUME TypeOK
  PROVE  /\ NoFault => Paid' = Paid
         /\ Fault => Paid' = Paid + 1
         /\ \A c \in Claims : Edit(c) => Paid' = Paid + 1
         /\ \A c \in Claims : GetVolume(c) => Paid' = Paid + Cardinality(Cut)
         /\ Crash => \/ UNCHANGED <<work, pv>> /\ Paid' = Paid
                     \/ /\ FreshProcess /\ UNCHANGED <<registry, pv>>
                        /\ Paid' = Paid + Cardinality(Cut)
<1> DEFINE n == Cardinality(Cut)
<1> /\ budget \in [faults : 0..MaxFaults, crashes : 0..MaxCrashes, edits : 0..MaxEdits, cut : Nat]
    /\ n \in Nat
  BY CutType DEF TypeOK
<1>1. NoFault => Paid' = Paid
  BY DEF NoFault, Paid
<1>2. Fault => Paid' = Paid + 1
  BY DEF Fault, Paid
<1>3. ASSUME NEW c \in Claims, Edit(c) PROVE Paid' = Paid + 1
  BY <1>3 DEF Edit, Paid
<1>4. ASSUME NEW c \in Claims, GetVolume(c) PROVE Paid' = Paid + n
  <2>1. budget' = [budget EXCEPT !.cut = @ + n]
    BY <1>4 DEF GetVolume
  <2> HIDE DEF n
  <2> QED BY <2>1 DEF Paid
<1>5. ASSUME Crash
      PROVE  \/ UNCHANGED <<work, pv>> /\ Paid' = Paid
             \/ FreshProcess /\ UNCHANGED <<registry, pv>> /\ Paid' = Paid + n
  <2>1. \/ UNCHANGED <<work, pv>> /\ budget' = [budget EXCEPT !.crashes = @ + 1]
        \/ /\ FreshProcess /\ UNCHANGED <<registry, pv>>
           /\ budget' = [budget EXCEPT !.crashes = @ + 1, !.cut = @ + n]
    BY <1>5 DEF Crash
  <2> HIDE DEF n
  <2>2. budget' = [budget EXCEPT !.crashes = @ + 1] => Paid' = Paid
    BY DEF Paid
  <2>3. budget' = [budget EXCEPT !.crashes = @ + 1, !.cut = @ + n] => Paid' = Paid + n
    BY DEF Paid
  <2> QED BY <2>1, <2>2, <2>3
<1> QED BY <1>1, <1>2, <1>3, <1>4, <1>5

LEMMA LooseGrows ==
  ASSUME TypeOK, NEW S,
         \A k \in (Ids \X Ids) \ S : /\ Held(k)' \subseteq Held(k)
                                     /\ \A d \in Held(k) : Live(d, k) => Live(d, k)'
  PROVE  Loose' \subseteq Loose \cup S
<1> SUFFICES ASSUME NEW k \in Ids \X Ids, k \notin S, NEW d \in Held(k)', ~Live(d, k)'
             PROVE  k \in Loose
  BY DEF Loose
<1> QED BY DEF Loose

\* What may follow a step in which at most the volumes of S are left behind.
LEMMA DebtGrows ==
  ASSUME TypeOK, DebtPaid, NEW S, IsFiniteSet(S), Loose' \subseteq Loose \cup S,
         NEW T, IsFiniteSet(T), Edited' \subseteq Edited \cup T,
         Paid' >= Paid + Cardinality(S) + Cardinality(T), Paid' \in Nat
  PROVE  DebtPaid'
<1>1. Cardinality(Loose') <= Cardinality(Loose) + Cardinality(S)
  BY Finite, CardGrows
<1>2. Cardinality(Edited') <= Cardinality(Edited) + Cardinality(T)
  BY Finite, CardGrows
<1>3. /\ Cardinality(Loose) \in Nat /\ Cardinality(Edited) \in Nat /\ Paid \in Nat
      /\ Cardinality(S) \in Nat /\ Cardinality(T) \in Nat
      /\ Cardinality(Loose') \in Nat /\ Cardinality(Edited') \in Nat
  BY Finite, PaidType, FS_CardinalityType, CardGrows
<1> QED BY <1>1, <1>2, <1>3 DEF DebtPaid, Debt

LEMMA EndsIs ==
  ASSUME TypeOK, WorkersOK, DebtPaid, [Next]_vars, FreshProcess,
         UNCHANGED <<registry, pv>>, Paid' = Paid + Cardinality(Cut)
  PROVE  DebtPaid'
<1> DEFINE f == [c \in Cut |-> <<work[c].pool, work[c].vol>>]
           S == {f[c] : c \in Cut}
<1>1. IsFiniteSet(S) /\ Cardinality(S) <= Cardinality(Cut)
  <2>1. f \in Surjection(Cut, S)
    BY DEF Surjection
  <2> QED BY <2>1, CutType, FS_Surjection
<1>2. Loose' \subseteq Loose \cup S
  <2>1. ASSUME NEW k \in (Ids \X Ids) \ S, NEW d \in Held(k), Live(d, k)
        PROVE  Live(d, k)'
    <3>1. d \in Claims
      BY HeldIs
    <3>2. pv'[d] = pv[d] /\ ~RemovePV(d)
      <4>1. RemovePV(d) => pv[d].phase = "released" /\ pv'[d].phase = "gone"
        <5>1. RemovePV(d) => /\ work[d].pc = "remove"
                             /\ pv'[d] = [pv[d] EXCEPT !.phase = "gone"]
          BY <3>1, LibrarySteps
        <5> QED BY <3>1, <5>1 DEF WorkersOK, WorkerOK, TypeOK, PV
      <4> QED BY <4>1
    <3>3. ~(At(d, "store") /\ k = <<work[d].pool, work[d].vol>>)
      BY <2>1, <3>1 DEF Cut
    <3> QED BY <2>1, <3>1, <3>2, <3>3, LiveSteps
  <2>2. \A k \in Ids \X Ids : Held(k)' = Held(k)
    BY DEF Held, registry
  <2> HIDE DEF S
  <2> QED BY <2>1, <2>2, LooseGrows
<1>3. Edited' \subseteq Edited \cup {}
  BY DEF Edited
<1> HIDE DEF S
<1>4. IsFiniteSet({}) /\ Cardinality({}) = 0
  BY FS_EmptySet
<1>5. Paid' >= Paid + Cardinality(S) + Cardinality({}) /\ Paid' \in Nat
  BY <1>1, <1>4, CutType, PaidType, FS_CardinalityType
<1> QED BY <1>1, <1>2, <1>3, <1>4, <1>5, DebtGrows

\* CreateVolume makes a volume that its claim is told of, or not, for a fault.
LEMMA CreateSteps ==
  ASSUME TypeOK, WorkersOK, NEW c \in Claims, CreateVolume(c)
  PROVE  \/ \A k \in Ids \X Ids : Held(k)' \subseteq Held(k)
         \/ \E p, v \in Ids :
              /\ MakesVolume(c, p, v)
              /\ \/ Fault
                 \/ At(c, "store")' /\ Place(c)' = <<p, v>>
<1> DEFINE p == work[c].pool
           v == NextVolumeId
           t == stores \cup {<<v, c>>}
<1>1. p \in Ids /\ v \in Ids /\ work \in [Claims -> Worker]
  BY NextIdType, TypeParts DEF WorkOK, Worker, RegistryOK
<1>2. /\ up
      /\ \/ UNCHANGED registry
         \/ v # 0 /\ reg' = Raised(v) /\ UNCHANGED saved
         \/ /\ v # 0 /\ HasPool(reg, p) /\ reg.vols[<<p, v>>] = Nobody
            /\ \/ /\ Succeeds(WithVolume(p, v, c), t)
                  /\ work' = [work EXCEPT ![c].pc = "store", ![c].vol = v]
               \/ Fails(Raised(v), WithVolume(p, v, c), {stores, t}, t) /\ Fault
  BY DEF CreateVolume
<1>3. t = stores \cup {<<v, c>>}
  OBVIOUS
<1> HIDE DEF v, t
<1>4. CASE UNCHANGED registry
  BY <1>4 DEF registry, Held
<1>5. CASE reg' = Raised(v) /\ UNCHANGED saved
  BY <1>1, <1>5, RaisedIs DEF Held, TypeOK
<1>6. CASE /\ v # 0 /\ HasPool(reg, p) /\ reg.vols[<<p, v>>] = Nobody
           /\ Succeeds(WithVolume(p, v, c), t)
           /\ work' = [work EXCEPT ![c].pc = "store", ![c].vol = v]
  <2>1. MakesVolume(c, p, v)
    BY <1>2, <1>3, <1>6 DEF MakesVolume, Answered
  <2>2. work'[c].pc = "store" /\ work'[c].pool = p /\ work'[c].vol = v
    BY <1>1, <1>6 DEF Worker
  <2>3. At(c, "store")' /\ Place(c)' = <<p, v>>
    BY <2>2 DEF At, Place
  <2> HIDE DEF p
  <2> QED BY <1>1, <2>1, <2>3
<1>7. CASE /\ v # 0 /\ HasPool(reg, p) /\ reg.vols[<<p, v>>] = Nobody
           /\ Fails(Raised(v), WithVolume(p, v, c), {stores, t}, t) /\ Fault
  <2>1. MakesVolume(c, p, v)
    BY <1>2, <1>3, <1>7 DEF MakesVolume, Answered
  <2> HIDE DEF p
  <2> QED BY <1>1, <1>7, <2>1
<1> QED BY <1>2, <1>4, <1>5, <1>6, <1>7

\* What CreateVolume does: it pays for a volume that it does not tell of, ...
LEMMA CreateDebt ==
  ASSUME TypeOK, WorkersOK, DebtPaid, [Next]_vars, NEW c \in Claims, CreateVolume(c)
  PROVE  DebtPaid'
<1>1. pv' = pv /\ pv[c].phase = "none" /\ At(c, "create")
  BY ProvisionSteps DEF WorkersOK, WorkerOK, CreateVolume, At, NoPV
<1>2. Edited' = Edited
  BY <1>1 DEF Edited
<1>3. NoFault \/ Fault
  BY DEF CreateVolume
<1>4. IsFiniteSet({}) /\ Cardinality({}) = 0
  BY FS_EmptySet
<1>5. Paid \in Nat
  BY PaidType
<1>6. ASSUME NEW k \in Ids \X Ids, NEW d \in Held(k), Live(d, k)
      PROVE  Live(d, k)'
  <2>1. d \in Claims
    BY HeldIs
  <2>2. d # c
    BY <1>1, <1>6 DEF Live, At
  <2>3. pv'[d] = pv[d] /\ work'[d] = work[d]
    <3>1. ~GetVolume(c)
      BY <1>1 DEF GetVolume, At
    <3> QED BY <2>1, <2>2, <3>1, OtherClaims DEF Step
  <2> QED BY <1>6, <2>3 DEF Live, Key, At
<1>7. CASE \A k \in Ids \X Ids : Held(k)' \subseteq Held(k)
  <2>1. Loose' \subseteq Loose \cup {}
    BY <1>6, <1>7, LooseGrows
  <2>2. Paid' >= Paid /\ Paid' \in Nat
    BY <1>3, <1>5, PaidSteps
  <2> QED BY <1>2, <1>4, <1>5, <2>1, <2>2, DebtGrows
<1>8. ASSUME NEW p \in Ids, NEW v \in Ids, MakesVolume(c, p, v),
             Fault \/ (At(c, "store")' /\ Place(c)' = <<p, v>>)
      PROVE  DebtPaid'
  <2> DEFINE k == <<p, v>>
  <2>1. k \in Ids \X Ids /\ \A j \in (Ids \X Ids) \ {k} : Held(j)' \subseteq Held(j)
    BY <1>8, CreateHeld DEF Held
  <2>2. Loose' \subseteq Loose \cup {k}
    <3> HIDE DEF k
    <3> QED BY <1>6, <2>1, LooseGrows
  <2>3. CASE Fault
    <3>1. IsFiniteSet({k}) /\ Cardinality({k}) = 1
      BY FS_Singleton
    <3> HIDE DEF k
    <3>2. Paid' = Paid + 1
      BY <2>3, PaidSteps
    <3> QED BY <1>2, <1>4, <1>5, <2>2, <3>1, <3>2, DebtGrows
  <2>4. CASE At(c, "store")' /\ Place(c)' = k
    <3>1. Held(k)' \subseteq {c}
      BY <2>4, CreatedIs DEF Held
    <3>2. Live(c, k)'
      BY <2>4 DEF Live, Place
    <3> HIDE DEF k
    <3>3. k \notin Loose'
      BY <3>1, <3>2 DEF Loose
    <3>4. Loose' \subseteq Loose \cup {}
      BY <2>2, <3>3
    <3>5. Paid' >= Paid /\ Paid' \in Nat
      BY <1>3, <1>5, PaidSteps
    <3> QED BY <1>2, <1>4, <1>5, <3>4, <3>5, DebtGrows
  <2> QED BY <1>8, <2>3, <2>4
<1> QED BY <1>7, <1>8, CreateSteps

\* The other steps leave behind no more than the volume of a PersistentVolume
\* that is removed after an edit.
LEMMA LooseSteps ==
  ASSUME TypeOK, WorkersOK, Removed, [Next]_vars,
         \A c \in Claims : ~CreateVolume(c) /\ ~GetVolume(c),
         ~Crash \/ UNCHANGED work
  PROVE  \/ Loose' \subseteq Loose
         \/ \E c \in Edited : RemovePV(c) /\ Loose' \subseteq Loose \cup {Key(c)}
<1>1. \A k \in Ids \X Ids : Held(k)' \subseteq Held(k)
  BY HeldSteps
<1>2. ASSUME NEW k \in Ids \X Ids, NEW d \in Held(k), Live(d, k)
      PROVE  Live(d, k)' \/ (RemovePV(d) /\ k = Key(d))
  <2>1. d \in Claims
    BY <1>2, HeldIs
  <2>2. ASSUME Crash, FreshProcess, At(d, "store") PROVE FALSE
    BY <2>1, <2>2 DEF FreshProcess, At, Idle
  <2> QED BY <1>2, <2>1, <2>2, LiveSteps
<1>3. ASSUME NEW c \in Claims, RemovePV(c)
      PROVE  /\ pv[c].phase = "released"
             /\ \A d \in Claims : RemovePV(d) => d = c
  <2>1. ASSUME NEW d \in Claims, RemovePV(d)
        PROVE  pv[d].phase = "released" /\ pv'[d].phase = "gone"
    <3>1. work[d].pc = "remove" /\ pv'[d] = [pv[d] EXCEPT !.phase = "gone"]
      BY <2>1, LibrarySteps
    <3> QED BY <3>1 DEF WorkersOK, WorkerOK, TypeOK, PV
  <2>2. ASSUME NEW d \in Claims, RemovePV(d), d # c PROVE FALSE
    <3>1. Step(c) /\ ~GetVolume(c)
      BY <1>3 DEF Step
    <3>2. pv'[d] = pv[d]
      BY <2>2, <3>1, OtherClaims
    <3> QED BY <2>1, <2>2, <3>2
  <2> QED BY <1>3, <2>1, <2>2
<1>4. CASE \E c \in Edited : RemovePV(c)
  <2>1. PICK c \in Edited : RemovePV(c)
    BY <1>4
  <2> DEFINE S == {Key(c)}
  <2>2. c \in Claims
    BY DEF Edited
  <2>3. ASSUME NEW k \in (Ids \X Ids) \ S, NEW d \in Held(k), Live(d, k)
        PROVE  Live(d, k)'
    <3>1. d \in Claims
      BY <2>3, HeldIs
    <3> QED BY <1>2, <1>3, <2>1, <2>2, <2>3, <3>1
  <2> HIDE DEF S
  <2>4. Loose' \subseteq Loose \cup S
    BY <1>1, <2>3, LooseGrows
  <2> QED BY <2>1, <2>4 DEF S
<1>5. CASE ~\E c \in Edited : RemovePV(c)
  <2>1. ASSUME NEW k \in (Ids \X Ids) \ {}, NEW d \in Held(k), Live(d, k)
        PROVE  Live(d, k)'
    <3>1. d \in Claims
      BY <2>1, HeldIs
    <3>2. ASSUME RemovePV(d), k = Key(d) PROVE FALSE
      <4>1. pv[d].noted = Notes
        BY <1>3, <1>5, <3>1, <3>2 DEF Edited
      <4>2. At(d, "remove")
        BY <3>2 DEF RemovePV
      <4> QED BY <2>1, <3>1, <3>2, <4>1, <4>2 DEF Removed
    <3> QED BY <1>2, <2>1, <3>2
  <2>2. Loose' \subseteq Loose \cup {}
    BY <1>1, <2>1, LooseGrows
  <2> QED BY <2>2
<1> QED BY <1>4, <1>5

LEMMA PaidGrows ==
  ASSUME TypeOK, [Next]_vars
  PROVE  Paid' \in Nat /\ Paid' >= Paid
<1> Paid \in Nat /\ Cardinality(Cut) \in Nat
  BY PaidType, CutType
<1>1. NoFault \/ Fault => Paid' >= Paid
  BY PaidSteps
<1>2. ASSUME NEW c \in Claims,
             \/ Provision(c) \/ ListPools(c) \/ CreatePool(c) \/ Annotate(c)
             \/ UpdateClass(c) \/ CreateVolume(c) \/ Unavailable(c) \/ GuessVolume(c)
             \/ Delete(c) \/ StorePV(c) \/ RemovePV(c) \/ Release(c)
      PROVE  NoFault \/ Fault
  BY <1>2 DEF Provision, ListPools, CreatePool, Annotate, UpdateClass, CreateVolume,
              Unavailable, GuessVolume, Delete, DeleteVolume, StorePV, RemovePV, Release
<1>3. ASSUME NEW c \in Claims, Edit(c) \/ GetVolume(c) PROVE Paid' >= Paid
  BY <1>3, PaidSteps
<1>4. ASSUME Refresh \/ ReconcileServer \/ BootServer \/ UNCHANGED vars
      PROVE  NoFault \/ Fault
  BY <1>4, ServerBudget DEF Refresh, vars, NoFault
<1>5. Crash => Paid' >= Paid
  BY PaidSteps
<1>6. Paid' >= Paid
  BY <1>1, <1>2, <1>3, <1>4, <1>5 DEF Next, Step
<1>7. Paid' \in Nat
  BY TypeStep DEF TypeOK, Paid
<1> QED BY <1>6, <1>7

LEMMA DebtStep ==
  ASSUME TypeOK, WorkersOK, Removed, DebtPaid, [Next]_vars
  PROVE  DebtPaid'
<1> Paid \in Nat /\ Paid' \in Nat /\ Paid' >= Paid
  BY PaidType, PaidGrows
<1> IsFiniteSet({}) /\ Cardinality({}) = 0
  BY FS_EmptySet
<1>1. ASSUME NEW c \in Claims, CreateVolume(c) PROVE DebtPaid'
  BY <1>1, CreateDebt
<1>2. ASSUME NEW c \in Claims, GetVolume(c) PROVE DebtPaid'
  <2>1. FreshProcess /\ UNCHANGED <<registry, pv>>
    BY <1>2 DEF GetVolume
  <2> QED BY <1>2, <2>1, PaidSteps, EndsIs
<1>3. ASSUME Crash, ~UNCHANGED work PROVE DebtPaid'
  BY <1>3, PaidSteps, EndsIs
<1>4. ASSUME \A c \in Claims : ~CreateVolume(c) /\ ~GetVolume(c), ~Crash \/ UNCHANGED work
      PROVE  DebtPaid'
  <2>1. ASSUME NEW c \in Edited, RemovePV(c), Loose' \subseteq Loose \cup {Key(c)}
        PROVE  DebtPaid'
    <3>1. Edited' \subseteq Edited \ {c}
      <4>1. pv'[c].phase = "gone"
        <5>1. c \in Claims /\ pv[c] \in PV
          BY DEF Edited, TypeOK
        <5>2. pv'[c] = [pv[c] EXCEPT !.phase = "gone"]
          BY <2>1, <5>1, LibrarySteps
        <5> QED BY <5>1, <5>2 DEF PV
      <4>2. ASSUME NEW d \in Edited', d \notin Edited PROVE FALSE
        <5>1. d \in Claims /\ Edit(d)
          BY <4>2, EditedSteps DEF Edited
        <5>2. d # c
          BY <4>2
        <5>3. pv'[d] = pv[d]
          <6>1. Step(c) /\ ~GetVolume(c) /\ c \in Claims
            BY <1>4, <2>1 DEF Step, Edited
          <6> QED BY <5>1, <5>2, <6>1, OtherClaims
        <5> QED BY <4>2, <5>3 DEF Edited
      <4> QED BY <4>1, <4>2 DEF Edited
    <3>2. Cardinality(Loose') <= Cardinality(Loose) + 1
      <4>1. IsFiniteSet({Key(c)}) /\ Cardinality({Key(c)}) = 1
        BY FS_Singleton
      <4> QED BY <2>1, <4>1, Finite, CardGrows
    <3>3. Cardinality(Edited') <= Cardinality(Edited) - 1
      <4>1. /\ IsFiniteSet(Edited \ {c})
            /\ Cardinality(Edited \ {c}) = Cardinality(Edited) - 1
        BY Finite, FS_RemoveElement
      <4>2. Cardinality(Edited') <= Cardinality(Edited \ {c})
        BY <3>1, <4>1, FS_Subset
      <4> QED BY <4>1, <4>2
    <3>4. /\ Cardinality(Loose) \in Nat /\ Cardinality(Edited) \in Nat
          /\ Cardinality(Loose') \in Nat /\ Cardinality(Edited') \in Nat
      <4>1. IsFiniteSet(Edited') /\ IsFiniteSet(Loose')
        BY <2>1, <3>1, Finite, FS_Subset, FS_AddElement
      <4> QED BY <4>1, Finite, FS_CardinalityType
    <3> QED BY <3>2, <3>3, <3>4 DEF DebtPaid, Debt
  <2>2. ASSUME Loose' \subseteq Loose PROVE DebtPaid'
    <3>1. CASE Edited' \subseteq Edited
      BY <2>2, <3>1, DebtGrows
    <3>2. CASE ~(Edited' \subseteq Edited)
      <4>1. PICK c \in Edited' : c \notin Edited
        BY <3>2
      <4>2. c \in Claims /\ Edit(c)
        BY <4>1, EditedSteps DEF Edited
      <4>3. Edited' \subseteq Edited \cup {c}
        <5>1. ASSUME NEW d \in Edited', d \notin Edited, d # c PROVE FALSE
          <6>1. d \in Claims /\ pv'[d] = pv[d]
            BY <1>4, <4>2, <5>1, OtherClaims DEF Edited
          <6> QED BY <5>1, <6>1 DEF Edited
        <5> QED BY <5>1
      <4>4. IsFiniteSet({c}) /\ Cardinality({c}) = 1
        BY FS_Singleton
      <4>5. Paid' >= Paid + Cardinality({}) + Cardinality({c})
        BY <4>2, <4>4, PaidSteps
      <4> QED BY <2>2, <4>3, <4>4, <4>5, DebtGrows
    <3> QED BY <3>1, <3>2
  <2> QED BY <1>4, <2>1, <2>2, LooseSteps
<1> QED BY <1>1, <1>2, <1>3, <1>4

\* What OrphansBounded rests on.
DebtInv == TypeOK /\ WorkersOK /\ Removed /\ DebtPaid

LEMMA DebtInit == Init => DebtInv
<1> SUFFICES ASSUME Init PROVE DebtInv
  OBVIOUS
<1>1. TypeOK /\ WorkersOK
  BY TypeInit, BackedInit DEF BackedInv
<1>2. Removed
  BY DEF Init, Removed, At, Idle
<1>3. Loose = {}
  BY DEF Init, Loose, Held
<1>4. Edited = {}
  BY DEF Init, Edited, NoPV
<1>5. Paid = 0
  BY DEF Init, Paid
<1>6. DebtPaid
  BY <1>3, <1>4, <1>5, FS_EmptySet DEF DebtPaid, Debt
<1> QED BY <1>1, <1>2, <1>6 DEF DebtInv

\* Provision and Delete leave no more volumes behind than answers were errors or
\* lost, annotations were removed, and workers were between CreateVolume and the
\* PersistentVolume when the process ended, for any number of claims and
\* retries: the potential is paid for by these steps, and no other makes it grow.
THEOREM FewOrphans == Spec => []OrphansBounded
<1>1. DebtInv /\ [Next]_vars => DebtInv'
  BY TypeStep, WorkersStep, RemovedStep, DebtStep DEF DebtInv
<1>2. DebtInv => OrphansBounded
  <2> SUFFICES ASSUME DebtInv PROVE OrphansBounded
    OBVIOUS
  <2>1. Orphans \subseteq Loose
    BY DEF Orphans, Loose, Live, Held
  <2>2. /\ Cardinality(Orphans) <= Cardinality(Loose)
        /\ Cardinality(Orphans) \in Nat
    BY <2>1, Finite, FS_Subset, FS_CardinalityType
  <2>3. TypeOK /\ Cardinality(Loose) + Cardinality(Edited) <= Paid
    BY DEF DebtInv, DebtPaid, Debt
  <2>4. Cardinality(Orphans) <= Paid
    BY <2>2, <2>3, Finite, PaidType
  <2> QED BY <2>4 DEF OrphansBounded, Paid
<1> QED BY <1>1, <1>2, DebtInit, PTL DEF Spec
=============================================================================
