----------------------------- MODULE SigmaLinks -----------------------------
(***************************************************************************)
(* Proofs about what the kernel is left with.                              *)
(*                                                                         *)
(* Every link of a LUN goes to a backstore that is there and enabled, so a *)
(* generated volume id is used by nothing, and nothing of a deleted volume *)
(* is left.  A volume's LUN loses its link only to a call on the volume or *)
(* its pool: the proof relates what DeletePool and DeleteVolume listed     *)
(* before the lock, and what ReconcileAll finds stale, to the state at the *)
(* time of the unlink.  When ReconcileAll comes to the leftover backstores *)
(* the kernel follows the state, and only names can keep it from removing  *)
(* one: the invariant says what it has established for the pools and       *)
(* volumes it has visited, and that no later step of the same run takes    *)
(* that away.  The LUN of a volume serves the volume's own image: all that *)
(* the state, the state file and a CreateVolume in progress want under an  *)
(* id can be had at the same time, and nothing else is enabled or linked.  *)
(* Last, what an initiator writes to a LUN goes to that image and stays.   *)
(***************************************************************************)
EXTENDS SigmaImages, SigmaProofs

USE LioAssumption, SigmaAssumption

\* Every link goes to a backstore that is there and enabled.
Backed(c) == \A k \in c.links : Enabled(c, k[3], k[4])

-----------------------------------------------------------------------------
(* The kernel operations keep links backed                                 *)

\* A configuration with no other links and the same backstores.
Fewer(d, c) == d.links \subseteq c.links /\ d.stores = c.stores

\* Backstores are kept, links are not added: they stay backed.
LEMMA FewerBacked ==
  ASSUME NEW c, NEW d, Backed(c), Fewer(d, c)
  PROVE  Backed(d)
BY DEF Backed, Fewer, Enabled

\* Removing portals, links or LUNs, and making a target, add no link and remove
\* no backstore.
LEMMA PartsFewer ==
  ASSUME NEW c \in Cfs, NEW t, NEW X
  PROVE  /\ Fewer(c, c) /\ Fewer(MkTarget(c, t), c)
         /\ Fewer(WithoutPortals(c, t, X), c)
         /\ Fewer(WithoutLinks(c, t, X), c)
         /\ Fewer(WithoutLuns(c, t, X), c)
         /\ \A d \in MadeSoFar(c, t) : Fewer(d, c)
<1>1. Fewer(c, c) /\ Fewer(MkTarget(c, t), c)
  BY DEF Fewer, MkTarget, Cfs
<1>2. Fewer(WithoutPortals(c, t, X), c)
  BY DEF Fewer, WithoutPortals, Cfs
<1>3. Fewer(WithoutLinks(c, t, X), c)
  BY DEF Fewer, WithoutLinks, Cfs
<1>4. Fewer(WithoutLuns(c, t, X), c)
  BY DEF Fewer, WithoutLuns, WithoutLinks, Cfs
<1>5. Fewer([c EXCEPT !.iqns = @ \cup {t.name}], c)
  BY DEF Fewer, Cfs
<1> QED BY <1>1, <1>2, <1>3, <1>4, <1>5 DEF MadeSoFar

\* Fewer of fewer is fewer.
LEMMA FewerTransitive ==
  ASSUME NEW c, NEW d, NEW e, Fewer(d, c), Fewer(e, d)
  PROVE  Fewer(e, c)
BY DEF Fewer

\* The configuration of an outcome.
LEMMA OutcomeIs ==
  ASSUME NEW c
  PROVE  Done(c).c = c /\ Refused(c).c = c /\ Broken(c).c = c
BY DEF Done, Refused, Broken

\* DeleteTarget removes links, never a backstore, wherever it stops.
LEMMA DeleteTargetFewer ==
  ASSUME NEW c \in Cfs, NEW t, NEW r \in DeleteTarget(c, t)
  PROVE  Fewer(r.c, c)
<1> DEFINE bare == WithoutLuns(WithoutPortals(c, t, Portals), t, Ids)
           gone == [bare EXCEPT !.tpgs = @ \ {t}]
<1>1. \A X, Y : Fewer(WithoutLuns(WithoutPortals(c, t, X), t, Y), c)
  <2>1. TAKE X, Y
  <2>2. WithoutPortals(c, t, X) \in Cfs
    BY WithoutTypes
  <2> QED BY <2>2, PartsFewer, FewerTransitive
<1>2. \A X, Y, Z : Fewer(WithoutLinks(WithoutLuns(WithoutPortals(c, t, X), t, Y), t, Z), c)
  <2>1. TAKE X, Y, Z
  <2>2. WithoutLuns(WithoutPortals(c, t, X), t, Y) \in Cfs
    BY WithoutTypes
  <2> QED BY <1>1, <2>2, PartsFewer, FewerTransitive
<1>3. bare \in Cfs
  BY WithoutTypes
<1>4. Fewer(gone, c) /\ gone \in Cfs
  <2>1. Fewer(bare, c)
    BY <1>1
  <2> HIDE DEF bare
  <2> QED BY <1>3, <2>1 DEF Fewer, Cfs
<1>5. Fewer([gone EXCEPT !.iqns = @ \ {t.name}], c)
  <2> HIDE DEF gone
  <2> QED BY <1>4 DEF Fewer, Cfs
<1>6. CASE r \in {Refused(gone), Done([gone EXCEPT !.iqns = @ \ {t.name}])}
  <2> HIDE DEF gone
  <2> QED BY <1>6, <1>4, <1>5, OutcomeIs
<1>7. CASE \E P : r = Broken(WithoutPortals(c, t, P))
  BY <1>7, PartsFewer, OutcomeIs
<1>8. CASE \E L : r = Broken(WithoutLuns(WithoutPortals(c, t, Portals), t, L))
  BY <1>8, <1>1, OutcomeIs
<1>9. CASE \E L, Z : r = Broken(WithoutLinks(WithoutLuns(WithoutPortals(c, t, Portals), t, L), t, Z))
  BY <1>9, <1>2, OutcomeIs
<1>10. CASE r = Broken(gone)
  <2> HIDE DEF gone
  <2> QED BY <1>10, <1>4, OutcomeIs
<1> QED BY <1>6, <1>7, <1>8, <1>9, <1>10, DeleteTargetCases

\* The operations on targets, portals and one LUN remove no backstore.
LEMMA TargetOpsFewer ==
  ASSUME NEW c \in Cfs, NEW t, NEW l, NEW p
  PROVE  /\ \A r \in UpsertTarget(c, t) : Fewer(r.c, c)
         /\ \A r \in DeleteZeroTarget(c) : Fewer(r.c, c)
         /\ t \in Target => \A r \in UpsertOnlyPortal(c, t, p) : Fewer(r.c, c)
         /\ \A r \in DeleteLUN(c, t, l) : Fewer(r.c, c)
<1>1. ASSUME NEW r \in UpsertTarget(c, t) PROVE Fewer(r.c, c)
  <2>1. \/ r = Done(MkTarget(c, t))
        \/ \E d \in MadeSoFar(c, t) : r = Broken(d)
    BY <1>1 DEF UpsertTarget
  <2> QED BY <2>1, PartsFewer, OutcomeIs
<1>2. ASSUME NEW r \in DeleteZeroTarget(c) PROVE Fewer(r.c, c)
  BY <1>2, PartsFewer, OutcomeIs DEF DeleteZeroTarget
<1>3. ASSUME t \in Target, NEW r \in UpsertOnlyPortal(c, t, p) PROVE Fewer(r.c, c)
  <2> DEFINE d == WithoutPortals(MkTarget(c, t), t, Portals \ {p})
             e == [d EXCEPT !.portals = @ \cup {<<t, p>>}]
  <2>1. MkTarget(c, t) \in Cfs
    BY <1>3, MkTargetType
  <2>2. d \in Cfs /\ Fewer(d, c)
    BY <2>1, WithoutTypes, PartsFewer, FewerTransitive
  <2>3. Fewer(e, c)
    <3> HIDE DEF d
    <3> QED BY <2>2 DEF Fewer, Cfs
  <2>4. r = Done(e) \/ \E P : r = Broken(WithoutPortals(c, t, P))
    BY <1>3 DEF UpsertOnlyPortal
  <2> HIDE DEF e
  <2> QED BY <2>3, <2>4, PartsFewer, OutcomeIs
<1>4. ASSUME NEW r \in DeleteLUN(c, t, l) PROVE Fewer(r.c, c)
  BY <1>4, PartsFewer, OutcomeIs DEF DeleteLUN
<1> QED BY <1>1, <1>2, <1>3, <1>4

\* So they keep links backed.
LEMMA TargetOpsBacked ==
  ASSUME NEW c \in Cfs, NEW t, NEW l, NEW p, Backed(c)
  PROVE  /\ \A r \in UpsertTarget(c, t) \cup DeleteZeroTarget(c) : Backed(r.c)
         /\ t \in Target => \A r \in UpsertOnlyPortal(c, t, p) : Backed(r.c)
         /\ \A r \in DeleteLUN(c, t, l) : Backed(r.c)
         /\ \A r \in DeleteTarget(c, t) : Backed(r.c)
BY TargetOpsFewer, DeleteTargetFewer, FewerBacked

\* UpsertLUN links a backstore only if that is there and enabled.
LEMMA UpsertLUNBacked ==
  ASSUME NEW c \in Cfs, NEW t \in Target, NEW l \in Ids, NEW i \in Ids, NEW n \in Names,
         NEW r \in UpsertLUN(c, t, l, i, n), Backed(c)
  PROVE  Backed(r.c)
<1> DEFINE m == MkTarget(c, t)
           made == [m EXCEPT !.luns = @ \cup {<<t, l>>}]
           linked == [made EXCEPT !.links = @ \cup {<<t, l, i, n>>}]
<1>1. Fewer(made, c) /\ made \in Cfs
  <2>1. m \in Cfs /\ Fewer(m, c)
    BY MkTargetType, PartsFewer
  <2> HIDE DEF m
  <2> QED BY <2>1 DEF Fewer, Cfs
<1>2. Backed(made)
  BY <1>1, FewerBacked
<1>3. Enabled(c, i, n) => Backed(linked)
  <2> HIDE DEF made
  <2>1. linked.links = made.links \cup {<<t, l, i, n>>} /\ linked.stores = made.stores
    BY <1>1 DEF Cfs
  <2> HIDE DEF linked
  <2> QED BY <1>1, <1>2, <2>1 DEF Backed, Enabled, Fewer
<1>4. \/ r \in {Done(made), Refused(made), Broken(made)}
      \/ r = Done(linked) /\ Enabled(c, i, n)
      \/ \E d \in MadeSoFar(c, t) : r = Broken(d)
  BY DEF UpsertLUN
<1>5. \A d \in MadeSoFar(c, t) : Backed(d)
  BY PartsFewer, FewerBacked
<1> HIDE DEF made, linked
<1> QED BY <1>2, <1>3, <1>4, <1>5, OutcomeIs

\* DeleteBackstore leaves those that a LUN links; when it succeeds the HBA has
\* none left.
LEMMA DeleteBackstoreBacked ==
  ASSUME NEW c \in Cfs, NEW i, NEW r \in DeleteBackstore(c, i), Backed(c)
  PROVE  /\ Backed(r.c)
         /\ r.ok => \A s \in r.c.stores : s.id # i
<1> DEFINE all == NamesOf(c, i)
           linked == LinkedNames(c, i)
           upTo(n) == {x \in all : x < n}
<1>1. linked \subseteq all /\ all \subseteq Nat
  <2>1. \A s \in c.stores : s.name \in Nat
    BY LioAssumption DEF Cfs, Store
  <2> QED BY <2>1 DEF LinkedNames, NamesOf
<1>2. ASSUME NEW X, X \cap linked = {} PROVE Backed(WithoutStores(c, i, X))
  <2> DEFINE d == WithoutStores(c, i, X)
  <2>1. d.links = c.links /\ d.stores = {s \in c.stores : s.id # i \/ s.name \notin X}
    BY DEF WithoutStores, Cfs
  <2>2. ASSUME NEW k \in c.links PROVE Enabled(d, k[3], k[4])
    <3>1. PICK s \in c.stores : s.id = k[3] /\ s.name = k[4] /\ s.path # NoPath
      BY DEF Backed, Enabled
    <3>2. s.id = i => s.name \in linked
      BY <3>1 DEF LinkedNames, NamesOf
    <3>3. s \in d.stores
      BY <3>2, <2>1, <1>2
    <3> QED BY <3>1, <3>3 DEF Enabled
  <2> QED BY <2>1, <2>2 DEF Backed
<1>3. linked # {} => upTo(Min(linked)) \cap linked = {}
  <2> HIDE DEF linked, all
  <2> SUFFICES ASSUME linked # {}, NEW x \in linked, x < Min(linked) PROVE FALSE
    OBVIOUS
  <2>1. Min(linked) \in linked /\ Min(linked) <= x
    BY <1>1, MinIn
  <2>2. x \in Nat /\ Min(linked) \in Nat
    BY <1>1, <2>1
  <2> QED BY <2>1, <2>2
<1>4. \/ linked = {} /\ r = Done(WithoutStores(c, i, all))
      \/ linked # {} /\ r = Refused(WithoutStores(c, i, upTo(Min(linked))))
      \/ \E N \in SUBSET (all \ linked) : r = Broken(WithoutStores(c, i, N))
  BY DEF DeleteBackstore
<1>5. \A s \in WithoutStores(c, i, all).stores : s.id # i
  BY DEF WithoutStores, NamesOf, Cfs
<1>6. CASE linked = {} /\ r = Done(WithoutStores(c, i, all))
  <2> HIDE DEF linked, all
  <2> QED BY <1>2, <1>5, <1>6, OutcomeIs
<1>7. CASE linked # {} /\ r = Refused(WithoutStores(c, i, upTo(Min(linked))))
  <2>1. ~r.ok /\ Backed(r.c)
    <3> HIDE DEF linked, upTo
    <3> QED BY <1>2, <1>3, <1>7, OutcomeIs DEF Refused
  <2> QED BY <2>1
<1>8. CASE \E N \in SUBSET (all \ linked) : r = Broken(WithoutStores(c, i, N))
  <2> HIDE DEF linked, all
  <2> QED BY <1>2, <1>8, OutcomeIs DEF Broken
<1> QED BY <1>4, <1>6, <1>7, <1>8

\* UpsertBackstore puts a backstore of the same id and name for the one it has
\* found, enabled if that was.
LEMMA UpsertBackstoreEnabled ==
  ASSUME NEW c \in Cfs, NEW i, NEW n, NEW q, NEW z,
         NEW r \in UpsertBackstore(c, i, n, q, z), NEW j, NEW m, Enabled(c, j, m)
  PROVE  Enabled(r.c, j, m)
<1> DEFINE old == {s \in c.stores : s.id = i /\ s.name = n}
           opened == old \cap {s \in old : s.path # NoPath}
           with(s) == [c EXCEPT !.stores = (@ \ old) \cup {s}]
           new(p, y) == [id |-> i, name |-> n, path |-> p, size |-> y]
<1>1. PICK b \in c.stores : b.id = j /\ b.name = m /\ b.path # NoPath
  BY DEF Enabled
<1>2. \A s : with(s).stores = (c.stores \ old) \cup {s}
  <2> HIDE DEF old
  <2> QED BY DEF Cfs
<1>3. \A p, y : new(p, y).id = i /\ new(p, y).name = n /\ new(p, y).path = p
  OBVIOUS
<1>4. ASSUME NEW p, NEW y, opened # {} => p # NoPath PROVE Enabled(with(new(p, y)), j, m)
  <2>1. CASE b \in old
    <3>1. b \in opened
      BY <1>1, <2>1
    <3>2. new(p, y).id = j /\ new(p, y).name = m /\ new(p, y).path # NoPath
      BY <1>1, <1>3, <1>4, <2>1, <3>1
    <3>3. new(p, y) \in with(new(p, y)).stores
      BY <1>2
    <3> HIDE DEF with, new
    <3> QED BY <3>2, <3>3 DEF Enabled
  <2>2. CASE b \notin old
    <3>1. b \in with(new(p, y)).stores
      BY <1>2, <2>2
    <3> HIDE DEF with, new
    <3> QED BY <1>1, <3>1 DEF Enabled
  <2> QED BY <2>1, <2>2
<1>5. CASE opened = {}
  <2>1. \/ r = Broken(c)
        \/ \E p, y : r \in {Done(with(new(p, y))), Broken(with(new(p, y)))}
    BY <1>5 DEF UpsertBackstore
  <2> HIDE DEF with, new, opened
  <2> QED BY <1>4, <1>5, <2>1, OutcomeIs
<1>6. CASE opened # {}
  <2>1. \/ r = Broken(c)
        \/ \E s \in opened : \E y : r \in {Done(with(new(s.path, y))), Broken(with(new(s.path, y)))}
    BY <1>6 DEF UpsertBackstore
  <2>2. \A s \in opened : s.path # NoPath
    OBVIOUS
  <2> HIDE DEF with, new, opened
  <2> QED BY <1>4, <2>1, <2>2, OutcomeIs
<1> QED BY <1>5, <1>6

\* It changes nothing but backstores, nor does DeleteBackstore.
LEMMA StoresOnly ==
  ASSUME NEW c \in Cfs, NEW i, NEW n, NEW q, NEW z
  PROVE  \A r \in DeleteBackstore(c, i) \cup UpsertBackstore(c, i, n, q, z) :
            /\ r.c.links = c.links /\ r.c.luns = c.luns
            /\ r.c.tpgs = c.tpgs /\ r.c.portals = c.portals
<1>1. \A X : \E S : WithoutStores(c, i, X) = [c EXCEPT !.stores = S]
  BY DEF WithoutStores
<1>2. \A r \in DeleteBackstore(c, i) : \E S : r.c = [c EXCEPT !.stores = S]
  <2>1. TAKE r \in DeleteBackstore(c, i)
  <2>2. PICK X : r \in {Done(WithoutStores(c, i, X)), Refused(WithoutStores(c, i, X)),
                        Broken(WithoutStores(c, i, X))}
    BY DEF DeleteBackstore
  <2>3. r.c = WithoutStores(c, i, X)
    BY <2>2, OutcomeIs
  <2>4. PICK S : WithoutStores(c, i, X) = [c EXCEPT !.stores = S]
    BY <1>1
  <2> QED BY <2>3, <2>4
<1>3. \A r \in UpsertBackstore(c, i, n, q, z) : r.c = c \/ \E S : r.c = [c EXCEPT !.stores = S]
  <2>1. TAKE r \in UpsertBackstore(c, i, n, q, z)
  <2> DEFINE with(s) == [c EXCEPT !.stores =
                           (@ \ {x \in c.stores : x.id = i /\ x.name = n}) \cup {s}]
  <2>2. r = Broken(c) \/ \E s : r = Done(with(s)) \/ r = Broken(with(s))
    BY DEF UpsertBackstore
  <2>3. \A s : \E S : with(s) = [c EXCEPT !.stores = S]
    OBVIOUS
  <2> HIDE DEF with
  <2>4. CASE r = Broken(c)
    BY <2>4, OutcomeIs
  <2>5. ASSUME NEW s, r = Done(with(s)) \/ r = Broken(with(s))
        PROVE  \E S : r.c = [c EXCEPT !.stores = S]
    <3>1. r.c = with(s)
      BY <2>5, OutcomeIs
    <3>2. PICK S : with(s) = [c EXCEPT !.stores = S]
      BY <2>3
    <3> QED BY <3>1, <3>2
  <2> QED BY <2>2, <2>4, <2>5
<1>4. ASSUME NEW d, NEW S, d = [c EXCEPT !.stores = S]
      PROVE  /\ d.links = c.links /\ d.luns = c.luns
             /\ d.tpgs = c.tpgs /\ d.portals = c.portals
  BY <1>4 DEF Cfs
<1> QED BY <1>2, <1>3, <1>4

\* So links stay backed.
LEMMA UpsertBackstoreBacked ==
  ASSUME NEW c \in Cfs, NEW i, NEW n, NEW q, NEW z,
         NEW r \in UpsertBackstore(c, i, n, q, z), Backed(c)
  PROVE  Backed(r.c)
BY UpsertBackstoreEnabled, StoresOnly DEF Backed

\* DeleteVolume takes the path of an image from the backstores that have it open,
\* and leaves them what they are otherwise.
LEMMA FileStep ==
  ASSUME IInv, NEW h \in Handlers, DeleteVolumeFile(h)
  PROVE  /\ cfs'.links = cfs.links /\ cfs'.luns = cfs.luns
         /\ cfs'.tpgs = cfs.tpgs /\ cfs'.portals = cfs.portals
         /\ \A i, n : Enabled(cfs', i, n) <=> Enabled(cfs, i, n)
         /\ \A i : NamesOf(cfs', i) = NamesOf(cfs, i)
         /\ \A i : (\E s \in cfs'.stores : s.id = i) <=> \E s \in cfs.stores : s.id = i
         /\ \A t \in cfs'.stores : \E s \in cfs.stores :
              t.id = s.id /\ t.name = s.name /\ t.path \in {s.path, Unlinked}
<1> DEFINE p == call[h].pool
           v == call[h].vol
           q == PathOf(st, p, v)
<1>1. cfs \in Cfs /\ st \in State /\ p \in Ids /\ v \in Ids
  BY DEF IInv, TypeOK, Call
<1>2. cfs' = cfs \/ (HasVolume(st, p, v) /\ cfs' = Unlink(cfs, q))
  BY DEF DeleteVolumeFile, DeleteDiskFile
<1>3. HasVolume(st, p, v) => q \in Paths
  BY <1>1, VolumeType DEF IInv, DurableOK, WellNumbered
<1> HIDE DEF q
<1>4. CASE cfs' = cfs
  BY <1>4
<1>5. CASE HasVolume(st, p, v) /\ cfs' = Unlink(cfs, q)
  <2>1. /\ cfs'.links = cfs.links /\ cfs'.luns = cfs.luns
        /\ cfs'.tpgs = cfs.tpgs /\ cfs'.portals = cfs.portals
    BY <1>1, <1>3, <1>5, UnlinkFacts
  <2>2. /\ \A s \in cfs.stores : \E t \in cfs'.stores :
             /\ t.id = s.id /\ t.name = s.name /\ t.size = s.size
             /\ t.path = IF s.path = q THEN Unlinked ELSE s.path
        /\ \A t \in cfs'.stores : \E s \in cfs.stores :
             /\ t.id = s.id /\ t.name = s.name /\ t.size = s.size
             /\ t.path = IF s.path = q THEN Unlinked ELSE s.path
    <3> DEFINE d == Unlink(cfs, q)
    <3>1. q \in Paths
      BY <1>3, <1>5
    <3>2. \A s \in cfs.stores : \E t \in d.stores :
             /\ t.id = s.id /\ t.name = s.name /\ t.size = s.size
             /\ t.path = IF s.path = q THEN Unlinked ELSE s.path
      BY <1>1, <3>1, UnlinkFacts
    <3>3. \A t \in d.stores : \E s \in cfs.stores :
             /\ t.id = s.id /\ t.name = s.name /\ t.size = s.size
             /\ t.path = IF s.path = q THEN Unlinked ELSE s.path
      BY <1>1, <3>1, UnlinkFacts
    <3>4. cfs'.stores = d.stores
      BY <1>5
    <3> HIDE DEF d
    <3> QED BY <3>2, <3>3, <3>4
  <2>4. q # NoPath /\ Unlinked # NoPath
    BY <1>3, <1>5 DEF NoPath, Unlinked
  <2>5. \A i, n : Enabled(cfs', i, n) <=> Enabled(cfs, i, n)
    BY <2>2, <2>4 DEF Enabled
  <2>6. \A i : NamesOf(cfs', i) = NamesOf(cfs, i)
    BY <2>2 DEF NamesOf
  <2> QED BY <2>1, <2>2, <2>5, <2>6
<1> QED BY <1>2, <1>4, <1>5

-----------------------------------------------------------------------------
(* The steps of Sigma keep links backed                                    *)

\* A kernel call of ReconcileAll.
LEMMA ApplyBacked ==
  ASSUME NEW outcomes, NEW r, Apply(outcomes, r), \A o \in outcomes : Backed(o.c)
  PROVE  Backed(cfs')
BY DEF Apply

\* What a reconcile step passes to the kernel is of the state.
LEMMA ReconcileTypes ==
  ASSUME IInv
  PROVE  /\ cfs \in Cfs /\ rec \in Rec
         /\ rec.pc \in {"portals", "luns"} => TargetOf(st, rec.pool) \in Target
         /\ rec.pc \in {"store", "lun"} =>
              /\ TargetOf(st, rec.pool) \in Target /\ rec.vol \in Ids
              /\ st.vols[<<rec.pool, rec.vol>>].name \in Names
<1>1. cfs \in Cfs /\ rec \in Rec /\ st \in State
  BY DEF IInv, TypeOK
<1>2. rec.pool \in Ids /\ rec.vol \in Ids
  BY <1>1 DEF Rec
<1>3. rec.pc \in {"portals", "luns"} => HasPool(st, rec.pool)
  BY DEF IInv, RecOK
<1>4. rec.pc \in {"store", "lun"} =>
         HasVolume(st, rec.pool, rec.vol) /\ HasPool(st, rec.pool)
  BY <1>2 DEF IInv, RecOK, DurableOK, WellNumbered
<1> QED BY <1>1, <1>2, <1>3, <1>4, TargetType, VolumeType

\* Every step of ReconcileAll keeps links backed.
LEMMA ReconcileBacked == ASSUME IInv, Backed(cfs), Reconcile PROVE Backed(cfs')
<1>1. cfs \in Cfs
  BY ReconcileTypes
<1>2. CASE ReconcileTargets
  <2>1. ASSUME NEW t, Apply(DeleteTarget(cfs, t), rec) PROVE Backed(cfs')
    BY <1>1, <2>1, TargetOpsBacked, ApplyBacked
  <2> QED BY <1>2, <2>1 DEF ReconcileTargets
<1>3. CASE ReconcilePool
  <2>1. ASSUME NEW t, NEW r, Apply(UpsertTarget(cfs, t), r) PROVE Backed(cfs')
    BY <1>1, <2>1, TargetOpsBacked, ApplyBacked
  <2> QED BY <1>3, <2>1 DEF ReconcilePool
<1>4. CASE ReconcilePortals
  <2>1. TargetOf(st, rec.pool) \in Target
    BY <1>4, ReconcileTypes DEF ReconcilePortals
  <2>2. \A o \in UpsertOnlyPortal(cfs, TargetOf(st, rec.pool), portal) : Backed(o.c)
    BY <1>1, <2>1, TargetOpsBacked
  <2> QED BY <1>4, <2>2, ApplyBacked DEF ReconcilePortals
<1>5. CASE ReconcileLUNs
  <2>1. ASSUME NEW t, NEW l, Apply(DeleteLUN(cfs, t, l), rec) PROVE Backed(cfs')
    BY <1>1, <2>1, TargetOpsBacked, ApplyBacked
  <2> QED BY <1>5, <2>1 DEF ReconcileLUNs
<1>6. CASE ReconcileVolume
  BY <1>6 DEF ReconcileVolume
<1>7. CASE ReconcileStore
  <2>1. ASSUME NEW i, NEW n, NEW q, NEW z, NEW r, Apply(UpsertBackstore(cfs, i, n, q, z), r)
        PROVE  Backed(cfs')
    BY <1>1, <2>1, UpsertBackstoreBacked, ApplyBacked
  <2> QED BY <1>7, <2>1 DEF ReconcileStore
<1>8. CASE ReconcileLun
  <2> DEFINE t == TargetOf(st, rec.pool)
             n == st.vols[<<rec.pool, rec.vol>>].name
  <2>1. t \in Target /\ rec.vol \in Ids /\ n \in Names
    BY <1>8, ReconcileTypes DEF ReconcileLun
  <2>2. \E r : Apply(UpsertLUN(cfs, t, rec.vol, rec.vol, n), r)
    BY <1>8 DEF ReconcileLun
  <2> HIDE DEF t, n
  <2> QED BY <1>1, <2>1, <2>2, UpsertLUNBacked, ApplyBacked
<1>9. CASE ReconcileBackstores
  <2>1. ASSUME NEW i, Apply(DeleteBackstore(cfs, i), rec) PROVE Backed(cfs')
    BY <1>1, <2>1, DeleteBackstoreBacked, ApplyBacked
  <2> QED BY <1>9, <2>1 DEF ReconcileBackstores
<1> QED BY <1>2, <1>3, <1>4, <1>5, <1>6, <1>7, <1>8, <1>9 DEF Reconcile

\* Every step of a handler keeps links backed.
LEMMA HandleBacked == ASSUME IInv, Backed(cfs), NEW h \in Handlers, Handle(h) PROVE Backed(cfs')
<1> DEFINE c == call[h]
<1>1. cfs \in Cfs /\ c \in Call
  BY DEF IInv, TypeOK
<1>2. CASE Arrive(h)
  <2>1. UNCHANGED cfs
    BY <1>2 DEF Arrive, CreatePool, DeletePool, CreateVolume, DeleteVolume, Enter
  <2> QED BY <2>1
<1>3. CASE CreatePoolLocked(h)
  <2>1. UNCHANGED cfs \/ \E t : \E r \in UpsertTarget(cfs, t) : cfs' = r.c
    BY <1>3 DEF CreatePoolLocked
  <2> QED BY <1>1, <2>1, TargetOpsBacked
<1>4. CASE DeletePoolLocked(h)
  <2>1. \/ \E r \in DeleteZeroTarget(cfs) : cfs' = r.c
        \/ \E r \in DeleteTarget(cfs, c.target) : cfs' = r.c
    BY <1>4 DEF DeletePoolLocked
  <2> QED BY <1>1, <2>1, TargetOpsBacked
<1>5. CASE DeleteVolumeLocked(h)
  <2>1. \E r \in DeleteLUN(cfs, c.target, c.vol) : cfs' = r.c
    BY <1>5 DEF DeleteVolumeLocked
  <2>2. \A t, l : \A r \in DeleteLUN(cfs, t, l) : Backed(r.c)
    BY <1>1, TargetOpsBacked
  <2> QED BY <2>1, <2>2
<1>6. CASE CreateVolumeStore(h)
  <2>1. \E q : \E r \in UpsertBackstore(cfs, c.vol, c.name, q, 0) : cfs' = r.c
    BY <1>6 DEF CreateVolumeStore
  <2> QED BY <1>1, <2>1, UpsertBackstoreBacked
<1>7. CASE CreateVolumeLun(h)
  <2>1. c.op = "CreateVolume" /\ c.pc = "lun" /\ st \in State
    BY <1>7 DEF CreateVolumeLun, Holds, At, IInv, TypeOK
  <2>2. c.pool \in Ids /\ c.vol \in Ids /\ c.name \in Names /\ HasPool(st, c.pool)
    BY <1>1, <2>1 DEF IInv, CallsOK, Call
  <2>3. TargetOf(st, c.pool) \in Target
    BY <2>1, <2>2, TargetType
  <2>4. \E r \in UpsertLUN(cfs, TargetOf(st, c.pool), c.vol, c.vol, c.name) : cfs' = r.c
    BY <1>7 DEF CreateVolumeLun
  <2> HIDE DEF c
  <2> QED BY <1>1, <2>2, <2>3, <2>4, UpsertLUNBacked
<1>8. CASE DeleteVolumeStore(h)
  <2>1. \E r \in DeleteBackstore(cfs, c.vol) : cfs' = r.c
    BY <1>8 DEF DeleteVolumeStore
  <2> QED BY <1>1, <2>1, DeleteBackstoreBacked
<1>9. CASE SaveOpen(h) \/ SaveWrite(h)
  BY <1>9 DEF SaveOpen, SaveWrite
<1>10. CASE DeleteVolumeFile(h)
  BY <1>10, FileStep DEF Backed
<1> QED BY <1>2, <1>3, <1>4, <1>5, <1>6, <1>7, <1>8, <1>9, <1>10 DEF Handle, Lock, Work

\* Every step keeps links backed; a restart of the machine leaves none.
LEMMA NextBacked == ASSUME IInv, Backed(cfs), [Next]_vars PROVE Backed(cfs')
<1>1. CASE Reboot
  BY <1>1 DEF Reboot, EmptyCfs, Backed
<1>2. CASE ReconcileStart \/ ReconcileFails \/ Boot \/ BootSaveOpen \/ BootSaveWrite
           \/ Crash \/ ClientWrites \/ UNCHANGED vars
  <2>1. UNCHANGED cfs
    BY <1>2 DEF ReconcileStart, ReconcileFails, Boot, BootSaveOpen, BootSaveWrite, Crash,
                ClientWrites, ClientWrite, vars
  <2> QED BY <2>1
<1> QED BY <1>1, <1>2, HandleBacked, ReconcileBacked DEF Next, ClientWrites

-----------------------------------------------------------------------------
(* What DeleteVolume has removed stays away until it answers               *)

\* Past its backstore, a DeleteVolume knows that the kernel has none of its id.
Removed(h) == (call[h].op = "DeleteVolume" /\ call[h].pc \in {"file", "save", "write"})
                 => \A s \in cfs.stores : s.id # call[h].vol

\* A CreateVolume that is not rejected goes on to its backstore.
LEMMA CreateVolumeCall ==
  ASSUME NEW h \in Handlers, CreateVolume(h)
  PROVE  \/ UNCHANGED call
         \/ \E x : call' = [call EXCEPT ![h] = x] /\ x.pc = "store" /\ x.op = "CreateVolume"
<1>1. PICK parg \in PoolArgs, varg \in VolArgs \cup {Absent},
           n \in NameArgs \cup {NoName}, z \in SizeArgs :
      LET p == Truncate(parg)
          v == IF varg = Absent THEN NextVolumeId(st, cfs) ELSE Truncate(varg)
          s == [st EXCEPT !.MaxLUNID = Max({@, v})]
          path == DiskPath[<<st.pools[p], VolumeName(v, n)>>]
      IN  /\ v # 0
          /\ st' = s
          /\ \/ /\ ~HasPool(st, p) \/ HasVolume(st, p, v)
                /\ Spend("requests", MaxRequests)
                /\ UNCHANGED <<disk, call, writer>>
             \/ /\ HasPool(st, p) /\ ~HasVolume(st, p, v)
                /\ \E r \in TouchDiskFile(disk, path, AsInt64(z)) :
                     /\ r.fault => budget.faults < MaxFaults
                     /\ budget' = [budget EXCEPT !.requests = @ + 1,
                                     !.faults = @ + IF r.fault THEN 1 ELSE 0]
                     /\ disk' = r.d
                     /\ IF r.ok
                        THEN /\ writer' = h
                             /\ call' = [call EXCEPT ![h] =
                                  [op |-> "CreateVolume", pc |-> "store", pool |-> p,
                                   vol |-> v, name |-> VolumeName(v, n),
                                   size |-> AsInt64(z), target |-> ZeroTarget]]
                        ELSE UNCHANGED <<call, writer>>
  BY DEF CreateVolume
<1> DEFINE v == IF varg = Absent THEN NextVolumeId(st, cfs) ELSE Truncate(varg)
           x == [op |-> "CreateVolume", pc |-> "store", pool |-> Truncate(parg), vol |-> v,
                 name |-> VolumeName(v, n), size |-> AsInt64(z), target |-> ZeroTarget]
<1>2. UNCHANGED call \/ call' = [call EXCEPT ![h] = x]
  BY <1>1
<1>3. x.pc = "store" /\ x.op = "CreateVolume"
  OBVIOUS
<1> HIDE DEF x
<1> QED BY <1>2, <1>3

\* A call that arrives waits for the lock, or goes on to its backstore; or it is
\* rejected and leaves no trace.
LEMMA ArrivalCall ==
  ASSUME NEW h \in Handlers, Arrive(h)
  PROVE  UNCHANGED call \/ \E x : call' = [call EXCEPT ![h] = x] /\ x.pc \in {"lock", "store"}
<1>1. ASSUME NEW op, NEW p, NEW v, NEW n, NEW t, Enter(h, op, p, v, n, t)
      PROVE  \E x : call' = [call EXCEPT ![h] = x] /\ x.pc \in {"lock", "store"}
  <2> DEFINE x == [op |-> op, pc |-> "lock", pool |-> p, vol |-> v, name |-> n, size |-> 0,
                   target |-> t]
  <2>1. call' = [call EXCEPT ![h] = x] /\ x.pc = "lock"
    BY <1>1 DEF Enter
  <2> HIDE DEF x
  <2> QED BY <2>1
<1>2. CASE CreatePool(h) \/ DeletePool(h) \/ DeleteVolume(h)
  <2>1. \E op, p, v, n, t : Enter(h, op, p, v, n, t)
    BY <1>2 DEF CreatePool, DeletePool, DeleteVolume
  <2> QED BY <1>1, <2>1
<1>3. CASE CreateVolume(h)
  BY <1>3, CreateVolumeCall
<1> QED BY <1>2, <1>3 DEF Arrive

\* StateMutex keeps everybody else from the kernel.
LEMMA OthersWait ==
  ASSUME IInv, NEW h \in Handlers, call[h].pc \in {"file", "save", "write"}
  PROVE  /\ writer = h /\ writer # Nobody /\ rec.pc = "idle"
         /\ \A g \in Handlers \ {h} : Handle(g) => UNCHANGED cfs
<1>1. writer = h /\ writer # Nobody /\ rec.pc = "idle"
  BY DEF IInv, LocksOK
<1>2. ASSUME NEW g \in Handlers \ {h}, Handle(g) PROVE UNCHANGED cfs
  <2>1. CASE Arrive(g)
    BY <2>1 DEF Arrive, CreatePool, DeletePool, CreateVolume, DeleteVolume, Enter
  <2>2. CASE Lock(g)
    BY <1>1, <2>2 DEF Lock, CreatePoolLocked, DeletePoolLocked, DeleteVolumeLocked, LockFree
  <2>3. CASE Work(g)
    BY <1>1, <2>3 DEF Work, CreateVolumeStore, CreateVolumeLun, DeleteVolumeStore,
                      DeleteVolumeFile, SaveOpen, SaveWrite, Holds
  <2> QED BY <1>2, <2>1, <2>2, <2>3 DEF Handle
<1> QED BY <1>1, <1>2

\* A step of the handler itself: only DeleteBackstore brings it past its
\* backstore, and then it has removed all of them.
LEMMA OwnStepRemoved ==
  ASSUME IInv, Backed(cfs), NEW h \in Handlers, Removed(h), Handle(h)
  PROVE  Removed(h)'
<1> DEFINE c == call[h]
<1>1. cfs \in Cfs /\ c \in Call /\ call \in [Handlers -> Call]
  BY DEF IInv, TypeOK
<1>2. CASE Arrive(h)
  <2>1. UNCHANGED call \/ \E x : call' = [call EXCEPT ![h] = x] /\ x.pc \in {"lock", "store"}
    BY <1>2, ArrivalCall
  <2>2. UNCHANGED cfs
    BY <1>2 DEF Arrive, CreatePool, DeletePool, CreateVolume, DeleteVolume, Enter
  <2>3. UNCHANGED call \/ call'[h].pc \in {"lock", "store"}
    BY <1>1, <2>1
  <2> QED BY <2>2, <2>3 DEF Removed
<1>3. CASE Return(h)
  BY <1>1, <1>3 DEF Return, IdleCall, Removed
<1>4. CASE (CreatePoolLocked(h) \/ DeletePoolLocked(h) \/ CreateVolumeStore(h)
            \/ CreateVolumeLun(h)) /\ ~Return(h)
  <2>1. c.op # "DeleteVolume" /\ \E pc : Continue(h, pc)
    BY <1>4 DEF CreatePoolLocked, DeletePoolLocked, CreateVolumeStore, CreateVolumeLun, Holds, At
  <2> QED BY <1>1, <2>1 DEF Continue, Removed
<1>5. CASE DeleteVolumeLocked(h) /\ ~Return(h)
  <2>1. Continue(h, "store")
    BY <1>5 DEF DeleteVolumeLocked
  <2> QED BY <1>1, <2>1 DEF Continue, Removed
<1>6. CASE DeleteVolumeStore(h) /\ ~Return(h)
  <2>1. PICK r \in DeleteBackstore(cfs, c.vol) :
          cfs' = r.c /\ IF r.ok THEN Continue(h, "file") ELSE Return(h)
    BY <1>6 DEF DeleteVolumeStore
  <2>2. \A s \in cfs'.stores : s.id # c.vol
    BY <1>1, <1>6, <2>1, DeleteBackstoreBacked
  <2>3. Continue(h, "file") /\ r.ok
    BY <1>6, <2>1
  <2>4. call'[h].vol = c.vol
    BY <1>1, <2>3 DEF Continue
  <2> QED BY <2>2, <2>4 DEF Removed
<1>7. CASE (DeleteVolumeFile(h) \/ SaveOpen(h) \/ SaveWrite(h)) /\ ~Return(h)
  <2>1. c.pc \in {"file", "save", "write"} /\ \E pc : Continue(h, pc)
    BY <1>7 DEF DeleteVolumeFile, SaveOpen, SaveWrite, Holds, At
  <2>2. call'[h].vol = c.vol /\ call'[h].op = c.op
    BY <1>1, <2>1 DEF Continue
  <2>3. \A i : (\E s \in cfs'.stores : s.id = i) => \E s \in cfs.stores : s.id = i
    <3>1. CASE DeleteVolumeFile(h)
      BY <3>1, FileStep
    <3>2. CASE SaveOpen(h) \/ SaveWrite(h)
      BY <3>2 DEF SaveOpen, SaveWrite
    <3> QED BY <1>7, <3>1, <3>2
  <2> QED BY <2>1, <2>2, <2>3 DEF Removed
<1> QED BY <1>2, <1>3, <1>4, <1>5, <1>6, <1>7 DEF Handle, Lock, Work

\* Past its arrival a call goes on or returns.
LEMMA WorkCall ==
  ASSUME NEW g \in Handlers, Lock(g) \/ Work(g)
  PROVE  Return(g) \/ \E pc : Continue(g, pc)
<1>1. CASE Lock(g)
  BY <1>1 DEF Lock, CreatePoolLocked, DeletePoolLocked, DeleteVolumeLocked
<1>2. CASE Work(g)
  BY <1>2 DEF Work, CreateVolumeStore, CreateVolumeLun, DeleteVolumeStore,
              DeleteVolumeFile, SaveOpen, SaveWrite
<1> QED BY <1>1, <1>2

\* A handler changes no other's locals.
LEMMA HandlesItself ==
  ASSUME IInv, NEW g \in Handlers, NEW h \in Handlers \ {g}, Handle(g)
  PROVE  call'[h] = call[h]
<1>1. call \in [Handlers -> Call]
  BY DEF IInv, TypeOK
<1>2. CASE Arrive(g)
  BY <1>1, <1>2, ArrivalCall
<1>3. CASE Lock(g) \/ Work(g)
  BY <1>1, <1>3, WorkCall DEF Continue, Return
<1> QED BY <1>2, <1>3 DEF Handle

\* Every step keeps what was removed away.
LEMMA NextRemoved ==
  ASSUME IInv, Backed(cfs), [Next]_vars, NEW h \in Handlers, Removed(h)
  PROVE  Removed(h)'
<1>1. CASE Handle(h)
  BY <1>1, OwnStepRemoved
<1>2. ASSUME NEW g \in Handlers \ {h}, Handle(g) PROVE Removed(h)'
  <2>1. call'[h] = call[h]
    BY <1>2, HandlesItself
  <2>2. call[h].pc \in {"file", "save", "write"} => UNCHANGED cfs
    BY <1>2, OthersWait
  <2> QED BY <2>1, <2>2 DEF Removed
<1>3. CASE Reconcile \/ ReconcileFails
  <2>1. UNCHANGED call /\ rec.pc # "idle"
    BY <1>3 DEF Reconcile, ReconcileTargets, ReconcilePool, ReconcilePortals, ReconcileLUNs,
                ReconcileVolume, ReconcileStore, ReconcileLun, ReconcileBackstores,
                ReconcileFails
  <2>2. call[h].pc \notin {"file", "save", "write"}
    BY <2>1, OthersWait
  <2> QED BY <2>1, <2>2 DEF Removed
<1>4. CASE ReconcileStart \/ Boot \/ BootSaveOpen \/ BootSaveWrite \/ ClientWrites
           \/ UNCHANGED vars
  <2>1. UNCHANGED <<cfs, call>>
    BY <1>4 DEF ReconcileStart, Boot, BootSaveOpen, BootSaveWrite, ClientWrites, ClientWrite, vars
  <2> QED BY <2>1 DEF Removed
<1>5. CASE Crash \/ Reboot
  <2>1. call'[h] = IdleCall
    BY <1>5 DEF Crash, Reboot, Die
  <2> QED BY <2>1 DEF Removed, IdleCall
<1> QED BY <1>1, <1>2, <1>3, <1>4, <1>5 DEF Next, ClientWrites

-----------------------------------------------------------------------------
(* The theorems                                                            *)

LInv == IInv /\ Backed(cfs) /\ \A h \in Handlers : Removed(h)

\* Links are backed in every reachable state, and what a DeleteVolume has
\* removed is not there before it answers.
THEOREM LinkInvariance == Spec => []LInv
<1>1. Init => LInv
  <2>1. Init => Backed(cfs) /\ \A h \in Handlers : Removed(h)
    BY DEF Init, EmptyCfs, Backed, Removed, IdleCall
  <2> QED BY <2>1, InitIInv DEF LInv
<1>2. LInv /\ [Next]_vars => LInv'
  <2> SUFFICES ASSUME LInv, [Next]_vars PROVE LInv'
    OBVIOUS
  <2>1. IInv'
    BY NextIInv DEF LInv
  <2>2. Backed(cfs')
    BY NextBacked DEF LInv
  <2>3. \A h \in Handlers : Removed(h)'
    BY NextRemoved DEF LInv
  <2>4. Backed(cfs)' /\ (\A h \in Handlers : Removed(h))'
    BY <2>2, <2>3 DEF Backed
  <2> QED BY <2>1, <2>4 DEF LInv
<1> QED BY <1>1, <1>2, PTL DEF Spec

\* One above an id is an id or, cut to 16 bits, 0.
LEMMA TruncateNext ==
  ASSUME NEW m \in Ids
  PROVE  Truncate(m + 1) = 0 \/ Truncate(m + 1) = m + 1
<1>1. m \in Nat /\ MaxU16 \in Nat /\ m <= MaxU16
  BY LioAssumption DEF Ids
<1>2. CASE m = MaxU16
  BY <1>1, <1>2 DEF Truncate
<1>3. CASE m < MaxU16
  BY <1>1, <1>3 DEF Truncate
<1> QED BY <1>1, <1>2, <1>3

\* The id is 0, or above MaxLUNID and the ids of all backstores.
LEMMA NextVolumeIdAbove ==
  ASSUME NEW s \in State, NEW c \in Cfs, c.stores # {}
  PROVE  LET v == NextVolumeId(s, c)
         IN  v = 0 \/ (v > s.MaxLUNID /\ \A b \in c.stores : v > b.id)
<1> DEFINE ids == {b.id : b \in ListBackstores(c)}
           S == ids \cup {s.MaxLUNID}
<1>1. \A b \in c.stores : b.id \in ids
  <2> SUFFICES ASSUME NEW b \in c.stores PROVE b.id \in ids
    OBVIOUS
  <2> DEFINE e == [id |-> b.id, name |-> Max(NamesOf(c, b.id))]
  <2>1. e \in ListBackstores(c) /\ e.id = b.id
    BY DEF ListBackstores
  <2> HIDE DEF e
  <2> QED BY <2>1
<1>2. ids # {} /\ S \subseteq Ids /\ S # {} /\ s.MaxLUNID \in S
  <2>1. \A b \in ListBackstores(c) : b.id \in Ids
    BY DEF ListBackstores, Cfs, Store
  <2>2. s.MaxLUNID \in Ids
    BY DEF State
  <2> QED BY <1>1, <2>1, <2>2
<1>3. NextVolumeId(s, c) = Truncate(Max(S) + 1)
  BY <1>2 DEF NextVolumeId
<1>4. Max(S) \in Ids /\ \A y \in S : y <= Max(S)
  <2> HIDE DEF S
  <2>1. IsFiniteSet(S) /\ S \in SUBSET Nat
    BY <1>2, IdsNat, FS_Subset
  <2> QED BY <1>2, <2>1, MaxIn
<1>5. \A y \in S : Max(S) + 1 > y
  <2> HIDE DEF S
  <2>1. Max(S) \in Nat /\ \A y \in S : y \in Nat
    BY <1>2, <1>4, IdsNat
  <2> QED BY <1>4, <2>1
<1>6. \A b \in c.stores : b.id \in S
  BY <1>1
<1> HIDE DEF S, ids
<1> QED BY <1>2, <1>3, <1>4, <1>5, <1>6, TruncateNext

\* As long as the kernel has any backstore, a generated volume id is free: it is
\* above MaxLUNID, which every volume is below, and above every backstore, and
\* links go to backstores only.
THEOREM FreshIds == Spec => []NextVolumeIdIsFresh
<1>1. LInv => NextVolumeIdIsFresh
  <2> SUFFICES ASSUME LInv, cfs.stores # {}, NextVolumeId(st, cfs) # 0
               PROVE  /\ \A p \in Ids : ~HasVolume(st, p, NextVolumeId(st, cfs))
                      /\ \A s \in cfs.stores : s.id # NextVolumeId(st, cfs)
                      /\ \A k \in cfs.links : k[3] # NextVolumeId(st, cfs)
    BY DEF NextVolumeIdIsFresh
  <2> DEFINE v == NextVolumeId(st, cfs)
  <2>1. st \in State /\ cfs \in Cfs /\ v \in Ids
    BY NextVolumeIdType DEF LInv, IInv, TypeOK
  <2>2. v > st.MaxLUNID /\ \A s \in cfs.stores : v > s.id
    BY <2>1, NextVolumeIdAbove
  <2>3. v \in Nat /\ st.MaxLUNID \in Nat /\ \A s \in cfs.stores : s.id \in Nat
    <3>1. \A s \in cfs.stores : s.id \in Ids
      BY <2>1 DEF Cfs, Store
    <3> QED BY <2>1, <3>1, IdsNat DEF State
  <2> HIDE DEF v
  <2>4. \A s \in cfs.stores : s.id # v
    BY <2>2, <2>3
  <2>5. \A p \in Ids : ~HasVolume(st, p, v)
    BY <2>1, <2>2, <2>3 DEF LInv, IInv, DurableOK, WellNumbered
  <2>6. \A k \in cfs.links : k[3] # v
    BY <2>4 DEF LInv, Backed, Enabled
  <2> QED BY <2>4, <2>5, <2>6 DEF v
<1> QED BY <1>1, LinkInvariance, PTL

\* When DeleteVolume answers OK, no backstore of the id is left, and no LUN
\* links one: DeleteBackstore has removed them all, which the kernel allows only
\* when nothing links them, and StateMutex has kept everybody else away.
THEOREM DeletedIsGone == Spec => DeletedMeansGone
<1> DEFINE A == \A h \in Handlers :
          (call[h].op = "DeleteVolume" /\ call[h].pc = "write" /\ acked' # acked) =>
             /\ \A s \in cfs.stores : s.id # call[h].vol
             /\ \A k \in cfs.links : k[3] # call[h].vol
<1>1. LInv => A
  BY DEF LInv, Removed, Backed, Enabled
<1>2. LInv /\ [Next]_vars => [A]_vars
  BY <1>1
<1> HIDE DEF A
<1>3. Spec => [][A]_vars
  BY <1>2, LinkInvariance, PTL DEF Spec
<1> QED BY <1>3 DEF A, DeletedMeansGone

-----------------------------------------------------------------------------
\* The links that are lost from c to d are of target t, or of its LUN l.
LosesOf(c, d, t)     == \A k \in c.links \ d.links : k[1] = t
LosesAt(c, d, t, l)  == \A k \in c.links \ d.links : k[1] = t /\ k[2] = l
KeepsLinks(c, d)     == c.links \subseteq d.links

-----------------------------------------------------------------------------
(* What the kernel operations unlink                                       *)

\* Unlinking is local to a target; removing portals unlinks nothing.
LEMMA PartsLose ==
  ASSUME NEW c \in Cfs, NEW t, NEW X
  PROVE  /\ KeepsLinks(c, MkTarget(c, t))
         /\ KeepsLinks(c, WithoutPortals(c, t, X))
         /\ KeepsLinks(c, WithoutStores(c, t, X))
         /\ \A d \in MadeSoFar(c, t) : KeepsLinks(c, d)
         /\ LosesOf(c, WithoutLinks(c, t, X), t)
         /\ LosesOf(c, WithoutLuns(c, t, X), t)
         /\ \A l : LosesAt(c, WithoutLinks(c, t, {l}), t, l)
         /\ \A l : LosesAt(c, WithoutLuns(c, t, {l}), t, l)
<1>1. KeepsLinks(c, MkTarget(c, t)) /\ KeepsLinks(c, c)
  BY DEF KeepsLinks, MkTarget, Cfs
<1>2. KeepsLinks(c, [c EXCEPT !.iqns = @ \cup {t.name}])
  BY DEF KeepsLinks, Cfs
<1>3. KeepsLinks(c, WithoutPortals(c, t, X)) /\ KeepsLinks(c, WithoutStores(c, t, X))
  BY DEF KeepsLinks, WithoutPortals, WithoutStores, Cfs
<1>4. \A Y : /\ WithoutLinks(c, t, Y).links = {k \in c.links : k[1] # t \/ k[2] \notin Y}
             /\ WithoutLuns(c, t, Y).links = {k \in c.links : k[1] # t \/ k[2] \notin Y}
  BY DEF WithoutLuns, WithoutLinks, Cfs
<1> QED BY <1>1, <1>2, <1>3, <1>4 DEF MadeSoFar, LosesOf, LosesAt

\* DeleteTarget unlinks LUNs of its target only, wherever it stops.
LEMMA DeleteTargetLoses ==
  ASSUME NEW c \in Cfs, NEW t, NEW r \in DeleteTarget(c, t)
  PROVE  LosesOf(c, r.c, t)
<1> DEFINE bare == WithoutLuns(WithoutPortals(c, t, Portals), t, Ids)
           gone == [bare EXCEPT !.tpgs = @ \ {t}]
<1>1. \A X, Y : LosesOf(c, WithoutLuns(WithoutPortals(c, t, X), t, Y), t)
  <2>1. TAKE X, Y
  <2>2. WithoutPortals(c, t, X) \in Cfs /\ KeepsLinks(c, WithoutPortals(c, t, X))
    BY WithoutTypes, PartsLose
  <2>3. LosesOf(WithoutPortals(c, t, X), WithoutLuns(WithoutPortals(c, t, X), t, Y), t)
    BY <2>2, PartsLose
  <2> QED BY <2>2, <2>3 DEF KeepsLinks, LosesOf
<1>2. \A X, Y, Z : LosesOf(c, WithoutLinks(WithoutLuns(WithoutPortals(c, t, X), t, Y), t, Z), t)
  <2>1. TAKE X, Y, Z
  <2> DEFINE d == WithoutLuns(WithoutPortals(c, t, X), t, Y)
  <2>2. d \in Cfs /\ LosesOf(c, d, t)
    BY <1>1, WithoutTypes
  <2>3. LosesOf(d, WithoutLinks(d, t, Z), t)
    BY <2>2, PartsLose
  <2> QED BY <2>2, <2>3 DEF LosesOf
<1>3. bare \in Cfs /\ LosesOf(c, bare, t)
  BY <1>1, WithoutTypes
<1>4. gone \in Cfs /\ gone.links = bare.links
  <2> HIDE DEF bare
  <2> QED BY <1>3 DEF Cfs
<1>5. [gone EXCEPT !.iqns = @ \ {t.name}].links = gone.links
  <2> HIDE DEF gone
  <2> QED BY <1>4 DEF Cfs
<1>6. LosesOf(c, gone, t) /\ LosesOf(c, [gone EXCEPT !.iqns = @ \ {t.name}], t)
  <2> HIDE DEF gone, bare
  <2> QED BY <1>3, <1>4, <1>5 DEF LosesOf
<1>7. \A X : LosesOf(c, WithoutPortals(c, t, X), t)
  BY PartsLose DEF KeepsLinks, LosesOf
<1>8. CASE r \in {Refused(gone), Done([gone EXCEPT !.iqns = @ \ {t.name}])}
  <2> HIDE DEF gone
  <2> QED BY <1>6, <1>8, OutcomeIs
<1>9. CASE \E P : r = Broken(WithoutPortals(c, t, P))
  BY <1>7, <1>9, OutcomeIs
<1>10. CASE \E L : r = Broken(WithoutLuns(WithoutPortals(c, t, Portals), t, L))
  BY <1>1, <1>10, OutcomeIs
<1>11. CASE \E L, Z : r = Broken(WithoutLinks(WithoutLuns(WithoutPortals(c, t, Portals), t, L), t, Z))
  BY <1>11, <1>2, OutcomeIs
<1>12. CASE r = Broken(gone)
  <2> HIDE DEF gone
  <2> QED BY <1>6, <1>12, OutcomeIs
<1> QED BY <1>8, <1>9, <1>10, <1>11, <1>12, DeleteTargetCases

\* DeleteLUN unlinks its LUN only.
LEMMA DeleteLUNLoses ==
  ASSUME NEW c \in Cfs, NEW t, NEW l, NEW r \in DeleteLUN(c, t, l)
  PROVE  LosesAt(c, r.c, t, l)
<1>1. LosesAt(c, c, t, l)
  BY DEF LosesAt
<1> QED BY <1>1, PartsLose, OutcomeIs DEF DeleteLUN

\* The other operations unlink nothing.
LEMMA OthersKeep ==
  ASSUME NEW c \in Cfs, NEW t \in Target, NEW l, NEW i, NEW n, NEW q, NEW z
  PROVE  /\ \A r \in UpsertTarget(c, t) : KeepsLinks(c, r.c)
         /\ \A r \in UpsertOnlyPortal(c, t, q) : KeepsLinks(c, r.c)
         /\ \A r \in UpsertLUN(c, t, l, i, n) : KeepsLinks(c, r.c)
<1>1. \A r \in UpsertTarget(c, t) : KeepsLinks(c, r.c)
  BY PartsLose, OutcomeIs DEF UpsertTarget
<1>2. ASSUME NEW r \in UpsertOnlyPortal(c, t, q) PROVE KeepsLinks(c, r.c)
  <2> DEFINE d == WithoutPortals(MkTarget(c, t), t, Portals \ {q})
             e == [d EXCEPT !.portals = @ \cup {<<t, q>>}]
  <2>1. MkTarget(c, t) \in Cfs
    BY MkTargetType
  <2>2. d \in Cfs /\ KeepsLinks(c, d)
    BY <2>1, WithoutTypes, PartsLose DEF KeepsLinks
  <2>3. KeepsLinks(c, e)
    <3> HIDE DEF d
    <3> QED BY <2>2 DEF KeepsLinks, Cfs
  <2>4. r = Done(e) \/ \E P : r = Broken(WithoutPortals(c, t, P))
    BY <1>2 DEF UpsertOnlyPortal
  <2> HIDE DEF e
  <2> QED BY <2>3, <2>4, PartsLose, OutcomeIs
<1>3. ASSUME NEW r \in UpsertLUN(c, t, l, i, n) PROVE KeepsLinks(c, r.c)
  <2> DEFINE m == MkTarget(c, t)
             made == [m EXCEPT !.luns = @ \cup {<<t, l>>}]
             linked == [made EXCEPT !.links = @ \cup {<<t, l, i, n>>}]
  <2>1. KeepsLinks(c, made) /\ made.links = m.links
    <3>1. m \in Cfs /\ KeepsLinks(c, m)
      BY MkTargetType, PartsLose
    <3> HIDE DEF m
    <3> QED BY <3>1 DEF KeepsLinks, Cfs
  <2>2. linked.links = made.links \cup {<<t, l, i, n>>}
    BY DEF MkTarget, Cfs
  <2>3. KeepsLinks(c, linked)
    <3> HIDE DEF linked, made
    <3> QED BY <2>1, <2>2 DEF KeepsLinks
  <2>4. \/ r \in {Done(made), Refused(made), Broken(made), Done(linked)}
        \/ \E d \in MadeSoFar(c, t) : r = Broken(d)
    BY <1>3 DEF UpsertLUN
  <2> HIDE DEF linked, made
  <2> QED BY <2>1, <2>3, <2>4, PartsLose, OutcomeIs
<1> QED BY <1>1, <1>2, <1>3

-----------------------------------------------------------------------------
(* The target a call has listed                                            *)

\* The target DeletePool and DeleteVolume are to unlink has the id of the pool
\* they are about, whatever it has become of it since they listed it.
Aimed(c) == /\ c.op = "DeletePool" => c.target = ZeroTarget \/ c.target.id = c.pool
            /\ c.op = "DeleteVolume" => c.target.id = c.pool

\* A call is aimed from the start,
LEMMA ArrivalAimed ==
  ASSUME IInv, NEW h \in Handlers, Arrive(h), Aimed(call[h])
  PROVE  Aimed(call'[h])
<1>1. call \in [Handlers -> Call]
  BY DEF IInv, TypeOK
<1>2. ASSUME NEW op, NEW p, NEW v, NEW n, NEW t, Enter(h, op, p, v, n, t)
      PROVE  call'[h].op = op /\ call'[h].pool = p /\ call'[h].target = t
  BY <1>1, <1>2 DEF Enter
<1>3. CASE CreatePool(h)
  <2>1. \E p, v, n, t : Enter(h, "CreatePool", p, v, n, t)
    BY <1>3 DEF CreatePool
  <2> QED BY <1>2, <2>1 DEF Aimed
<1>4. CASE DeletePool(h)
  <2>1. \E p, v, n, x : \/ Enter(h, "DeletePool", p, v, n, ZeroTarget)
                        \/ Enter(h, "DeletePool", p, v, n, [id |-> p, name |-> x])
    BY <1>4 DEF DeletePool
  <2>2. \A p, x : [id |-> p, name |-> x].id = p
    OBVIOUS
  <2> QED BY <1>2, <2>1, <2>2 DEF Aimed
<1>5. CASE CreateVolume(h)
  <2>1. UNCHANGED call \/ call'[h].op = "CreateVolume"
    BY <1>1, <1>5, CreateVolumeCall
  <2> QED BY <2>1 DEF Aimed
<1>6. CASE DeleteVolume(h)
  <2>1. \E p, v, n, x : Enter(h, "DeleteVolume", p, v, n, [id |-> p, name |-> x])
    BY <1>6 DEF DeleteVolume
  <2>2. \A p, x : [id |-> p, name |-> x].id = p
    OBVIOUS
  <2> QED BY <1>2, <2>1, <2>2 DEF Aimed
<1> QED BY <1>3, <1>4, <1>5, <1>6 DEF Arrive

\* and stays so until it returns.
LEMMA NextAimed ==
  ASSUME IInv, [Next]_vars, NEW h \in Handlers, Aimed(call[h])
  PROVE  Aimed(call'[h])
<1>1. call \in [Handlers -> Call]
  BY DEF IInv, TypeOK
<1>2. Aimed(IdleCall)
  BY DEF Aimed, IdleCall
<1>3. CASE Arrive(h)
  BY <1>3, ArrivalAimed
<1>4. CASE Lock(h) \/ Work(h)
  <2>1. Return(h) \/ \E pc : Continue(h, pc)
    BY <1>4, WorkCall
  <2>2. CASE Return(h)
    BY <1>1, <1>2, <2>2 DEF Return
  <2>3. CASE \E pc : Continue(h, pc)
    <3>1. /\ call'[h].op = call[h].op /\ call'[h].pool = call[h].pool
          /\ call'[h].target = call[h].target
      BY <1>1, <2>3 DEF Continue, Call
    <3> QED BY <3>1 DEF Aimed
  <2> QED BY <2>1, <2>2, <2>3
<1>5. ASSUME NEW g \in Handlers \ {h}, Handle(g) PROVE Aimed(call'[h])
  BY <1>5, HandlesItself
<1>6. CASE Crash \/ Reboot
  <2>1. call'[h] = IdleCall
    BY <1>6 DEF Crash, Reboot, Die
  <2> QED BY <1>2, <2>1
<1>7. CASE ReconcileStart \/ Reconcile \/ ReconcileFails \/ Boot \/ BootSaveOpen
           \/ BootSaveWrite \/ ClientWrites \/ UNCHANGED vars
  <2>1. UNCHANGED call
    BY <1>7 DEF ReconcileStart, Reconcile, ReconcileTargets, ReconcilePool, ReconcilePortals,
                ReconcileLUNs, ReconcileVolume, ReconcileStore, ReconcileLun,
                ReconcileBackstores, ReconcileFails, Boot, BootSaveOpen, BootSaveWrite,
                ClientWrites, ClientWrite, vars
  <2> QED BY <2>1
<1> QED BY <1>3, <1>4, <1>5, <1>6, <1>7 DEF Next, ClientWrites, Handle

-----------------------------------------------------------------------------
(* Who unlinks a volume                                                    *)

\* The LUN of link k is a volume's of the state, on its pool's target.
Owned(k) == HasVolume(st, k[1].id, k[2]) /\ k[1] = TargetOf(st, k[1].id)

\* A call on the volume of k, or on its pool.
Owner(h, k) == /\ call[h].pool = k[1].id
               /\ \/ call[h].op = "DeletePool"
                  \/ call[h].op = "DeleteVolume" /\ call[h].vol = k[2]

\* ReconcileAll unlinks no volume of the state: a target it deletes is no
\* pool's, a LUN it deletes no volume's.
LEMMA ReconcileSpares ==
  ASSUME IInv, Reconcile, NEW k \in cfs.links \ cfs'.links
  PROVE  ~Owned(k)
<1>1. cfs \in Cfs /\ st \in State /\ rec \in Rec /\ k \in Target \X Ids \X Ids \X Names
  BY DEF IInv, TypeOK, Cfs
<1>2. \A t : TargetOf(st, t).id = t
  BY DEF TargetOf
<1>3. ASSUME NEW S, NEW r, Apply(S, r), \A o \in S : KeepsLinks(cfs, o.c) PROVE FALSE
  BY <1>3 DEF Apply, KeepsLinks
<1>4. CASE ReconcileTargets
  <2>1. PICK t \in StaleTargets : Apply(DeleteTarget(cfs, t), rec)
    BY <1>4 DEF ReconcileTargets
  <2>2. k[1] = t
    BY <1>1, <2>1, DeleteTargetLoses DEF Apply, LosesOf
  <2>3. ~HasPool(st, k[1].id)
    BY <2>2 DEF StaleTargets
  <2>4. k[1].id \in Ids /\ k[2] \in Ids
    BY <1>1 DEF Target
  <2> QED BY <2>3, <2>4 DEF Owned, IInv, DurableOK, WellNumbered
<1>5. CASE ReconcilePool
  <2>1. PICK p \in rec.pools : \E r : Apply(UpsertTarget(cfs, TargetOf(st, p)), r)
    BY <1>5 DEF ReconcilePool
  <2>2. p \in Ids /\ HasPool(st, p)
    BY <1>1, <1>5, <2>1 DEF ReconcilePool, IInv, RecOK, Rec
  <2>3. TargetOf(st, p) \in Target
    BY <1>1, <2>2, TargetType
  <2> QED BY <1>1, <1>3, <2>1, <2>3, OthersKeep
<1>6. CASE ReconcilePortals
  <2>1. \E r : Apply(UpsertOnlyPortal(cfs, TargetOf(st, rec.pool), portal), r)
    BY <1>6 DEF ReconcilePortals
  <2>2. TargetOf(st, rec.pool) \in Target
    BY <1>6, ReconcileTypes DEF ReconcilePortals
  <2> QED BY <1>1, <1>3, <2>1, <2>2, OthersKeep
<1>7. CASE ReconcileLUNs
  <2> DEFINE t == TargetOf(st, rec.pool)
  <2>1. PICK l \in StaleLUNs : Apply(DeleteLUN(cfs, t, l), rec)
    BY <1>7 DEF ReconcileLUNs
  <2>2. k[1] = t /\ k[2] = l
    <3> HIDE DEF t
    <3> QED BY <1>1, <2>1, DeleteLUNLoses DEF Apply, LosesAt
  <2>3. ~HasVolume(st, rec.pool, l)
    BY <2>1 DEF StaleLUNs
  <2> QED BY <1>2, <2>2, <2>3 DEF Owned
<1>8. CASE ReconcileVolume
  BY <1>8 DEF ReconcileVolume
<1>9. CASE ReconcileStore
  <2>1. \E i, n, q, z, r : Apply(UpsertBackstore(cfs, i, n, q, z), r)
    BY <1>9 DEF ReconcileStore
  <2> QED BY <1>1, <1>3, <2>1, StoresOnly DEF KeepsLinks
<1>10. CASE ReconcileLun
  <2>1. \E l, i, n, r : Apply(UpsertLUN(cfs, TargetOf(st, rec.pool), l, i, n), r)
    BY <1>10 DEF ReconcileLun
  <2>2. TargetOf(st, rec.pool) \in Target
    BY <1>10, ReconcileTypes DEF ReconcileLun
  <2> QED BY <1>1, <1>3, <2>1, <2>2, OthersKeep
<1>11. CASE ReconcileBackstores
  <2>1. \E i : Apply(DeleteBackstore(cfs, i), rec)
    BY <1>11 DEF ReconcileBackstores
  <2> QED BY <1>1, <1>3, <2>1, StoresOnly DEF KeepsLinks
<1> QED BY <1>4, <1>5, <1>6, <1>7, <1>8, <1>9, <1>10, <1>11 DEF Reconcile

\* A delete call that gets the lock goes on or returns.
LEMMA LockedCall ==
  ASSUME NEW h \in Handlers
  PROVE  /\ DeletePoolLocked(h) => Return(h) \/ Continue(h, "save")
         /\ DeleteVolumeLocked(h) => Return(h) \/ Continue(h, "store")
<1>1. ASSUME DeletePoolLocked(h) PROVE Return(h) \/ Continue(h, "save")
  BY <1>1 DEF DeletePoolLocked
<1>2. ASSUME DeleteVolumeLocked(h) PROVE Return(h) \/ Continue(h, "store")
  BY <1>2 DEF DeleteVolumeLocked
<1> QED BY <1>1, <1>2

\* A call unlinks volumes it is about, or of the pool it is about.
LEMMA HandleSpares ==
  ASSUME IInv, NEW h \in Handlers, Aimed(call[h]), Handle(h), NEW k \in cfs.links \ cfs'.links
  PROVE  Owner(h, k) /\ call'[h] # call[h]
<1> DEFINE c == call[h]
<1>1. cfs \in Cfs /\ st \in State /\ c \in Call /\ call \in [Handlers -> Call]
  BY DEF IInv, TypeOK
<1>2. CASE Arrive(h)
  BY <1>2 DEF Arrive, CreatePool, DeletePool, CreateVolume, DeleteVolume, Enter
<1>3. CASE CreatePoolLocked(h)
  <2> DEFINE t == [id |-> c.pool, name |-> PoolName(c)]
  <2>1. \E r \in UpsertTarget(cfs, t) : cfs' = r.c
    BY <1>3 DEF CreatePoolLocked
  <2>2. t \in Target
    BY <1>1 DEF Target, Call, PoolName
  <2> HIDE DEF t
  <2> QED BY <1>1, <2>1, <2>2, OthersKeep DEF KeepsLinks
<1>4. CASE DeletePoolLocked(h)
  <2>1. c.op = "DeletePool"
    BY <1>4 DEF DeletePoolLocked, At
  <2>2. \A r \in DeleteZeroTarget(cfs) : r.c = cfs
    BY OutcomeIs DEF DeleteZeroTarget
  <2>3. c.target # ZeroTarget /\ \E r \in DeleteTarget(cfs, c.target) : cfs' = r.c
    BY <1>4, <2>2 DEF DeletePoolLocked
  <2>4. k[1] = c.target
    BY <1>1, <2>3, DeleteTargetLoses DEF LosesOf
  <2>5. call'[h] # call[h]
    <3>1. call[h].pc = "lock"
      BY <1>4 DEF DeletePoolLocked, At
    <3>2. Return(h) \/ Continue(h, "save")
      BY <1>4, LockedCall
    <3>3. call'[h].pc \in {"idle", "save"}
      BY <1>1, <3>2 DEF Return, Continue, IdleCall, Call
    <3> QED BY <3>1, <3>3
  <2> QED BY <2>1, <2>3, <2>4, <2>5 DEF Aimed, Owner
<1>5. CASE DeleteVolumeLocked(h)
  <2>1. c.op = "DeleteVolume"
    BY <1>5 DEF DeleteVolumeLocked, At
  <2>2. \E r \in DeleteLUN(cfs, c.target, c.vol) : cfs' = r.c
    BY <1>5 DEF DeleteVolumeLocked
  <2>3. k[1] = c.target /\ k[2] = c.vol
    BY <1>1, <2>2, DeleteLUNLoses DEF LosesAt
  <2>4. call'[h] # call[h]
    <3>1. call[h].pc = "lock"
      BY <1>5 DEF DeleteVolumeLocked, At
    <3>2. Return(h) \/ Continue(h, "store")
      BY <1>5, LockedCall
    <3>3. call'[h].pc \in {"idle", "store"}
      BY <1>1, <3>2 DEF Return, Continue, IdleCall, Call
    <3> QED BY <3>1, <3>3
  <2> QED BY <2>1, <2>3, <2>4 DEF Aimed, Owner
<1>6. CASE CreateVolumeStore(h)
  <2>1. \E q : \E r \in UpsertBackstore(cfs, c.vol, c.name, q, 0) : cfs' = r.c
    BY <1>6 DEF CreateVolumeStore
  <2> QED BY <1>1, <2>1, StoresOnly
<1>7. CASE CreateVolumeLun(h)
  <2>1. c.op = "CreateVolume" /\ c.pc = "lun"
    BY <1>7 DEF CreateVolumeLun, Holds, At
  <2>2. c.pool \in Ids /\ HasPool(st, c.pool)
    BY <1>1, <2>1 DEF IInv, CallsOK, Call
  <2>3. TargetOf(st, c.pool) \in Target
    BY <1>1, <2>2, TargetType
  <2>4. \E r \in UpsertLUN(cfs, TargetOf(st, c.pool), c.vol, c.vol, c.name) : cfs' = r.c
    BY <1>7 DEF CreateVolumeLun
  <2> HIDE DEF c
  <2> QED BY <1>1, <2>3, <2>4, OthersKeep DEF KeepsLinks
<1>8. CASE DeleteVolumeStore(h)
  <2>1. \E r \in DeleteBackstore(cfs, c.vol) : cfs' = r.c
    BY <1>8 DEF DeleteVolumeStore
  <2> QED BY <1>1, <2>1, StoresOnly
<1>9. CASE SaveOpen(h) \/ SaveWrite(h)
  BY <1>9 DEF SaveOpen, SaveWrite
<1>10. CASE DeleteVolumeFile(h)
  BY <1>10, FileStep
<1> QED BY <1>2, <1>3, <1>4, <1>5, <1>6, <1>7, <1>8, <1>9, <1>10 DEF Handle, Lock, Work

-----------------------------------------------------------------------------
(* The theorem                                                             *)

OInv == IInv /\ \A h \in Handlers : Aimed(call[h])

\* The target a call has listed is its pool's by number, in every reachable state.
THEOREM AimInvariance == Spec => []OInv
<1>1. Init => OInv
  <2>1. Init => \A h \in Handlers : Aimed(call[h])
    BY DEF Init, IdleCall, Aimed
  <2> QED BY <2>1, InitIInv DEF OInv
<1>2. OInv /\ [Next]_vars => OInv'
  <2> SUFFICES ASSUME OInv, [Next]_vars PROVE OInv'
    OBVIOUS
  <2>1. IInv'
    BY NextIInv DEF OInv
  <2>2. \A h \in Handlers : Aimed(call'[h])
    BY NextAimed DEF OInv
  <2>3. (\A h \in Handlers : Aimed(call[h]))'
    BY <2>2 DEF Aimed
  <2> QED BY <2>1, <2>3 DEF OInv
<1> QED BY <1>1, <1>2, PTL DEF Spec

\* A volume's LUN loses its link only to a call on the volume or its pool, or to
\* a restart of the machine, for any handlers, ids, failures and crashes.
THEOREM OwnersUnexport == Spec => OnlyOwnerUnexports
<1> DEFINE A == \A k \in cfs.links \ cfs'.links :
                  (HasVolume(st, k[1].id, k[2]) /\ k[1] = TargetOf(st, k[1].id)) =>
                     \/ budget'.crashes # budget.crashes
                     \/ \E h \in Handlers :
                          /\ call'[h] # call[h] /\ call[h].pool = k[1].id
                          /\ \/ call[h].op = "DeletePool"
                             \/ call[h].op = "DeleteVolume" /\ call[h].vol = k[2]
<1>1. OInv /\ [Next]_vars => [A]_vars
  <2> SUFFICES ASSUME OInv, [Next]_vars, NEW k \in cfs.links \ cfs'.links, Owned(k)
               PROVE  \/ budget'.crashes # budget.crashes
                      \/ \E h \in Handlers : Owner(h, k) /\ call'[h] # call[h]
    BY DEF Owned, Owner
  <2>1. ASSUME NEW h \in Handlers, Handle(h) PROVE Owner(h, k) /\ call'[h] # call[h]
    BY <2>1, HandleSpares DEF OInv
  <2>2. ~Reconcile
    BY ReconcileSpares DEF OInv
  <2>3. CASE Reboot
    <3>1. budget'.crashes = budget.crashes + 1 /\ budget.crashes \in Nat
      BY <2>3 DEF Reboot, Die, Spend, OInv, IInv, TypeOK, Budget
    <3> QED BY <3>1
  <2>4. CASE ReconcileStart \/ ReconcileFails \/ Boot \/ BootSaveOpen \/ BootSaveWrite
             \/ Crash \/ ClientWrites \/ UNCHANGED vars
    <3>1. UNCHANGED cfs
      BY <2>4 DEF ReconcileStart, ReconcileFails, Boot, BootSaveOpen, BootSaveWrite, Crash,
                  ClientWrites, ClientWrite, vars
    <3> QED BY <3>1
  <2> QED BY <2>1, <2>2, <2>3, <2>4 DEF Next, ClientWrites
<1>2. [][A]_vars => OnlyOwnerUnexports
  BY DEF OnlyOwnerUnexports
<1> QED BY <1>1, <1>2, AimInvariance, PTL DEF Spec

-----------------------------------------------------------------------------
\* Every link is in a LUN and on a target that are there, and goes to the HBA of
\* the LUN's number.
Placed(c) == \A k \in c.links : k[2] = k[3] /\ <<k[1], k[2]>> \in c.luns /\ k[1] \in c.tpgs

-----------------------------------------------------------------------------
(* Links stay in their LUNs                                                *)

\* Removing portals, links or LUNs, and making a target, keeps links placed.
LEMMA PartsPlaced ==
  ASSUME NEW c \in Cfs, NEW t, NEW X, Placed(c)
  PROVE  /\ Placed(MkTarget(c, t)) /\ \A d \in MadeSoFar(c, t) : Placed(d)
         /\ Placed(WithoutPortals(c, t, X)) /\ Placed(WithoutLinks(c, t, X))
         /\ Placed(WithoutLuns(c, t, X))
<1>1. Placed(MkTarget(c, t))
  BY DEF Placed, MkTarget, Cfs
<1>2. Placed([c EXCEPT !.iqns = @ \cup {t.name}])
  BY DEF Placed, Cfs
<1>3. Placed(WithoutPortals(c, t, X)) /\ Placed(WithoutLinks(c, t, X))
  BY DEF Placed, WithoutPortals, WithoutLinks, Cfs
<1>4. Placed(WithoutLuns(c, t, X))
  <2> DEFINE d == WithoutLuns(c, t, X)
  <2>1. /\ d.links = {k \in c.links : k[1] # t \/ k[2] \notin X}
        /\ d.luns = {u \in c.luns : u[1] # t \/ u[2] \notin X} /\ d.tpgs = c.tpgs
    BY DEF WithoutLuns, WithoutLinks, Cfs
  <2> HIDE DEF d
  <2>2. ASSUME NEW k \in d.links
        PROVE  k[2] = k[3] /\ <<k[1], k[2]>> \in d.luns /\ k[1] \in d.tpgs
    <3>1. k \in c.links /\ (k[1] # t \/ k[2] \notin X)
      BY <2>1
    <3>2. <<k[1], k[2]>> \in c.luns
      BY <3>1 DEF Placed
    <3> QED BY <2>1, <3>1, <3>2 DEF Placed
  <2> QED BY <2>2 DEF Placed, d
<1> QED BY <1>1, <1>2, <1>3, <1>4 DEF MadeSoFar

\* DeleteTarget removes the links of a LUN before the LUN, and all of them
\* before the target.
LEMMA DeleteTargetPlaced ==
  ASSUME NEW c \in Cfs, NEW t, NEW r \in DeleteTarget(c, t), Placed(c)
  PROVE  Placed(r.c)
<1> DEFINE bare == WithoutLuns(WithoutPortals(c, t, Portals), t, Ids)
           gone == [bare EXCEPT !.tpgs = @ \ {t}]
<1>1. \A X, Y : /\ WithoutLuns(WithoutPortals(c, t, X), t, Y) \in Cfs
                /\ Placed(WithoutLuns(WithoutPortals(c, t, X), t, Y))
  BY WithoutTypes, PartsPlaced
<1>2. \A X, Y, Z : Placed(WithoutLinks(WithoutLuns(WithoutPortals(c, t, X), t, Y), t, Z))
  BY <1>1, PartsPlaced
<1>3. bare \in Cfs /\ Placed(bare) /\ \A k \in bare.links : k[1] # t
  <2>1. bare \in Cfs /\ Placed(bare)
    BY <1>1
  <2>2. \A k \in bare.links : k[1] # t \/ k[2] \notin Ids
    BY WithoutTypes DEF WithoutLuns, WithoutLinks, Cfs
  <2> HIDE DEF bare
  <2>3. \A k \in bare.links : k[2] \in Ids
    BY <2>1 DEF Cfs
  <2> QED BY <2>1, <2>2, <2>3
<1>4. /\ gone \in Cfs /\ gone.links = bare.links /\ gone.luns = bare.luns
      /\ gone.tpgs = bare.tpgs \ {t}
  <2> HIDE DEF bare
  <2> QED BY <1>3 DEF Cfs
<1>5. Placed(gone)
  <2> HIDE DEF gone, bare
  <2> QED BY <1>3, <1>4 DEF Placed
<1>6. Placed([gone EXCEPT !.iqns = @ \ {t.name}])
  <2> HIDE DEF gone
  <2> QED BY <1>4, <1>5 DEF Placed, Cfs
<1>7. CASE r \in {Refused(gone), Done([gone EXCEPT !.iqns = @ \ {t.name}])}
  <2> HIDE DEF gone
  <2> QED BY <1>5, <1>6, <1>7, OutcomeIs
<1>8. CASE \E P : r = Broken(WithoutPortals(c, t, P))
  BY <1>8, PartsPlaced, OutcomeIs
<1>9. CASE \E L : r = Broken(WithoutLuns(WithoutPortals(c, t, Portals), t, L))
  BY <1>1, <1>9, OutcomeIs
<1>10. CASE \E L, Z : r = Broken(WithoutLinks(WithoutLuns(WithoutPortals(c, t, Portals), t, L), t, Z))
  BY <1>10, <1>2, OutcomeIs
<1>11. CASE r = Broken(gone)
  <2> HIDE DEF gone
  <2> QED BY <1>5, <1>11, OutcomeIs
<1> QED BY <1>7, <1>8, <1>9, <1>10, <1>11, DeleteTargetCases

\* The other operations on targets, portals and one LUN.
LEMMA TargetOpsPlaced ==
  ASSUME NEW c \in Cfs, NEW t, NEW l, NEW p, Placed(c)
  PROVE  /\ \A r \in UpsertTarget(c, t) : Placed(r.c)
         /\ \A r \in DeleteZeroTarget(c) : Placed(r.c)
         /\ t \in Target => \A r \in UpsertOnlyPortal(c, t, p) : Placed(r.c)
         /\ \A r \in DeleteLUN(c, t, l) : Placed(r.c)
<1>1. \A r \in UpsertTarget(c, t) : Placed(r.c)
  BY PartsPlaced, OutcomeIs DEF UpsertTarget
<1>2. \A r \in DeleteZeroTarget(c) : Placed(r.c)
  BY OutcomeIs DEF DeleteZeroTarget
<1>3. ASSUME t \in Target, NEW r \in UpsertOnlyPortal(c, t, p) PROVE Placed(r.c)
  <2> DEFINE d == WithoutPortals(MkTarget(c, t), t, Portals \ {p})
             e == [d EXCEPT !.portals = @ \cup {<<t, p>>}]
  <2>1. MkTarget(c, t) \in Cfs /\ Placed(MkTarget(c, t))
    BY <1>3, MkTargetType, PartsPlaced
  <2>2. d \in Cfs /\ Placed(d)
    BY <2>1, WithoutTypes, PartsPlaced
  <2>3. Placed(e)
    <3> HIDE DEF d
    <3> QED BY <2>2 DEF Placed, Cfs
  <2>4. r = Done(e) \/ \E P : r = Broken(WithoutPortals(c, t, P))
    BY <1>3 DEF UpsertOnlyPortal
  <2> HIDE DEF e
  <2> QED BY <2>3, <2>4, PartsPlaced, OutcomeIs
<1>4. \A r \in DeleteLUN(c, t, l) : Placed(r.c)
  BY PartsPlaced, OutcomeIs DEF DeleteLUN
<1> QED BY <1>1, <1>2, <1>3, <1>4

\* UpsertLUN of LUN l makes it before it links backstore l in it.
LEMMA UpsertLUNPlaced ==
  ASSUME NEW c \in Cfs, NEW t \in Target, NEW l, NEW n, NEW r \in UpsertLUN(c, t, l, l, n), Placed(c)
  PROVE  Placed(r.c)
<1> DEFINE m == MkTarget(c, t)
           made == [m EXCEPT !.luns = @ \cup {<<t, l>>}]
           linked == [made EXCEPT !.links = @ \cup {<<t, l, l, n>>}]
<1>1. m \in Cfs /\ Placed(m) /\ t \in m.tpgs
  BY MkTargetType, PartsPlaced DEF MkTarget, Cfs
<1>2. /\ made.links = m.links /\ made.luns = m.luns \cup {<<t, l>>} /\ made.tpgs = m.tpgs
      /\ linked.links = m.links \cup {<<t, l, l, n>>}
      /\ linked.luns = m.luns \cup {<<t, l>>} /\ linked.tpgs = m.tpgs
  <2> HIDE DEF m
  <2> QED BY <1>1 DEF Cfs
<1>3. \/ r \in {Done(made), Refused(made), Broken(made), Done(linked)}
      \/ \E d \in MadeSoFar(c, t) : r = Broken(d)
  BY DEF UpsertLUN
<1> HIDE DEF m, made, linked
<1>4. Placed(made)
  BY <1>1, <1>2 DEF Placed
<1>5. Placed(linked)
  <2>1. ASSUME NEW k \in linked.links
        PROVE  k[2] = k[3] /\ <<k[1], k[2]>> \in linked.luns /\ k[1] \in linked.tpgs
    <3>1. CASE k \in m.links
      BY <1>1, <1>2, <3>1 DEF Placed
    <3>2. CASE k = <<t, l, l, n>>
      <4>1. k[1] = t /\ k[2] = l /\ k[3] = l
        BY <3>2
      <4> QED BY <1>1, <1>2, <4>1
    <3> QED BY <1>2, <2>1, <3>1, <3>2
  <2> QED BY <2>1 DEF Placed
<1> QED BY <1>3, <1>4, <1>5, PartsPlaced, OutcomeIs

\* Backstores have nothing to do with it.
LEMMA StoresPlaced ==
  ASSUME NEW c \in Cfs, NEW i, NEW n, NEW q, NEW z, Placed(c),
         NEW r \in DeleteBackstore(c, i) \cup UpsertBackstore(c, i, n, q, z)
  PROVE  Placed(r.c)
<1>1. r.c.links = c.links /\ r.c.luns = c.luns /\ r.c.tpgs = c.tpgs
  BY StoresOnly
<1> QED BY <1>1 DEF Placed

-----------------------------------------------------------------------------
(* The steps of Sigma keep links in their LUNs                             *)

\* Every step of ReconcileAll keeps links placed.
LEMMA ReconcilePlaced == ASSUME IInv, Placed(cfs), Reconcile PROVE Placed(cfs')
<1>1. cfs \in Cfs /\ st \in State
  BY DEF IInv, TypeOK
<1>2. ASSUME NEW S, NEW r, Apply(S, r), \A o \in S : Placed(o.c) PROVE Placed(cfs')
  BY <1>2 DEF Apply
<1>3. CASE UNCHANGED cfs
  BY <1>3
<1>4. CASE ReconcileTargets /\ cfs' # cfs
  <2>1. \E t : Apply(DeleteTarget(cfs, t), rec)
    BY <1>4 DEF ReconcileTargets
  <2> QED BY <1>1, <1>2, <2>1, DeleteTargetPlaced
<1>5. CASE ReconcilePool /\ cfs' # cfs
  <2>1. \E t, r : Apply(UpsertTarget(cfs, t), r)
    BY <1>5 DEF ReconcilePool
  <2> QED BY <1>1, <1>2, <2>1, TargetOpsPlaced
<1>6. CASE ReconcilePortals
  <2>1. \E r : Apply(UpsertOnlyPortal(cfs, TargetOf(st, rec.pool), portal), r)
    BY <1>6 DEF ReconcilePortals
  <2>2. TargetOf(st, rec.pool) \in Target
    BY <1>6, ReconcileTypes DEF ReconcilePortals
  <2> QED BY <1>1, <1>2, <2>1, <2>2, TargetOpsPlaced
<1>7. CASE ReconcileLUNs /\ cfs' # cfs
  <2>1. \E t, l : Apply(DeleteLUN(cfs, t, l), rec)
    BY <1>7 DEF ReconcileLUNs
  <2> QED BY <1>1, <1>2, <2>1, TargetOpsPlaced
<1>8. CASE ReconcileStore
  <2>1. \E i, n, q, z, r : Apply(UpsertBackstore(cfs, i, n, q, z), r)
    BY <1>8 DEF ReconcileStore
  <2> QED BY <1>1, <1>2, <2>1, StoresPlaced
<1>9. CASE ReconcileLun
  <2>1. \E l, n, r : Apply(UpsertLUN(cfs, TargetOf(st, rec.pool), l, l, n), r)
    BY <1>9 DEF ReconcileLun
  <2>2. TargetOf(st, rec.pool) \in Target
    BY <1>9, ReconcileTypes DEF ReconcileLun
  <2> QED BY <1>1, <1>2, <2>1, <2>2, UpsertLUNPlaced
<1>10. CASE ReconcileBackstores /\ cfs' # cfs
  <2>1. \E i : Apply(DeleteBackstore(cfs, i), rec)
    BY <1>10 DEF ReconcileBackstores
  <2> QED BY <1>1, <1>2, <2>1, StoresPlaced
<1>11. CASE ReconcileVolume
  BY <1>11 DEF ReconcileVolume
<1> QED BY <1>3, <1>4, <1>5, <1>6, <1>7, <1>8, <1>9, <1>10, <1>11 DEF Reconcile

\* Every step of a handler keeps links placed.
LEMMA HandlePlaced == ASSUME IInv, Placed(cfs), NEW h \in Handlers, Handle(h) PROVE Placed(cfs')
<1> DEFINE c == call[h]
<1>1. cfs \in Cfs /\ st \in State /\ c \in Call
  BY DEF IInv, TypeOK
<1>2. CASE UNCHANGED cfs
  BY <1>2
<1>3. CASE CreatePoolLocked(h) /\ cfs' # cfs
  <2>1. \E t : \E r \in UpsertTarget(cfs, t) : cfs' = r.c
    BY <1>3 DEF CreatePoolLocked
  <2> QED BY <1>1, <2>1, TargetOpsPlaced
<1>4. CASE DeletePoolLocked(h)
  <2>1. \/ \E r \in DeleteZeroTarget(cfs) : cfs' = r.c
        \/ \E r \in DeleteTarget(cfs, c.target) : cfs' = r.c
    BY <1>4 DEF DeletePoolLocked
  <2> QED BY <1>1, <2>1, TargetOpsPlaced, DeleteTargetPlaced
<1>5. CASE DeleteVolumeLocked(h)
  <2>1. \E r \in DeleteLUN(cfs, c.target, c.vol) : cfs' = r.c
    BY <1>5 DEF DeleteVolumeLocked
  <2>2. \A t, l : \A r \in DeleteLUN(cfs, t, l) : Placed(r.c)
    BY <1>1, TargetOpsPlaced
  <2> QED BY <2>1, <2>2
<1>6. CASE CreateVolumeStore(h)
  <2>1. \E q : \E r \in UpsertBackstore(cfs, c.vol, c.name, q, 0) : cfs' = r.c
    BY <1>6 DEF CreateVolumeStore
  <2> QED BY <1>1, <2>1, StoresPlaced
<1>7. CASE CreateVolumeLun(h)
  <2>1. c.op = "CreateVolume" /\ c.pc = "lun"
    BY <1>7 DEF CreateVolumeLun, Holds, At
  <2>2. c.pool \in Ids /\ HasPool(st, c.pool)
    BY <1>1, <2>1 DEF IInv, CallsOK, Call
  <2>3. TargetOf(st, c.pool) \in Target
    BY <1>1, <2>2, TargetType
  <2>4. \E r \in UpsertLUN(cfs, TargetOf(st, c.pool), c.vol, c.vol, c.name) : cfs' = r.c
    BY <1>7 DEF CreateVolumeLun
  <2> HIDE DEF c
  <2> QED BY <1>1, <2>3, <2>4, UpsertLUNPlaced
<1>8. CASE DeleteVolumeStore(h)
  <2>1. \E r \in DeleteBackstore(cfs, c.vol) : cfs' = r.c
    BY <1>8 DEF DeleteVolumeStore
  <2> QED BY <1>1, <2>1, StoresPlaced
<1>9. CASE Arrive(h) \/ SaveOpen(h) \/ SaveWrite(h)
  BY <1>2, <1>9 DEF Arrive, CreatePool, DeletePool, CreateVolume, DeleteVolume, Enter,
                    SaveOpen, SaveWrite
<1>10. CASE DeleteVolumeFile(h)
  BY <1>10, FileStep DEF Placed
<1> QED BY <1>2, <1>3, <1>4, <1>5, <1>6, <1>7, <1>8, <1>9, <1>10 DEF Handle, Lock, Work

\* Every step keeps links placed; a restart of the machine leaves none.
LEMMA NextPlaced == ASSUME IInv, Placed(cfs), [Next]_vars PROVE Placed(cfs')
<1>1. CASE Reboot
  BY <1>1 DEF Reboot, EmptyCfs, Placed
<1>2. CASE ReconcileStart \/ ReconcileFails \/ Boot \/ BootSaveOpen \/ BootSaveWrite
           \/ Crash \/ ClientWrites \/ UNCHANGED vars
  <2>1. UNCHANGED cfs
    BY <1>2 DEF ReconcileStart, ReconcileFails, Boot, BootSaveOpen, BootSaveWrite, Crash,
                ClientWrites, ClientWrite, vars
  <2> QED BY <2>1
<1> QED BY <1>1, <1>2, HandlePlaced, ReconcilePlaced DEF Next, ClientWrites

-----------------------------------------------------------------------------
(* What a kernel operation that succeeds has done                          *)

\* UpsertTarget makes its target.
LEMMA UpsertTargetDone ==
  ASSUME NEW c \in Cfs, NEW t \in Target, NEW r \in UpsertTarget(c, t), r.ok
  PROVE  /\ r.c.tpgs = c.tpgs \cup {t} /\ r.c.portals = c.portals
         /\ r.c.luns = c.luns
<1>1. r = Done(MkTarget(c, t))
  BY DEF UpsertTarget, Broken
<1>2. r.c = MkTarget(c, t)
  BY <1>1, OutcomeIs
<1> QED BY <1>2 DEF MkTarget, Cfs

\* UpsertOnlyPortal makes its target, with this portal and no other.
LEMMA UpsertOnlyPortalDone ==
  ASSUME NEW c \in Cfs, NEW t \in Target, NEW p \in Portals,
         NEW r \in UpsertOnlyPortal(c, t, p), r.ok
  PROVE  /\ r.c.tpgs = c.tpgs \cup {t} /\ r.c.luns = c.luns
         /\ \A a \in Portals : <<t, a>> \in r.c.portals <=> a = p
         /\ \A u \in Target \ {t}, a \in Portals :
               <<u, a>> \in r.c.portals <=> <<u, a>> \in c.portals
<1> DEFINE d == WithoutPortals(MkTarget(c, t), t, Portals \ {p})
           e == [d EXCEPT !.portals = @ \cup {<<t, p>>}]
<1>1. r = Done(e)
  BY DEF UpsertOnlyPortal, Broken
<1>2. d \in Cfs /\ d.tpgs = c.tpgs \cup {t} /\ d.luns = c.luns
      /\ d.portals = {x \in c.portals : x[1] # t \/ x[2] \notin Portals \ {p}}
  <2> DEFINE m == MkTarget(c, t)
  <2>1. /\ m \in Cfs /\ m.tpgs = c.tpgs \cup {t} /\ m.luns = c.luns
        /\ m.portals = c.portals
    BY MkTargetType DEF MkTarget, Cfs
  <2> HIDE DEF m
  <2>2. WithoutPortals(m, t, Portals \ {p}) \in Cfs
    BY <2>1, WithoutTypes
  <2>3. /\ d = WithoutPortals(m, t, Portals \ {p}) /\ d.tpgs = m.tpgs /\ d.luns = m.luns
        /\ d.portals = {x \in m.portals : x[1] # t \/ x[2] \notin Portals \ {p}}
    BY <2>1 DEF WithoutPortals, Cfs, m
  <2> QED BY <2>1, <2>2, <2>3
<1> HIDE DEF d
<1>3. e.tpgs = d.tpgs /\ e.luns = d.luns /\ e.portals = d.portals \cup {<<t, p>>}
  BY <1>2 DEF Cfs
<1>4. r.c = e
  BY <1>1, OutcomeIs
<1> HIDE DEF e
<1>5. \A a \in Portals : <<t, a>> \in e.portals <=> a = p
  BY <1>2, <1>3
<1>6. \A u \in Target \ {t}, a \in Portals : <<u, a>> \in e.portals <=> <<u, a>> \in c.portals
  BY <1>2, <1>3
<1> QED BY <1>2, <1>3, <1>4, <1>5, <1>6

\* DeleteLUN takes away one LUN.
LEMMA DeleteLUNDone ==
  ASSUME NEW c \in Cfs, NEW t, NEW l, NEW r \in DeleteLUN(c, t, l), r.ok
  PROVE  r.c.tpgs = c.tpgs /\ r.c.portals = c.portals /\ r.c.luns \subseteq c.luns
<1>1. r = Done(WithoutLuns(c, t, {l}))
  BY DEF DeleteLUN, Broken
<1>2. r.c = WithoutLuns(c, t, {l})
  BY <1>1, OutcomeIs
<1> QED BY <1>2 DEF WithoutLuns, WithoutLinks, Cfs

\* UpsertLUN makes the LUN, and has it link something; other links stay.
LEMMA UpsertLUNDone ==
  ASSUME NEW c \in Cfs, NEW t \in Target, NEW l, NEW i, NEW n,
         NEW r \in UpsertLUN(c, t, l, i, n), r.ok
  PROVE  /\ r.c.tpgs = c.tpgs \cup {t} /\ r.c.portals = c.portals
         /\ r.c.luns = c.luns \cup {<<t, l>>} /\ c.links \subseteq r.c.links
         /\ r.c.stores = c.stores /\ LinkOf(r.c, t, l) # {}
<1> DEFINE m == MkTarget(c, t)
           made == [m EXCEPT !.luns = @ \cup {<<t, l>>}]
           linked == [made EXCEPT !.links = @ \cup {<<t, l, i, n>>}]
<1>1. /\ m \in Cfs /\ m.tpgs = c.tpgs \cup {t} /\ m.portals = c.portals
      /\ m.luns = c.luns /\ m.links = c.links /\ m.stores = c.stores
  BY MkTargetType DEF MkTarget, Cfs
<1>2. \/ r = Done(made) /\ LinkOf(c, t, l) # {}
      \/ r = Done(linked)
  BY DEF UpsertLUN, Broken, Refused
<1> HIDE DEF m
<1>3. /\ made.tpgs = m.tpgs /\ made.portals = m.portals /\ made.links = m.links
      /\ made.stores = m.stores /\ made.luns = m.luns \cup {<<t, l>>}
      /\ linked.tpgs = m.tpgs /\ linked.portals = m.portals
      /\ linked.links = m.links \cup {<<t, l, i, n>>}
      /\ linked.stores = m.stores /\ linked.luns = m.luns \cup {<<t, l>>}
  BY <1>1 DEF Cfs
<1> HIDE DEF made, linked
<1>4. LinkOf(linked, t, l) # {}
  <2> DEFINE k == <<t, l, i, n>>
  <2>1. k \in linked.links /\ k[1] = t /\ k[2] = l
    BY <1>3
  <2> HIDE DEF k
  <2> QED BY <2>1 DEF LinkOf
<1>5. LinkOf(made, t, l) = LinkOf(c, t, l)
  BY <1>1, <1>3 DEF LinkOf
<1> QED BY <1>1, <1>2, <1>3, <1>4, <1>5, OutcomeIs

\* UpsertBackstore leaves an enabled backstore.
LEMMA UpsertBackstoreDone ==
  ASSUME NEW c \in Cfs, NEW i, NEW n, NEW q, NEW z, q # NoPath,
         NEW r \in UpsertBackstore(c, i, n, q, z), r.ok
  PROVE  Enabled(r.c, i, n)
<1> DEFINE old == {s \in c.stores : s.id = i /\ s.name = n}
           opened == old \cap {s \in old : s.path # NoPath}
           with(s) == [c EXCEPT !.stores = (@ \ old) \cup {s}]
           new(p, y) == [id |-> i, name |-> n, path |-> p, size |-> y]
<1>0. \A d : r # Broken(d)
  BY DEF Broken
<1>1. \E p : p # NoPath /\ r = Done(with(new(p, z)))
  <2>1. CASE opened = {}
    <3>1. r \in {Done(with(new(q, z))), Broken(c), Broken(with(new(NoPath, 0))),
                 Broken(with(new(NoPath, z)))}
      BY <2>1 DEF UpsertBackstore
    <3> HIDE DEF with, new, opened
    <3> QED BY <3>1, <1>0
  <2>2. CASE opened # {}
    <3>1. r = Broken(c) \/ \E s \in opened : r \in {Done(with(new(s.path, z))),
                                                    Broken(with(new(s.path, z)))}
      BY <2>2 DEF UpsertBackstore
    <3>2. \A s \in opened : s.path # NoPath
      OBVIOUS
    <3> HIDE DEF with, new, opened
    <3> QED BY <3>1, <3>2, <1>0
  <2> QED BY <2>1, <2>2
<1>2. ASSUME NEW p, p # NoPath PROVE Enabled(with(new(p, z)), i, n)
  <2>1. new(p, z).id = i /\ new(p, z).name = n /\ new(p, z).path = p
    OBVIOUS
  <2>2. new(p, z) \in with(new(p, z)).stores
    <3> HIDE DEF old
    <3> QED BY DEF Cfs
  <2> HIDE DEF with, new
  <2> QED BY <1>2, <2>1, <2>2 DEF Enabled
<1> HIDE DEF with, new
<1> QED BY <1>1, <1>2, OutcomeIs

\* DeleteBackstore of HBA i, if it succeeds, takes no other HBA's backstore, and
\* had no link to one of its own.
LEMMA DeleteBackstoreDone ==
  ASSUME NEW c \in Cfs, NEW i, NEW r \in DeleteBackstore(c, i), r.ok, Backed(c)
  PROVE  /\ \A j, m : Enabled(c, j, m) /\ j # i => Enabled(r.c, j, m)
         /\ \A k \in c.links : k[3] # i
<1>1. r = Done(WithoutStores(c, i, NamesOf(c, i)))
  BY DEF DeleteBackstore, Broken, Refused
<1>2. r.c.stores = {s \in c.stores : s.id # i \/ s.name \notin NamesOf(c, i)}
  BY <1>1, OutcomeIs DEF WithoutStores, Cfs
<1>3. \A j, m : Enabled(c, j, m) /\ j # i => Enabled(r.c, j, m)
  BY <1>2 DEF Enabled
<1>4. Backed(r.c) /\ \A s \in r.c.stores : s.id # i
  BY DeleteBackstoreBacked
<1>5. r.c.links = c.links
  BY StoresOnly
<1> QED BY <1>3, <1>4, <1>5 DEF Backed, Enabled

-----------------------------------------------------------------------------
(* What ReconcileAll has established so far                                *)

Filling == {"volumes", "store", "lun", "gc"}
Past    == {"pools", "portals", "luns"} \cup Filling    \* the stale targets

TargetFollows(p) == LET t == TargetOf(st, p) IN
    /\ t \in cfs.tpgs
    /\ \A a \in Portals : <<t, a>> \in cfs.portals <=> a = portal
LUNsFollow(p) == \A v \in ListLUNs(cfs, TargetOf(st, p)) : HasVolume(st, p, v)
VolumeFollows(p, v) == LET t == TargetOf(st, p) IN
    /\ <<t, v>> \in cfs.luns /\ LinkOf(cfs, t, v) # {}
    /\ Enabled(cfs, v, st.vols[<<p, v>>].name)

\* The pools and volumes that were visited in this run.
PoolDone(p)      == /\ HasPool(st, p) /\ p \notin rec.pools
                    /\ rec.pc \in {"portals", "luns"} => p # rec.pool
VolumeDone(p, v) == /\ HasVolume(st, p, v) /\ <<p, v>> \notin rec.vols
                    /\ rec.pc \in {"store", "lun"} => <<p, v>> # <<rec.pool, rec.vol>>

Progress ==
    /\ rec.pc \in Past => \A t \in cfs.tpgs : HasPool(st, t.id)
    /\ rec.pc \in Past => \A p \in Ids : PoolDone(p) => TargetFollows(p) /\ LUNsFollow(p)
    /\ rec.pc = "luns" => TargetFollows(rec.pool)
    /\ rec.pc \in Filling => rec.pools = {}
    /\ rec.pc \in Filling => \A p, v \in Ids : VolumeDone(p, v) => VolumeFollows(p, v)
    /\ rec.pc = "lun" => Enabled(cfs, rec.vol, st.vols[<<rec.pool, rec.vol>>].name)
    /\ rec.pc = "gc" => rec.vols = {}

\* What the steps start from.
PInv == IInv /\ Backed(cfs) /\ Placed(cfs) /\ Progress

-----------------------------------------------------------------------------
(* No step takes away what this run of ReconcileAll has established        *)

\* A run that has ended, or has not dealt with the stale targets yet, has
\* established nothing.
LEMMA NotPast == ASSUME rec'.pc \notin Past PROVE Progress'
BY DEF Progress, Past, Filling

\* A kernel call succeeds, or the run ends.
LEMMA ApplyCases ==
  ASSUME NEW S, NEW r, Apply(S, r)
  PROVE  \/ rec'.pc \notin Past
         \/ rec' = r /\ UNCHANGED <<server, st>> /\ \E o \in S : o.ok /\ cfs' = o.c
<1>1. ASSUME Stop PROVE rec'.pc \notin Past
  BY <1>1 DEF Stop, RecAt, Past, Filling
<1> QED BY <1>1 DEF Apply, Proceed

\* When no target is stale, every target is a pool's.
LEMMA TargetsProgress == ASSUME PInv, ReconcileTargets PROVE Progress'
<1> DEFINE r == [RecAt("pools") EXCEPT !.pools = {p \in Ids : HasPool(st, p)}]
<1>1. CASE StaleTargets = {} /\ Proceed(r) /\ UNCHANGED <<cfs, budget>>
  <2>1. r.pc = "pools" /\ r.pools = {p \in Ids : HasPool(st, p)}
    BY DEF RecAt
  <2>2. rec' = r /\ UNCHANGED <<st, cfs>>
    BY <1>1 DEF Proceed
  <2> HIDE DEF r
  <2>3. \A t \in cfs.tpgs : HasPool(st, t.id)
    BY <1>1 DEF StaleTargets, ListTargets
  <2>4. \A p \in Ids : ~PoolDone(p)'
    BY <2>1, <2>2 DEF PoolDone, HasPool
  <2> QED BY <2>1, <2>2, <2>3, <2>4 DEF Progress, Past, Filling, HasPool
<1>2. ASSUME NEW t, Apply(DeleteTarget(cfs, t), rec) PROVE Progress'
  <2>1. rec.pc = "targets"
    BY DEF ReconcileTargets
  <2>2. rec'.pc \notin Past
    BY <1>2, <2>1, ApplyCases DEF Past, Filling
  <2> QED BY <2>2, NotPast
<1> QED BY <1>1, <1>2 DEF ReconcileTargets

\* A pool that is visited has its target made; the others keep theirs.
LEMMA PoolProgress == ASSUME PInv, ReconcilePool PROVE Progress'
<1>1. /\ rec.pc = "pools" /\ rec \in Rec /\ cfs \in Cfs /\ st \in State /\ UNCHANGED portal
      /\ \A t \in cfs.tpgs : HasPool(st, t.id)
      /\ \A p \in Ids : HasPool(st, p) /\ p \notin rec.pools => TargetFollows(p) /\ LUNsFollow(p)
  BY DEF ReconcilePool, PInv, IInv, TypeOK, Progress, Past, Filling, PoolDone
<1> DEFINE r == [RecAt("volumes") EXCEPT !.vols = {k \in Ids \X Ids : HasVolume(st, k[1], k[2])}]
<1>2. CASE rec.pools = {} /\ Proceed(r) /\ UNCHANGED <<cfs, budget>>
  <2>1. r.pc = "volumes" /\ r.vols = {k \in Ids \X Ids : HasVolume(st, k[1], k[2])} /\ r.pools = {}
    BY DEF RecAt
  <2>2. rec' = r /\ UNCHANGED <<st, cfs, portal>>
    BY <1>1, <1>2 DEF Proceed
  <2> HIDE DEF r
  <2>3. \A p, v \in Ids : ~VolumeDone(p, v)'
    BY <2>1, <2>2 DEF VolumeDone, HasVolume
  <2>4. \A p \in Ids : PoolDone(p)' => TargetFollows(p)' /\ LUNsFollow(p)'
    BY <1>1, <1>2, <2>2 DEF PoolDone, TargetFollows, LUNsFollow
  <2>5. (\A t \in cfs.tpgs : HasPool(st, t.id))'
    BY <1>1, <2>2
  <2> QED BY <2>1, <2>2, <2>3, <2>4, <2>5 DEF Progress, Past, Filling
<1>3. ASSUME NEW p \in rec.pools,
             Apply(UpsertTarget(cfs, TargetOf(st, p)),
                   [rec EXCEPT !.pc = "portals", !.pools = @ \ {p}, !.pool = p])
      PROVE  Progress'
  <2> DEFINE q == [rec EXCEPT !.pc = "portals", !.pools = @ \ {p}, !.pool = p]
             t == TargetOf(st, p)
  <2>1. p \in Ids /\ HasPool(st, p)
    BY <1>1 DEF PInv, IInv, RecOK, Rec
  <2>2. t \in Target /\ t.id = p
    BY <1>1, <2>1, TargetType DEF TargetOf
  <2>3. q.pc = "portals" /\ q.pools = rec.pools \ {p} /\ q.pool = p
    BY <1>1 DEF Rec
  <2>4. CASE rec'.pc \notin Past
    BY <2>4, NotPast
  <2>5. CASE rec' = q /\ UNCHANGED <<server, st>> /\ \E o \in UpsertTarget(cfs, t) : o.ok /\ cfs' = o.c
    <3> HIDE DEF q, t
    <3>1. cfs'.tpgs = cfs.tpgs \cup {t} /\ cfs'.portals = cfs.portals /\ cfs'.luns = cfs.luns
      BY <1>1, <2>2, <2>5, UpsertTargetDone
    <3>2. \A u \in cfs'.tpgs : HasPool(st', u.id)
      BY <1>1, <2>1, <2>2, <2>5, <3>1
    <3>3. \A x \in Ids : PoolDone(x)' => TargetFollows(x)' /\ LUNsFollow(x)'
      <4>1. TAKE x \in Ids
      <4>2. PoolDone(x)' => HasPool(st, x) /\ x \notin rec.pools
        BY <2>3, <2>5 DEF PoolDone
      <4>3. TargetFollows(x) => TargetFollows(x)'
        BY <1>1, <2>5, <3>1 DEF TargetFollows
      <4>4. LUNsFollow(x) => LUNsFollow(x)'
        BY <2>5, <3>1 DEF LUNsFollow, ListLUNs
      <4> QED BY <1>1, <4>2, <4>3, <4>4
    <3> QED BY <2>3, <2>5, <3>2, <3>3 DEF Progress, Past, Filling
  <2> HIDE DEF q, t
  <2>6. Apply(UpsertTarget(cfs, t), q)
    BY <1>3 DEF q, t
  <2> QED BY <2>4, <2>5, <2>6, ApplyCases
<1> QED BY <1>2, <1>3 DEF ReconcilePool

\* Then its portals; those of other targets are left alone.
LEMMA PortalsProgress == ASSUME PInv, ReconcilePortals PROVE Progress'
<1> DEFINE t == TargetOf(st, rec.pool)
           q == [rec EXCEPT !.pc = "luns"]
<1>1. /\ rec.pc = "portals" /\ rec \in Rec /\ cfs \in Cfs /\ st \in State /\ UNCHANGED portal
      /\ portal \in Portals
      /\ \A u \in cfs.tpgs : HasPool(st, u.id)
      /\ \A p \in Ids : HasPool(st, p) /\ p \notin rec.pools /\ p # rec.pool
                          => TargetFollows(p) /\ LUNsFollow(p)
  BY DEF ReconcilePortals, PInv, IInv, TypeOK, Progress, Past, Filling, PoolDone
<1>2. t \in Target /\ t.id = rec.pool /\ HasPool(st, rec.pool)
  BY <1>1, ReconcileTypes DEF PInv, IInv, RecOK, TargetOf
<1>3. q.pc = "luns" /\ q.pools = rec.pools /\ q.pool = rec.pool
  BY <1>1 DEF Rec
<1>4. CASE rec'.pc \notin Past
  BY <1>4, NotPast
<1>5. CASE rec' = q /\ UNCHANGED <<server, st>>
           /\ \E o \in UpsertOnlyPortal(cfs, t, portal) : o.ok /\ cfs' = o.c
  <2> HIDE DEF q
  <2>1. /\ cfs'.tpgs = cfs.tpgs \cup {t} /\ cfs'.luns = cfs.luns
        /\ \A a \in Portals : <<t, a>> \in cfs'.portals <=> a = portal
        /\ \A u \in Target \ {t}, a \in Portals :
              <<u, a>> \in cfs'.portals <=> <<u, a>> \in cfs.portals
    <3> HIDE DEF t
    <3>1. PICK o \in UpsertOnlyPortal(cfs, t, portal) : o.ok /\ cfs' = o.c
      BY <1>5
    <3> QED BY <1>1, <1>2, <3>1, UpsertOnlyPortalDone
  <2>2. \A u \in cfs'.tpgs : HasPool(st', u.id)
    BY <1>1, <1>2, <1>5, <2>1
  <2>3. TargetFollows(rec.pool)'
    BY <1>1, <1>3, <1>5, <2>1 DEF TargetFollows
  <2>4. \A x \in Ids : PoolDone(x)' => TargetFollows(x)' /\ LUNsFollow(x)'
    <3>1. TAKE x \in Ids
    <3>2. PoolDone(x)' => HasPool(st, x) /\ x \notin rec.pools /\ x # rec.pool
      BY <1>3, <1>5 DEF PoolDone
    <3>3. x # rec.pool => TargetOf(st, x) # t
      BY <1>2 DEF TargetOf
    <3>4. HasPool(st, x) => TargetOf(st, x) \in Target
      BY <1>1, TargetType
    <3> HIDE DEF t
    <3>5. HasPool(st, x) /\ x # rec.pool /\ TargetFollows(x) => TargetFollows(x)'
      BY <1>1, <1>5, <2>1, <3>3, <3>4 DEF TargetFollows
    <3>6. LUNsFollow(x) => LUNsFollow(x)'
      BY <1>5, <2>1 DEF LUNsFollow, ListLUNs
    <3> QED BY <1>1, <3>2, <3>5, <3>6
  <2>5. rec'.pc = "luns" /\ (\A u \in cfs.tpgs : HasPool(st, u.id))'
    BY <1>3, <1>5, <2>2
  <2> QED BY <2>3, <2>4, <2>5 DEF Progress, Past, Filling
<1>6. Apply(UpsertOnlyPortal(cfs, t, portal), q)
  BY DEF ReconcilePortals
<1> HIDE DEF t, q
<1> QED BY <1>4, <1>5, <1>6, ApplyCases

\* A pool's target and LUNs still follow if targets and portals are as they
\* were and no LUN came that is not a volume's.
LEMMA PoolKept ==
  ASSUME UNCHANGED <<st, portal>>, cfs'.tpgs = cfs.tpgs, cfs'.portals = cfs.portals,
         NEW p \in Ids,
         \A v \in Ids : <<TargetOf(st, p), v>> \in cfs'.luns \ cfs.luns => HasVolume(st, p, v)
  PROVE  /\ TargetFollows(p) => TargetFollows(p)'
         /\ LUNsFollow(p) => LUNsFollow(p)'
<1>1. TargetFollows(p) => TargetFollows(p)'
  BY DEF TargetFollows
<1>2. LUNsFollow(p) => LUNsFollow(p)'
  BY DEF LUNsFollow, ListLUNs
<1> QED BY <1>1, <1>2

\* Then its LUNs: when none is stale, every one is a volume's.
LEMMA LUNsProgress == ASSUME PInv, ReconcileLUNs PROVE Progress'
<1> DEFINE t == TargetOf(st, rec.pool)
           q == [rec EXCEPT !.pc = "pools", !.pool = 0]
<1>1. /\ rec.pc = "luns" /\ rec \in Rec /\ cfs \in Cfs /\ st \in State /\ UNCHANGED portal
      /\ \A u \in cfs.tpgs : HasPool(st, u.id)
      /\ TargetFollows(rec.pool)
      /\ \A p \in Ids : HasPool(st, p) /\ p \notin rec.pools /\ p # rec.pool
                          => TargetFollows(p) /\ LUNsFollow(p)
  BY DEF ReconcileLUNs, PInv, IInv, TypeOK, Progress, Past, Filling, PoolDone
<1>2. CASE rec'.pc \notin Past
  BY <1>2, NotPast
<1>3. ASSUME UNCHANGED <<server, st>>, cfs'.tpgs = cfs.tpgs, cfs'.portals = cfs.portals,
             cfs'.luns \subseteq cfs.luns, rec'.pools = rec.pools,
             \/ rec'.pc = "luns" /\ rec'.pool = rec.pool
             \/ rec'.pc = "pools" /\ LUNsFollow(rec.pool)
      PROVE  Progress'
  <2>1. \A x \in Ids : (TargetFollows(x) => TargetFollows(x)') /\ (LUNsFollow(x) => LUNsFollow(x)')
    BY <1>1, <1>3, PoolKept
  <2>2. \A x \in Ids : PoolDone(x)' => TargetFollows(x)' /\ LUNsFollow(x)'
    <3>1. TAKE x \in Ids
    <3>2. PoolDone(x)' => /\ HasPool(st, x) /\ x \notin rec.pools
                          /\ x # rec.pool \/ LUNsFollow(rec.pool)
      BY <1>3 DEF PoolDone
    <3> QED BY <1>1, <2>1, <3>2
  <2>3. rec'.pc = "luns" => TargetFollows(rec.pool)'
    BY <1>1, <1>3 DEF TargetFollows
  <2>4. rec'.pc \in {"pools", "luns"} /\ (\A u \in cfs.tpgs : HasPool(st, u.id))'
    BY <1>1, <1>3
  <2> QED BY <2>2, <2>3, <2>4 DEF Progress, Past, Filling
<1>4. CASE StaleLUNs = {} /\ Proceed(q) /\ UNCHANGED <<cfs, budget>>
  <2>1. q.pc = "pools" /\ q.pools = rec.pools
    BY <1>1 DEF Rec
  <2>2. LUNsFollow(rec.pool)
    BY <1>4 DEF StaleLUNs, LUNsFollow
  <2>3. rec' = q /\ UNCHANGED <<server, st, cfs>>
    BY <1>4 DEF Proceed
  <2> HIDE DEF q
  <2> QED BY <1>3, <2>1, <2>2, <2>3
<1>5. ASSUME NEW l \in StaleLUNs, Apply(DeleteLUN(cfs, t, l), rec) PROVE Progress'
  <2>1. CASE rec' = rec /\ UNCHANGED <<server, st>>
             /\ \E o \in DeleteLUN(cfs, t, l) : o.ok /\ cfs' = o.c
    <3> HIDE DEF t
    <3>1. cfs'.tpgs = cfs.tpgs /\ cfs'.portals = cfs.portals /\ cfs'.luns \subseteq cfs.luns
      BY <1>1, <2>1, DeleteLUNDone
    <3> QED BY <1>1, <1>3, <2>1, <3>1
  <2> HIDE DEF t
  <2> QED BY <1>2, <1>5, <2>1, ApplyCases
<1> QED BY <1>4, <1>5 DEF ReconcileLUNs

-----------------------------------------------------------------------------
(* The volumes                                                             *)

\* From the volumes on: what the steps start from, and what they keep if they
\* leave targets and portals alone and make a LUN for a volume only.
LEMMA FillingKept ==
  ASSUME PInv, rec.pc \in Filling, rec'.pc \in Filling, UNCHANGED <<st, portal>>,
         cfs'.tpgs = cfs.tpgs, cfs'.portals = cfs.portals, rec'.pools = {},
         \A p, v \in Ids : <<TargetOf(st, p), v>> \in cfs'.luns \ cfs.luns => HasVolume(st, p, v),
         \A p, v \in Ids : VolumeDone(p, v)' => VolumeFollows(p, v)',
         rec'.pc = "lun" => Enabled(cfs', rec'.vol, st'.vols[<<rec'.pool, rec'.vol>>].name),
         rec'.pc = "gc" => rec'.vols = {}
  PROVE  Progress'
<1>1. /\ \A u \in cfs.tpgs : HasPool(st, u.id) /\ rec.pools = {}
      /\ \A p \in Ids : HasPool(st, p) => TargetFollows(p) /\ LUNsFollow(p)
  BY DEF PInv, Progress, Past, Filling, PoolDone
<1>2. \A p \in Ids : HasPool(st, p)' => TargetFollows(p)' /\ LUNsFollow(p)'
  BY <1>1, PoolKept DEF HasPool
<1>3. \A p \in Ids : PoolDone(p)' => HasPool(st, p)'
  BY DEF PoolDone
<1>4. (\A u \in cfs.tpgs : HasPool(st, u.id))'
  BY <1>1 DEF HasPool
<1>5. rec'.pc # "luns"
  BY DEF Filling
<1> QED BY <1>2, <1>3, <1>4, <1>5 DEF Progress

\* A volume that was visited still follows if its LUN, link and backstore stay.
LEMMA VolumeKept ==
  ASSUME UNCHANGED st, NEW p \in Ids, NEW v \in Ids, VolumeFollows(p, v),
         cfs.luns \subseteq cfs'.luns, cfs.links \subseteq cfs'.links,
         \A m : Enabled(cfs, v, m) => Enabled(cfs', v, m)
  PROVE  VolumeFollows(p, v)'
<1>1. LinkOf(cfs, TargetOf(st, p), v) \subseteq LinkOf(cfs', TargetOf(st, p), v)
  BY DEF LinkOf
<1> QED BY <1>1 DEF VolumeFollows

\* The next volume is picked, or there is none left.
LEMMA VolumeProgress == ASSUME PInv, ReconcileVolume PROVE Progress'
<1>1. /\ rec.pc = "volumes" /\ rec \in Rec /\ UNCHANGED <<portal, cfs>> /\ rec.pools = {}
      /\ \A p, v \in Ids : HasVolume(st, p, v) /\ <<p, v>> \notin rec.vols => VolumeFollows(p, v)
  BY DEF ReconcileVolume, PInv, IInv, TypeOK, Progress, Past, Filling, VolumeDone
<1>2. ASSUME UNCHANGED st PROVE \A p, v \in Ids : VolumeFollows(p, v) => VolumeFollows(p, v)'
  BY <1>1, <1>2 DEF VolumeFollows
<1>3. CASE rec.vols = {} /\ Proceed(RecAt("gc"))
  <2>1. rec' = RecAt("gc") /\ UNCHANGED st /\ rec'.pc = "gc" /\ rec'.pools = {} /\ rec'.vols = {}
    BY <1>3 DEF Proceed, RecAt
  <2>2. \A p, v \in Ids : VolumeDone(p, v)' => VolumeFollows(p, v)'
    BY <1>1, <1>2, <1>3, <2>1 DEF VolumeDone
  <2>3. rec.pc \in Filling /\ rec'.pc \in Filling
    BY <1>1, <2>1 DEF Filling
  <2> QED BY <1>1, <2>1, <2>2, <2>3, FillingKept
<1>4. ASSUME NEW k \in rec.vols, NEW z,
             Proceed([rec EXCEPT !.pc = "store", !.vols = @ \ {k},
                      !.pool = k[1], !.vol = k[2], !.size = z])
      PROVE  Progress'
  <2>1. /\ UNCHANGED st /\ rec'.pc = "store" /\ rec'.pools = {} /\ rec'.vols = rec.vols \ {k}
        /\ rec'.pool = k[1] /\ rec'.vol = k[2]
    BY <1>1, <1>4 DEF Proceed, Rec
  <2>2. k = <<k[1], k[2]>>
    BY <1>1 DEF Rec
  <2>3. \A p, v \in Ids : VolumeDone(p, v)' => HasVolume(st, p, v) /\ <<p, v>> \notin rec.vols
    BY <2>1, <2>2 DEF VolumeDone
  <2>4. rec.pc \in Filling /\ rec'.pc \in Filling
    BY <1>1, <2>1 DEF Filling
  <2>5. \A p, v \in Ids : VolumeDone(p, v)' => VolumeFollows(p, v)'
    BY <1>1, <1>2, <2>1, <2>3
  <2> QED BY <1>1, <2>1, <2>4, <2>5, FillingKept
<1>5. CASE Stop
  BY <1>5, NotPast DEF Stop, RecAt, Past, Filling
<1> QED BY <1>3, <1>4, <1>5 DEF ReconcileVolume

\* The volume that is being visited is of a pool whose target follows; the
\* volumes before it follow.
LEMMA Visiting ==
  ASSUME PInv, rec.pc \in {"store", "lun"}
  PROVE  /\ rec \in Rec /\ cfs \in Cfs /\ st \in State /\ rec.pools = {}
         /\ rec.pool \in Ids /\ rec.vol \in Ids
         /\ HasPool(st, rec.pool) /\ HasVolume(st, rec.pool, rec.vol) /\ TargetFollows(rec.pool)
         /\ \A p, v \in Ids : VolumeDone(p, v) => VolumeFollows(p, v)
<1>1. rec \in Rec /\ cfs \in Cfs /\ st \in State
  BY DEF PInv, IInv, TypeOK
<1>2. rec.pool \in Ids /\ rec.vol \in Ids
  BY <1>1 DEF Rec
<1>3. HasVolume(st, rec.pool, rec.vol)
  BY DEF PInv, IInv, RecOK
<1>4. HasPool(st, rec.pool)
  BY <1>2, <1>3 DEF PInv, IInv, DurableOK, WellNumbered
<1>5. rec.pools = {} /\ rec.pc \in Past /\ rec.pc \notin {"portals", "luns"}
  BY DEF PInv, Progress, Past, Filling
<1>6. TargetFollows(rec.pool)
  <2>1. \A p \in Ids : PoolDone(p) => TargetFollows(p)
    BY <1>5 DEF PInv, Progress
  <2>2. PoolDone(rec.pool)
    BY <1>4, <1>5 DEF PoolDone
  <2> QED BY <1>2, <2>1, <2>2
<1>7. \A p, v \in Ids : VolumeDone(p, v) => VolumeFollows(p, v)
  BY DEF PInv, Progress, Filling
<1> QED BY <1>1, <1>2, <1>3, <1>4, <1>5, <1>6, <1>7

\* Its backstore is made; others stay enabled.
LEMMA StoreProgress == ASSUME PInv, ReconcileStore PROVE Progress'
<1> DEFINE n == st.vols[<<rec.pool, rec.vol>>].name
           path == PathOf(st, rec.pool, rec.vol)
           S == UpsertBackstore(cfs, rec.vol, n, path, rec.size)
           q == [rec EXCEPT !.pc = "lun"]
<1>1. /\ rec.pc = "store" /\ rec \in Rec /\ cfs \in Cfs /\ UNCHANGED portal /\ rec.pools = {}
      /\ \A p, v \in Ids : VolumeDone(p, v) => VolumeFollows(p, v)
  BY Visiting DEF ReconcileStore
<1>2. rec.pool \in Ids /\ rec.vol \in Ids /\ path \in Paths /\ path # NoPath
  <2>1. /\ rec.pool \in Ids /\ rec.vol \in Ids /\ st \in State
        /\ HasPool(st, rec.pool) /\ HasVolume(st, rec.pool, rec.vol)
    BY <1>1, Visiting
  <2>2. path \in Paths
    BY <2>1, VolumeType
  <2> HIDE DEF path
  <2> QED BY <2>1, <2>2, LioAssumption DEF NoPath
<1>3. /\ q.pc = "lun" /\ q.pools = rec.pools /\ q.vols = rec.vols
      /\ q.pool = rec.pool /\ q.vol = rec.vol
  BY <1>1 DEF Rec
<1>4. CASE rec'.pc \notin Past
  BY <1>4, NotPast
<1>5. CASE rec' = q /\ UNCHANGED <<server, st>> /\ \E o \in S : o.ok /\ cfs' = o.c
  <2> HIDE DEF q, n, path
  <2>1. PICK o \in S : o.ok /\ cfs' = o.c
    BY <1>5
  <2>2. /\ Enabled(cfs', rec.vol, n) /\ \A j, m : Enabled(cfs, j, m) => Enabled(cfs', j, m)
        /\ cfs'.links = cfs.links /\ cfs'.luns = cfs.luns
        /\ cfs'.tpgs = cfs.tpgs /\ cfs'.portals = cfs.portals
    BY <1>1, <1>2, <2>1, UpsertBackstoreDone, UpsertBackstoreEnabled, StoresOnly
  <2>3. \A p, v \in Ids : VolumeFollows(p, v) => VolumeFollows(p, v)'
    BY <1>5, <2>2, VolumeKept
  <2>4. \A p, v \in Ids : VolumeDone(p, v)' => VolumeDone(p, v)
    BY <1>1, <1>3, <1>5 DEF VolumeDone
  <2>5. \A p, v \in Ids : VolumeDone(p, v)' => VolumeFollows(p, v)'
    BY <1>1, <2>3, <2>4
  <2>6. Enabled(cfs', rec'.vol, st'.vols[<<rec'.pool, rec'.vol>>].name)
    BY <1>3, <1>5, <2>2 DEF n
  <2>7. rec.pc \in Filling /\ rec'.pc \in Filling /\ rec'.pc = "lun" /\ rec'.pools = {}
    BY <1>1, <1>3, <1>5 DEF Filling
  <2> QED BY <1>1, <1>5, <2>2, <2>5, <2>6, <2>7, FillingKept
<1>6. Apply(S, q)
  BY DEF ReconcileStore
<1> HIDE DEF S, q
<1> QED BY <1>4, <1>5, <1>6, ApplyCases

\* Its LUN is made and linked: the volume follows.
LEMMA LunProgress == ASSUME PInv, ReconcileLun PROVE Progress'
<1> DEFINE n == st.vols[<<rec.pool, rec.vol>>].name
           t == TargetOf(st, rec.pool)
           S == UpsertLUN(cfs, t, rec.vol, rec.vol, n)
           q == [rec EXCEPT !.pc = "volumes", !.vol = 0, !.size = 0]
<1>1. /\ rec.pc = "lun" /\ rec \in Rec /\ cfs \in Cfs /\ UNCHANGED portal
      /\ rec.pools = {} /\ HasVolume(st, rec.pool, rec.vol) /\ Enabled(cfs, rec.vol, n)
      /\ \A p, v \in Ids : VolumeDone(p, v) => VolumeFollows(p, v)
  BY Visiting DEF ReconcileLun, PInv, Progress
<1>2. rec.pool \in Ids /\ rec.vol \in Ids /\ t \in Target /\ t.id = rec.pool /\ t \in cfs.tpgs
  <2>1. /\ rec.pool \in Ids /\ rec.vol \in Ids /\ st \in State
        /\ HasPool(st, rec.pool) /\ TargetFollows(rec.pool)
    BY <1>1, Visiting
  <2> QED BY <2>1, TargetType DEF TargetFollows, TargetOf
<1>3. q.pc = "volumes" /\ q.pools = rec.pools /\ q.vols = rec.vols
  BY <1>1 DEF Rec
<1>4. CASE rec'.pc \notin Past
  BY <1>4, NotPast
<1>5. CASE rec' = q /\ UNCHANGED <<server, st>> /\ \E o \in S : o.ok /\ cfs' = o.c
  <2> HIDE DEF q, n
  <2>1. PICK o \in S : o.ok /\ cfs' = o.c
    BY <1>5
  <2>2. /\ cfs'.tpgs = cfs.tpgs /\ cfs'.portals = cfs.portals
        /\ cfs'.luns = cfs.luns \cup {<<t, rec.vol>>} /\ cfs.links \subseteq cfs'.links
        /\ cfs'.stores = cfs.stores /\ LinkOf(cfs', t, rec.vol) # {}
    <3> HIDE DEF t
    <3>1. \A r \in UpsertLUN(cfs, t, rec.vol, rec.vol, n) : r.ok =>
            /\ r.c.tpgs = cfs.tpgs \cup {t} /\ r.c.portals = cfs.portals
            /\ r.c.luns = cfs.luns \cup {<<t, rec.vol>>} /\ cfs.links \subseteq r.c.links
            /\ r.c.stores = cfs.stores /\ LinkOf(r.c, t, rec.vol) # {}
      BY <1>1, <1>2, UpsertLUNDone
    <3> QED BY <1>2, <2>1, <3>1
  <2>3. \A j, m : Enabled(cfs, j, m) => Enabled(cfs', j, m)
    BY <2>2 DEF Enabled
  <2>4. \A p, v \in Ids : VolumeFollows(p, v) => VolumeFollows(p, v)'
    BY <1>5, <2>2, <2>3, VolumeKept
  <2>5. \A p, v \in Ids : p = rec.pool /\ v = rec.vol => VolumeFollows(p, v)'
    BY <1>1, <1>5, <2>2, <2>3 DEF VolumeFollows, n
  <2>6. \A p, v \in Ids : VolumeDone(p, v)' => VolumeDone(p, v) \/ (p = rec.pool /\ v = rec.vol)
    BY <1>3, <1>5 DEF VolumeDone
  <2>7. \A p, v \in Ids : VolumeDone(p, v)' => VolumeFollows(p, v)'
    BY <1>1, <2>4, <2>5, <2>6
  <2>8. \A p, v \in Ids : <<TargetOf(st, p), v>> \in cfs'.luns \ cfs.luns => HasVolume(st, p, v)
    <3>1. TAKE p, v \in Ids
    <3>2. TargetOf(st, p).id = p
      BY DEF TargetOf
    <3> HIDE DEF t
    <3> QED BY <1>1, <1>2, <2>2, <3>2
  <2>9. rec.pc \in Filling /\ rec'.pc \in Filling /\ rec'.pc = "volumes" /\ rec'.pools = {}
    BY <1>1, <1>3, <1>5 DEF Filling
  <2> QED BY <1>1, <1>5, <2>2, <2>7, <2>8, <2>9, FillingKept
<1>6. Apply(S, q)
  BY DEF ReconcileLun
<1> HIDE DEF S, q
<1> QED BY <1>4, <1>5, <1>6, ApplyCases

\* A leftover backstore goes only if nothing links it, so it is no volume's.
LEMMA BackstoresProgress == ASSUME PInv, ReconcileBackstores PROVE Progress'
<1>1. /\ rec.pc = "gc" /\ rec \in Rec /\ cfs \in Cfs /\ UNCHANGED portal
      /\ rec.pools = {} /\ rec.vols = {} /\ Placed(cfs) /\ Backed(cfs)
      /\ \A p, v \in Ids : HasVolume(st, p, v) => VolumeFollows(p, v)
  BY DEF ReconcileBackstores, PInv, IInv, TypeOK, Progress, Past, Filling, VolumeDone
<1>2. CASE rec'.pc \notin Past
  BY <1>2, NotPast
<1>3. CASE Proceed(RecAt(IF server = "booting" THEN "save" ELSE "idle"))
  BY <1>2, <1>3 DEF Proceed, RecAt, Past, Filling
<1>4. ASSUME NEW i, rec' = rec, UNCHANGED <<server, st>>,
             NEW o \in DeleteBackstore(cfs, i), o.ok, cfs' = o.c
      PROVE  Progress'
  <2>1. /\ \A j, m : Enabled(cfs, j, m) /\ j # i => Enabled(cfs', j, m)
        /\ \A k \in cfs.links : k[3] # i
    BY <1>1, <1>4, DeleteBackstoreDone
  <2>2. /\ cfs'.links = cfs.links /\ cfs'.luns = cfs.luns
        /\ cfs'.tpgs = cfs.tpgs /\ cfs'.portals = cfs.portals
    <3>1. \A r \in DeleteBackstore(cfs, i) :
            /\ r.c.links = cfs.links /\ r.c.luns = cfs.luns
            /\ r.c.tpgs = cfs.tpgs /\ r.c.portals = cfs.portals
      BY <1>1, StoresOnly
    <3> QED BY <1>4, <3>1
  <2>3. \A p, v \in Ids : VolumeFollows(p, v) => v # i
    BY <1>1, <2>1 DEF VolumeFollows, LinkOf, Placed
  <2>4. \A p, v \in Ids : VolumeFollows(p, v) => VolumeFollows(p, v)'
    BY <1>4, <2>1, <2>3, <2>2, VolumeKept
  <2>5. \A p, v \in Ids : VolumeDone(p, v)' => HasVolume(st, p, v)
    BY <1>4 DEF VolumeDone
  <2>6. \A p, v \in Ids : VolumeDone(p, v)' => VolumeFollows(p, v)'
    BY <1>1, <2>4, <2>5
  <2>7. rec.pc \in Filling /\ rec'.pc \in Filling /\ rec'.pc = "gc"
    BY <1>1, <1>4 DEF Filling
  <2> QED BY <1>1, <1>4, <2>6, <2>7, <2>2, FillingKept
<1>5. ASSUME NEW i \in StaleHBAs, Apply(DeleteBackstore(cfs, i), rec) PROVE Progress'
  BY <1>2, <1>4, <1>5, ApplyCases
<1> QED BY <1>3, <1>5 DEF ReconcileBackstores

\* Every other step starts or ends a run, or is a step of a handler that does
\* not lock while one runs.
LEMMA QuietProgress == ASSUME PInv, [Next]_vars, ~Reconcile PROVE Progress'
<1>1. CASE UNCHANGED <<st, cfs, rec, portal>>
  BY <1>1 DEF PInv, Progress, PoolDone, VolumeDone, TargetFollows, LUNsFollow, VolumeFollows
<1>2. CASE rec'.pc \notin Past
  BY <1>2, NotPast
<1>3. CASE UNCHANGED rec /\ rec.pc = "idle"
  BY <1>2, <1>3 DEF Past, Filling
<1>4. ASSUME NEW h \in Handlers, Handle(h) PROVE Progress'
  <2>1. CASE CreateVolume(h) \/ Lock(h)
    BY <1>3, <2>1 DEF CreateVolume, Lock, CreatePoolLocked, DeletePoolLocked,
                      DeleteVolumeLocked, LockFree
  <2>2. CASE CreatePool(h) \/ DeletePool(h) \/ DeleteVolume(h)
    BY <1>1, <2>2 DEF CreatePool, DeletePool, DeleteVolume, Enter
  <2>3. CASE Work(h)
    <3>1. writer = h /\ UNCHANGED rec
      BY <2>3 DEF Work, CreateVolumeStore, CreateVolumeLun, DeleteVolumeStore,
                  DeleteVolumeFile, SaveOpen, SaveWrite, Holds
    <3>2. rec.pc = "idle"
      BY <3>1, SigmaAssumption DEF PInv, IInv, LocksOK
    <3> QED BY <1>3, <3>1, <3>2
  <2> QED BY <1>4, <2>1, <2>2, <2>3 DEF Handle, Arrive
<1>5. CASE ReconcileStart \/ ReconcileFails \/ Boot \/ BootSaveOpen \/ BootSaveWrite
           \/ Crash \/ Reboot
  <2>1. rec'.pc \in {"idle", "targets", "write"}
    BY <1>5 DEF ReconcileStart, ReconcileFails, Boot, BootSaveOpen, BootSaveWrite,
                Crash, Reboot, Die, Stop, Proceed, RecAt
  <2> QED BY <1>2, <2>1 DEF Past, Filling
<1>6. CASE ClientWrites
  BY <1>1, <1>6 DEF ClientWrites, ClientWrite
<1>7. CASE UNCHANGED vars
  BY <1>1, <1>7 DEF vars
<1> QED BY <1>4, <1>5, <1>6, <1>7 DEF Next, ClientWrites

-----------------------------------------------------------------------------
(* The theorems                                                            *)

\* What a run of ReconcileAll has established for the pools and volumes it has
\* visited stays so as long as it runs, in every reachable state.
THEOREM ProgressInvariance == Spec => []PInv
<1>1. Init => PInv
  <2> SUFFICES ASSUME Init PROVE PInv
    OBVIOUS
  <2>1. IInv
    BY InitIInv
  <2>2. Backed(cfs) /\ Placed(cfs)
    BY DEF Init, EmptyCfs, Backed, Placed
  <2>3. Progress
    BY DEF Init, RecAt, Progress, Past, Filling
  <2> QED BY <2>1, <2>2, <2>3 DEF PInv
<1>2. PInv /\ [Next]_vars => PInv'
  <2> SUFFICES ASSUME PInv, [Next]_vars PROVE PInv'
    OBVIOUS
  <2>1. IInv' /\ Backed(cfs') /\ Placed(cfs')
    BY NextIInv, NextBacked, NextPlaced DEF PInv
  <2>2. Progress'
    BY QuietProgress, TargetsProgress, PoolProgress, PortalsProgress, LUNsProgress,
       VolumeProgress, StoreProgress, LunProgress, BackstoresProgress DEF Reconcile
  <2> QED BY <2>1, <2>2 DEF PInv
<1> QED BY <1>1, <1>2, PTL DEF Spec

\* Where ReconcileAll starts on the leftover backstores, every volume follows.
LEMMA Established ==
  ASSUME PInv, rec.pc = "gc"
  PROVE  /\ \A t \in cfs.tpgs : HasPool(st, t.id)
         /\ \A p \in Ids : HasPool(st, p) => TargetFollows(p) /\ LUNsFollow(p)
         /\ \A p, v \in Ids : HasVolume(st, p, v) => HasPool(st, p) /\ VolumeFollows(p, v)
<1>1. \A t \in cfs.tpgs : HasPool(st, t.id)
  BY DEF PInv, Progress, Past, Filling
<1>2. \A p \in Ids : HasPool(st, p) => TargetFollows(p) /\ LUNsFollow(p)
  BY DEF PInv, Progress, Past, Filling, PoolDone
<1>3. \A p, v \in Ids : HasVolume(st, p, v) => VolumeFollows(p, v)
  BY DEF PInv, Progress, Filling, VolumeDone
<1>4. \A p, v \in Ids : HasVolume(st, p, v) => HasPool(st, p)
  BY DEF PInv, IInv, DurableOK, WellNumbered
<1> QED BY <1>1, <1>2, <1>3, <1>4

\* When ReconcileAll has come to the leftover backstores the kernel follows the
\* state, whatever the handlers, failures and crashes left it with.
THEOREM ReconcileFollows == Spec => []ReconcileEstablishes
<1>1. PInv => ReconcileEstablishes
  <2> SUFFICES ASSUME PInv, rec.pc = "gc" PROVE KernelFollows
    BY DEF ReconcileEstablishes
  <2>1. ASSUME NEW p \in Ids, HasPool(st, p)
        PROVE  ListLUNs(cfs, TargetOf(st, p)) = {v \in Ids : HasVolume(st, p, v)}
    BY <2>1, Established DEF LUNsFollow, VolumeFollows, ListLUNs
  <2>2. ASSUME NEW p \in Ids, HasPool(st, p), NEW v \in ListLUNs(cfs, TargetOf(st, p))
        PROVE  \E k \in LinkOf(cfs, TargetOf(st, p), v) : Enabled(cfs, k[3], k[4])
    <3>1. v \in Ids /\ HasVolume(st, p, v)
      BY <2>1, <2>2 DEF ListLUNs
    <3>2. LinkOf(cfs, TargetOf(st, p), v) # {}
      BY <3>1, Established DEF VolumeFollows
    <3> QED BY <3>2 DEF PInv, Backed, LinkOf
  <2>3. \A p \in Ids : HasPool(st, p) => TargetFollows(p)
    BY Established
  <2> QED BY <2>1, <2>2, <2>3, Established DEF KernelFollows, TargetFollows
<1> QED BY <1>1, ProgressInvariance, PTL

\* Only names stand between ReconcileAll and a leftover backstore: one that a
\* LUN of its pool's own target links is a volume's, so its HBA holds another.
THEOREM WedgedByNames == Spec => []WedgedByNamesOnly
<1>1. PInv => WedgedByNamesOnly
  <2> SUFFICES ASSUME PInv, rec.pc = "gc", NEW i \in StaleHBAs, NEW k \in cfs.links, k[3] = i,
                      ~Misnamed(k[1])
               PROVE  /\ \E p \in Ids : HasVolume(st, p, i)
                      /\ \E m, n \in NamesOf(cfs, i) : m # n
    BY DEF WedgedByNamesOnly, LinkedNames
  <2> DEFINE N == NamesOf(cfs, i)
  <2>1. cfs \in Cfs /\ Placed(cfs)
    BY DEF PInv, IInv, TypeOK
  <2>2. k[1] \in Target /\ k[1].id \in Ids /\ k[3] \in Ids
    BY <2>1 DEF Cfs, Target
  <2>4. PICK p \in Ids : p = k[1].id
    BY <2>2
  <2>5. k[2] = i /\ <<k[1], i>> \in cfs.luns /\ HasPool(st, p)
    BY <2>1, <2>4, Established DEF Placed
  <2>6. k[1] = TargetOf(st, p)
    BY <2>4, <2>5 DEF Misnamed
  <2>7. i \in Ids /\ HasVolume(st, p, i)
    BY <2>2, <2>5, <2>6, Established DEF LUNsFollow, ListLUNs
  <2>8. st.vols[<<p, i>>].name \in N
    <3>1. VolumeFollows(p, i)
      BY <2>7, Established
    <3>2. \E s \in cfs.stores : s.id = i /\ s.name = st.vols[<<p, i>>].name
      BY <3>1 DEF VolumeFollows, Enabled
    <3> QED BY <3>2 DEF NamesOf
  <2>9. N \subseteq Nat /\ IsFiniteSet(N)
    <3>1. \A s \in cfs.stores : s.name \in Names
      BY <2>1 DEF Cfs, Store
    <3>2. N \subseteq Names
      BY <3>1 DEF NamesOf
    <3> HIDE DEF N
    <3> QED BY <3>2, LioAssumption, FS_Subset
  <2>10. Max(N) \in N
    <3> HIDE DEF N
    <3> QED BY <2>8, <2>9, MaxIn
  <2>11. st.vols[<<p, i>>].name # Max(N)
    BY DEF StaleHBAs, ListBackstores
  <2> QED BY <2>7, <2>8, <2>10, <2>11
<1> QED BY <1>1, ProgressInvariance, PTL
-----------------------------------------------------------------------------
(* The image a LUN serves                                                   *)

\* What the kernel operations enable and link.

\* UpsertBackstore opens no image but the one it is given.
LEMMA UpsertBackstoreOpens ==
  ASSUME NEW c \in Cfs, NEW i, NEW n, NEW q, NEW z,
         NEW r \in UpsertBackstore(c, i, n, q, z), NEW s \in r.c.stores, s.path # NoPath
  PROVE  \/ \E x \in c.stores : x.id = s.id /\ x.name = s.name /\ x.path = s.path
         \/ s.id = i /\ s.name = n /\ s.path = q
<1> DEFINE old == {x \in c.stores : x.id = i /\ x.name = n}
           opened == old \cap {x \in old : x.path # NoPath}
           with(x) == [c EXCEPT !.stores = (@ \ old) \cup {x}]
           new(p, y) == [id |-> i, name |-> n, path |-> p, size |-> y]
<1>1. \A x : with(x).stores = (c.stores \ old) \cup {x}
  <2> HIDE DEF old
  <2> QED BY DEF Cfs
<1>2. \A p, y : new(p, y).id = i /\ new(p, y).name = n /\ new(p, y).path = p
  OBVIOUS
<1>3. ASSUME NEW p, NEW y, r \in {Done(with(new(p, y))), Broken(with(new(p, y)))}
      PROVE  s \in c.stores \/ s = new(p, y)
  <2>1. r.c = with(new(p, y))
    <3> HIDE DEF with, new
    <3> QED BY <1>3, OutcomeIs
  <2> HIDE DEF with, new
  <2> QED BY <1>1, <2>1
<1>4. CASE r = Broken(c)
  BY <1>4, OutcomeIs
<1>5. CASE opened = {} /\ r # Broken(c)
  <2>1. \E y : r \in {Done(with(new(q, y))), Broken(with(new(q, y))), Broken(with(new(NoPath, y)))}
    <3> HIDE DEF with, new
    <3> QED BY <1>5 DEF UpsertBackstore, with, new
  <2> HIDE DEF with, new
  <2> QED BY <1>2, <1>3, <2>1
<1>6. CASE opened # {} /\ r # Broken(c)
  <2>1. PICK x \in opened : \E y : r \in {Done(with(new(x.path, y))), Broken(with(new(x.path, y)))}
    BY <1>6 DEF UpsertBackstore
  <2>2. x \in c.stores /\ x.id = i /\ x.name = n
    OBVIOUS
  <2> HIDE DEF with, new
  <2> QED BY <1>2, <1>3, <2>1, <2>2
<1> QED BY <1>4, <1>5, <1>6

\* DeleteBackstore makes none.
LEMMA DeleteBackstoreTakes ==
  ASSUME NEW c \in Cfs, NEW i, NEW r \in DeleteBackstore(c, i)
  PROVE  r.c.stores \subseteq c.stores
<1>1. \A X : WithoutStores(c, i, X).stores \subseteq c.stores
  BY DEF WithoutStores, Cfs
<1>2. \E X : r \in {Done(WithoutStores(c, i, X)), Refused(WithoutStores(c, i, X)),
                    Broken(WithoutStores(c, i, X))}
  BY DEF DeleteBackstore
<1> QED BY <1>1, <1>2, OutcomeIs

\* UpsertLUN makes no link but the one it is given.
LEMMA UpsertLUNLinks ==
  ASSUME NEW c \in Cfs, NEW t \in Target, NEW l \in Ids, NEW i \in Ids, NEW n \in Names,
         NEW r \in UpsertLUN(c, t, l, i, n)
  PROVE  r.c.stores = c.stores /\ r.c.links \subseteq c.links \cup {<<t, l, i, n>>}
<1> DEFINE m == MkTarget(c, t)
           made == [m EXCEPT !.luns = @ \cup {<<t, l>>}]
           linked == [made EXCEPT !.links = @ \cup {<<t, l, i, n>>}]
<1>1. Fewer(made, c) /\ made \in Cfs
  <2>1. m \in Cfs /\ Fewer(m, c)
    BY MkTargetType, PartsFewer
  <2> HIDE DEF m
  <2> QED BY <2>1 DEF Fewer, Cfs
<1>2. linked.links = made.links \cup {<<t, l, i, n>>} /\ linked.stores = made.stores
  <2> HIDE DEF made
  <2> QED BY <1>1 DEF Cfs
<1>3. \/ r \in {Done(made), Refused(made), Broken(made), Done(linked)}
      \/ \E d \in MadeSoFar(c, t) : r = Broken(d)
  BY DEF UpsertLUN
<1>4. \A d \in MadeSoFar(c, t) : Fewer(d, c)
  BY PartsFewer
<1> HIDE DEF made, linked
<1> QED BY <1>1, <1>2, <1>3, <1>4, OutcomeIs DEF Fewer

\* A volume of state s wants the LUN of its number, on target t, to link the
\* backstore of its number and name n.
VolumeWants(s, t, v, n) == \E p \in Ids :
    HasVolume(s, p, v) /\ t = TargetOf(s, p) /\ n = s.vols[<<p, v>>].name

\* So does a CreateVolume call that holds the lock.
Makes(c) == c.op = "CreateVolume" /\ c.pc \in {"store", "lun"}
CallWants(t, v, n) == \E h \in Handlers :
    /\ Makes(call[h]) /\ call[h].vol = v
    /\ t = TargetOf(st, call[h].pool) /\ n = call[h].name

\* What is wanted now, or would be after a restart.
Wanted(t, v, n) == VolumeWants(st, t, v, n) \/ VolumeWants(file.st, t, v, n) \/ CallWants(t, v, n)
ImageOf(t, n)   == DiskPath[<<t.name, n>>]

\* Nothing else is enabled or linked under these names.
Served(t, v, n) ==
    /\ \A s \in cfs.stores : s.id = v /\ s.name = n => s.path \in {NoPath, ImageOf(t, n)}
    /\ \A k \in LinkOf(cfs, t, v) : k[4] = n

\* All that is wanted under one id can be had at the same time, and nothing else
\* is there.
IdServed(v) == \A t, u \in Target, m, n \in Names :
    Wanted(t, v, m) => /\ Served(t, v, m)
                       /\ Wanted(u, v, n) => /\ m = n => ImageOf(t, m) = ImageOf(u, n)
                                             /\ t = u => m = n

ImagesOK == \A v \in Ids \ adopted : IdServed(v)

\* A step enables and links only what it has found, or what was wanted; it takes
\* the file only from a backstore that nobody wants, or whose volume it bereaves.
KernelGets ==
    /\ \A s \in cfs'.stores : s.path # NoPath =>
          \/ \E x \in cfs.stores : x.id = s.id /\ x.name = s.name /\ x.path = s.path
          \/ \E t \in Target : Wanted(t, s.id, s.name) /\ s.path = ImageOf(t, s.name)
          \/ s.id \in adopted \cup Bereaved
          \/ \A t \in Target : ~Wanted(t, s.id, s.name)
    /\ \A k \in cfs'.links : k \in cfs.links \/ Wanted(k[1], k[2], k[4])

\* If it adds no want, nothing can go wrong.
LEMMA ServedKept ==
  ASSUME IInv', NEW v \in Ids \ (adopted \cup Bereaved), IdServed(v), KernelGets,
         \A t \in Target, n \in Names : Wanted(t, v, n)' => Wanted(t, v, n)
  PROVE  IdServed(v)'
<1>1. ASSUME NEW t \in Target, NEW m \in Names, Wanted(t, v, m)' PROVE Served(t, v, m)'
  <2>1. Wanted(t, v, m) /\ Served(t, v, m)
    BY <1>1 DEF IdServed
  <2>2. ASSUME NEW s \in cfs'.stores, s.id = v, s.name = m, s.path # NoPath
        PROVE  s.path = ImageOf(t, m)
    <3>1. CASE \E x \in cfs.stores : x.id = s.id /\ x.name = s.name /\ x.path = s.path
      BY <2>1, <2>2, <3>1 DEF Served
    <3>2. ASSUME NEW u \in Target, Wanted(u, s.id, s.name), s.path = ImageOf(u, s.name)
          PROVE  s.path = ImageOf(t, m)
      BY <2>1, <2>2, <3>2 DEF IdServed
    <3>3. v \notin adopted \cup Bereaved /\ \E u \in Target : Wanted(u, v, m)
      BY <2>1
    <3> HIDE DEF KernelGets
    <3>4. \/ \E x \in cfs.stores : x.id = s.id /\ x.name = s.name /\ x.path = s.path
          \/ \E u \in Target : Wanted(u, s.id, s.name) /\ s.path = ImageOf(u, s.name)
      BY <2>2, <3>3 DEF KernelGets
    <3> QED BY <3>1, <3>2, <3>4
  <2>3. ASSUME NEW k \in LinkOf(cfs', t, v) PROVE k[4] = m
    <3>1. k \in cfs'.links /\ k[1] = t /\ k[2] = v
      BY <2>3 DEF LinkOf
    <3>2. k[4] \in Names
      BY <3>1 DEF IInv, TypeOK, Cfs
    <3>3. CASE k \in cfs.links
      <4>1. k \in LinkOf(cfs, t, v)
        BY <3>1, <3>3 DEF LinkOf
      <4> QED BY <2>1, <4>1 DEF Served
    <3>4. CASE Wanted(k[1], k[2], k[4])
      BY <2>1, <3>1, <3>2, <3>4 DEF IdServed
    <3> QED BY <3>1, <3>3, <3>4 DEF KernelGets
  <2> QED BY <2>2, <2>3 DEF Served, ImageOf, LinkOf
<1>2. ASSUME NEW t \in Target, NEW u \in Target, NEW m \in Names, NEW n \in Names,
             Wanted(t, v, m)', Wanted(u, v, n)'
      PROVE  /\ m = n => ImageOf(t, m) = ImageOf(u, n)
             /\ t = u => m = n
  BY <1>2 DEF IdServed
<1> QED BY <1>1, <1>2 DEF IdServed, ImageOf

-----------------------------------------------------------------------------
(* What a step adds to what is wanted                                       *)

\* The state operators add no want but PutVolume's own.
LEMMA StateWants ==
  ASSUME NEW s \in State, NEW p \in Ids, NEW v \in Ids, NEW t, NEW n
  PROVE  /\ ~VolumeWants(EmptyState, t, v, n)
         /\ VolumeWants(DropPool(s, p), t, v, n) => VolumeWants(s, t, v, n)
         /\ \A w \in Ids : VolumeWants(DropVolume(s, p, w), t, v, n) => VolumeWants(s, t, v, n)
         /\ \A m \in Names : ~HasPool(s, p) /\ WellNumbered(s) =>
              (VolumeWants(PutPool(s, p, m), t, v, n) => VolumeWants(s, t, v, n))
         /\ \A w \in Ids \ {0}, vol \in Volume :
              VolumeWants(PutVolume(s, p, w, vol), t, v, n) =>
                 VolumeWants(s, t, v, n) \/ (v = w /\ t = TargetOf(s, p) /\ n = vol.name)
<1>1. ~VolumeWants(EmptyState, t, v, n)
  BY EmptyStateFacts DEF VolumeWants
<1>2. ASSUME VolumeWants(DropPool(s, p), t, v, n) PROVE VolumeWants(s, t, v, n)
  <2>1. PICK q \in Ids : /\ HasVolume(DropPool(s, p), q, v) /\ t = TargetOf(DropPool(s, p), q)
                         /\ n = DropPool(s, p).vols[<<q, v>>].name
    BY <1>2 DEF VolumeWants
  <2>2. q # p /\ HasVolume(s, q, v)
    BY <2>1, DropPoolFacts
  <2>3. /\ DropPool(s, p).pools[q] = s.pools[q]
        /\ DropPool(s, p).vols[<<q, v>>] = s.vols[<<q, v>>]
    BY <2>2 DEF DropPool, State
  <2> QED BY <2>1, <2>2, <2>3 DEF VolumeWants, TargetOf
<1>3. ASSUME NEW w \in Ids, VolumeWants(DropVolume(s, p, w), t, v, n)
      PROVE  VolumeWants(s, t, v, n)
  <2> DEFINE d == DropVolume(s, p, w)
  <2>1. PICK q \in Ids : HasVolume(d, q, v) /\ t = TargetOf(d, q) /\ n = d.vols[<<q, v>>].name
    BY <1>3 DEF VolumeWants
  <2>2. ~(q = p /\ v = w) /\ HasVolume(s, q, v) /\ d.pools = s.pools
    BY <2>1, DropVolumeFacts
  <2>3. d.vols[<<q, v>>] = s.vols[<<q, v>>]
    BY <2>2 DEF DropVolume, State
  <2> HIDE DEF d
  <2> QED BY <2>1, <2>2, <2>3 DEF VolumeWants, TargetOf
<1>4. ASSUME NEW m \in Names, ~HasPool(s, p), WellNumbered(s),
             VolumeWants(PutPool(s, p, m), t, v, n)
      PROVE  VolumeWants(s, t, v, n)
  <2> DEFINE d == PutPool(s, p, m)
  <2>1. PICK q \in Ids : HasVolume(d, q, v) /\ t = TargetOf(d, q) /\ n = d.vols[<<q, v>>].name
    BY <1>4 DEF VolumeWants
  <2>2. HasVolume(s, q, v) /\ d.vols = s.vols
    BY <2>1, PutPoolFacts
  <2>3. q # p
    BY <1>4, <2>2 DEF WellNumbered
  <2>4. d.pools[q] = s.pools[q]
    BY <2>3 DEF PutPool, State
  <2> HIDE DEF d
  <2> QED BY <2>1, <2>2, <2>4 DEF VolumeWants, TargetOf
<1>5. ASSUME NEW w \in Ids \ {0}, NEW vol \in Volume, VolumeWants(PutVolume(s, p, w, vol), t, v, n)
      PROVE  VolumeWants(s, t, v, n) \/ (v = w /\ t = TargetOf(s, p) /\ n = vol.name)
  <2> DEFINE d == PutVolume(s, p, w, vol)
  <2>1. PICK q \in Ids : HasVolume(d, q, v) /\ t = TargetOf(d, q) /\ n = d.vols[<<q, v>>].name
    BY <1>5 DEF VolumeWants
  <2>2. d.pools = s.pools /\ ((q = p /\ v = w) \/ HasVolume(s, q, v))
    BY <2>1, PutVolumeFacts
  <2>3. d.vols[<<q, v>>] = IF q = p /\ v = w THEN vol ELSE s.vols[<<q, v>>]
    BY DEF PutVolume, State
  <2> HIDE DEF d
  <2> QED BY <2>1, <2>2, <2>3 DEF VolumeWants, TargetOf
<1> QED BY <1>1, <1>2, <1>3, <1>4, <1>5

\* A state with the same pools and volumes wants the same.
LEMMA SameWants ==
  ASSUME NEW s, NEW u, s.pools = u.pools, s.vols = u.vols, NEW t, NEW v, NEW n,
         VolumeWants(s, t, v, n)
  PROVE  VolumeWants(u, t, v, n)
BY DEF VolumeWants, HasVolume, TargetOf

\* Who makes a volume holds the lock, in a server that is up.
LEMMA MakerHolds ==
  ASSUME IInv, NEW h \in Handlers, Makes(call[h])
  PROVE  writer = h /\ writer # Nobody /\ server = "up" /\ rec.pc = "idle"
<1>1. call[h].pc \notin {"idle", "lock"}
  BY DEF Makes
<1>2. writer = h
  BY <1>1 DEF IInv, LocksOK
<1> QED BY <1>2, SigmaAssumption DEF IInv, LocksOK

\* No step but the one that CreateVolume arrives with adds a want.
NoNewWants(v) == \A t \in Target, n \in Names : Wanted(t, v, n)' => Wanted(t, v, n)

\* A step that changes neither state nor file, and no call but for the worse.
CallsGoOn == \A h \in Handlers : Makes(call'[h]) =>
    /\ Makes(call[h]) /\ call'[h].pool = call[h].pool
    /\ call'[h].vol = call[h].vol /\ call'[h].name = call[h].name

LEMMA FewerWants ==
  ASSUME NEW v \in Ids, CallsGoOn,
         \A t \in Target, n \in Names : VolumeWants(st', t, v, n) => Wanted(t, v, n),
         \A t \in Target, n \in Names : VolumeWants(file'.st, t, v, n) => Wanted(t, v, n),
         (\E h \in Handlers : Makes(call'[h])) => st'.pools = st.pools
  PROVE  NoNewWants(v)
<1> SUFFICES ASSUME NEW t \in Target, NEW n \in Names, Wanted(t, v, n)' PROVE Wanted(t, v, n)
  BY DEF NoNewWants
<1>1. CASE VolumeWants(st', t, v, n) \/ VolumeWants(file'.st, t, v, n)
  BY <1>1
<1>2. CASE CallWants(t, v, n)'
  <2>1. PICK h \in Handlers : /\ Makes(call'[h]) /\ call'[h].vol = v
                              /\ t = TargetOf(st', call'[h].pool) /\ n = call'[h].name
    BY <1>2 DEF CallWants, Makes
  <2>2. st'.pools = st.pools
    BY <2>1
  <2>3. /\ Makes(call[h]) /\ call[h].vol = v /\ n = call[h].name
        /\ t = TargetOf(st, call[h].pool)
    BY <2>1, <2>2 DEF CallsGoOn, TargetOf
  <2> QED BY <2>3 DEF CallWants, Wanted
<1> QED BY <1>1, <1>2 DEF Wanted, VolumeWants, HasVolume, TargetOf

-----------------------------------------------------------------------------
(* What a step enables and links was wanted                                 *)

\* The image of a volume is found under its target's and its own name.
LEMMA ImageIs ==
  ASSUME NEW s, NEW p, NEW n
  PROVE  ImageOf(TargetOf(s, p), n) = DiskPath[<<s.pools[p], n>>]
BY DEF ImageOf, TargetOf

\* A step that removes links, or backstores.
LEMMA FewerGets ==
  ASSUME cfs'.stores \subseteq cfs.stores, cfs'.links \subseteq cfs.links
  PROVE  KernelGets
BY DEF KernelGets

\* UpsertBackstore of a backstore that is wanted.
LEMMA StoreGets ==
  ASSUME IInv, NEW t \in Target, NEW i, NEW n, NEW z, Wanted(t, i, n),
         NEW r \in UpsertBackstore(cfs, i, n, ImageOf(t, n), z), cfs' = r.c
  PROVE  KernelGets
<1>1. cfs \in Cfs
  BY DEF IInv, TypeOK
<1>2. cfs'.links = cfs.links
  BY <1>1, StoresOnly
<1>3. ASSUME NEW s \in cfs'.stores, s.path # NoPath
      PROVE  \/ \E x \in cfs.stores : x.id = s.id /\ x.name = s.name /\ x.path = s.path
             \/ s.id = i /\ s.name = n /\ s.path = ImageOf(t, n)
  BY <1>1, <1>3, UpsertBackstoreOpens
<1> QED BY <1>2, <1>3 DEF KernelGets

\* UpsertLUN of a LUN that is wanted.
LEMMA LunGets ==
  ASSUME IInv, NEW t \in Target, NEW i \in Ids, NEW n \in Names, Wanted(t, i, n),
         NEW r \in UpsertLUN(cfs, t, i, i, n), cfs' = r.c
  PROVE  KernelGets
<1>1. cfs \in Cfs
  BY DEF IInv, TypeOK
<1>2. r.c.stores = cfs.stores /\ r.c.links \subseteq cfs.links \cup {<<t, i, i, n>>}
  BY <1>1, UpsertLUNLinks
<1>3. ASSUME NEW k \in cfs'.links PROVE k \in cfs.links \/ Wanted(k[1], k[2], k[4])
  BY <1>2, <1>3
<1> QED BY <1>2, <1>3 DEF KernelGets

\* ReconcileAll's steps: it makes what the volumes of the state want.
LEMMA ReconcileGets == ASSUME IInv, Reconcile PROVE KernelGets
<1> DEFINE n == st.vols[<<rec.pool, rec.vol>>].name
           t == TargetOf(st, rec.pool)
<1>1. cfs \in Cfs /\ st \in State /\ rec.pool \in Ids
  BY DEF IInv, TypeOK, Rec
<1>2. CASE Fewer(cfs', cfs)
  BY <1>2, FewerGets DEF Fewer
<1>3. ASSUME NEW S, NEW r, Apply(S, r), \A o \in S : Fewer(o.c, cfs) PROVE KernelGets
  BY <1>2, <1>3 DEF Apply
<1>4. CASE UNCHANGED cfs
  BY <1>2, <1>4 DEF Fewer
<1>5. CASE ReconcileTargets /\ cfs' # cfs
  <2>1. \E u : Apply(DeleteTarget(cfs, u), rec)
    BY <1>5 DEF ReconcileTargets
  <2> QED BY <1>1, <1>3, <2>1, DeleteTargetFewer
<1>6. CASE ReconcilePool /\ cfs' # cfs
  <2>1. \E u, r : Apply(UpsertTarget(cfs, u), r)
    BY <1>6 DEF ReconcilePool
  <2> QED BY <1>1, <1>3, <2>1, TargetOpsFewer
<1>7. CASE ReconcilePortals
  <2>1. \E r : Apply(UpsertOnlyPortal(cfs, t, portal), r)
    BY <1>7 DEF ReconcilePortals
  <2>2. t \in Target
    BY <1>7, ReconcileTypes DEF ReconcilePortals
  <2> QED BY <1>1, <1>3, <2>1, <2>2, TargetOpsFewer
<1>8. CASE ReconcileLUNs /\ cfs' # cfs
  <2>1. \E u, l : Apply(DeleteLUN(cfs, u, l), rec)
    BY <1>8 DEF ReconcileLUNs
  <2> QED BY <1>1, <1>3, <2>1, TargetOpsFewer
<1>9. CASE ReconcileVolume
  BY <1>4, <1>9 DEF ReconcileVolume
<1>10. rec.pc \in {"store", "lun"} =>
         t \in Target /\ rec.vol \in Ids /\ n \in Names /\ Wanted(t, rec.vol, n)
  <2> SUFFICES ASSUME rec.pc \in {"store", "lun"}
               PROVE  t \in Target /\ rec.vol \in Ids /\ n \in Names /\ Wanted(t, rec.vol, n)
    OBVIOUS
  <2>1. HasVolume(st, rec.pool, rec.vol)
    BY DEF IInv, RecOK
  <2> QED BY <1>1, <2>1, ReconcileTypes DEF Wanted, VolumeWants
<1>11. CASE ReconcileStore
  <2>1. rec.pc = "store" /\ \E r : Apply(UpsertBackstore(cfs, rec.vol, n,
                                         PathOf(st, rec.pool, rec.vol), rec.size), r)
    BY <1>11 DEF ReconcileStore
  <2>2. PathOf(st, rec.pool, rec.vol) = ImageOf(t, n)
    BY ImageIs DEF PathOf
  <2> HIDE DEF t, n
  <2>3. PICK o \in UpsertBackstore(cfs, rec.vol, n, ImageOf(t, n), rec.size) : cfs' = o.c
    BY <2>1, <2>2 DEF Apply
  <2> QED BY <1>10, <2>1, <2>3, StoreGets
<1>12. CASE ReconcileLun
  <2>1. rec.pc = "lun" /\ \E r : Apply(UpsertLUN(cfs, t, rec.vol, rec.vol, n), r)
    BY <1>12 DEF ReconcileLun
  <2> HIDE DEF t, n
  <2>2. PICK o \in UpsertLUN(cfs, t, rec.vol, rec.vol, n) : cfs' = o.c
    BY <2>1 DEF Apply
  <2> QED BY <1>10, <2>1, <2>2, LunGets
<1>13. CASE ReconcileBackstores /\ cfs' # cfs
  <2>1. \E i : Apply(DeleteBackstore(cfs, i), rec)
    BY <1>13 DEF ReconcileBackstores
  <2>2. PICK i : \E o \in DeleteBackstore(cfs, i) : cfs' = o.c
    BY <2>1 DEF Apply
  <2> QED BY <1>1, <2>2, DeleteBackstoreTakes, StoresOnly, FewerGets
<1> QED BY <1>4, <1>5, <1>6, <1>7, <1>8, <1>9, <1>11, <1>12, <1>13 DEF Reconcile

\* DeleteVolume takes the file of the volume's image from backstores of other ids
\* alone, and where that is the image a volume wants, the volume is bereaved.
LEMMA FileGets ==
  ASSUME IInv, ImagesOK, NEW h \in Handlers, Removed(h), DeleteVolumeFile(h), cfs' # cfs
  PROVE  KernelGets
<1> DEFINE c == call[h]
           q == PathOf(st, c.pool, c.vol)
<1>1. /\ cfs \in Cfs /\ st \in State /\ file.st \in State /\ c.pool \in Ids /\ c.vol \in Ids
      /\ writer = h /\ c.op = "DeleteVolume" /\ c.pc = "file"
  BY DEF IInv, TypeOK, Call, DeleteVolumeFile, Holds, At
<1>2. HasVolume(st, c.pool, c.vol) /\ cfs' = Unlink(cfs, q)
  BY DEF DeleteVolumeFile, DeleteDiskFile
<1>3. q \in Paths
  BY <1>1, <1>2, VolumeType DEF IInv, DurableOK, WellNumbered
<1> HIDE DEF q
<1>4. cfs'.links = cfs.links
  BY FileStep
<1>5. ASSUME NEW s \in cfs'.stores
      PROVE  \E x \in cfs.stores : /\ x.id = s.id /\ x.name = s.name
                                   /\ s.path = IF x.path = q THEN Unlinked ELSE x.path
  <2> DEFINE d == Unlink(cfs, q)
  <2>1. \A t \in d.stores : \E x \in cfs.stores :
           /\ t.id = x.id /\ t.name = x.name /\ t.size = x.size
           /\ t.path = IF x.path = q THEN Unlinked ELSE x.path
    BY <1>1, <1>3, UnlinkFacts
  <2>2. s \in d.stores
    BY <1>2, <1>5
  <2> HIDE DEF d
  <2> QED BY <2>1, <2>2
<1>6. ASSUME NEW x \in cfs.stores, x.path = q, x.id \notin adopted,
             NEW t \in Target, Wanted(t, x.id, x.name)
      PROVE  x.id \in Bereaved
  <2>1. x.id \in Ids /\ x.name \in Names /\ x.id # c.vol
    BY <1>1 DEF Cfs, Store, Removed
  <2>2. ImageOf(t, x.name) = q
    <3>1. Served(t, x.id, x.name)
      BY <1>6, <2>1 DEF ImagesOK, IdServed
    <3>2. q # NoPath
      BY <1>3 DEF NoPath
    <3> QED BY <1>6, <3>1, <3>2 DEF Served
  <2>3. ~CallWants(t, x.id, x.name)
    <3>1. \A g \in Handlers : ~Makes(call[g])
      BY <1>1, MakerHolds DEF Makes
    <3> QED BY <3>1 DEF CallWants
  <2>4. PICK s \in {st, file.st} : VolumeWants(s, t, x.id, x.name)
    BY <1>6, <2>3 DEF Wanted
  <2>5. PICK p \in Ids : /\ HasVolume(s, p, x.id) /\ t = TargetOf(s, p)
                         /\ x.name = s.vols[<<p, x.id>>].name
    BY <2>4 DEF VolumeWants
  <2>6. PathOf(s, p, x.id) = q
    BY <2>2, <2>5, ImageIs DEF PathOf
  <2> QED BY <2>1, <2>5, <2>6 DEF Bereaved, q
<1>7. ASSUME NEW s \in cfs'.stores, s.path # NoPath
      PROVE  \/ \E x \in cfs.stores : x.id = s.id /\ x.name = s.name /\ x.path = s.path
             \/ s.id \in adopted \cup Bereaved
             \/ \A t \in Target : ~Wanted(t, s.id, s.name)
  BY <1>5, <1>6, <1>7
<1> QED BY <1>4, <1>7 DEF KernelGets

\* A handler's steps: CreateVolume makes what it wants itself.
LEMMA HandleGets ==
  ASSUME IInv, ImagesOK, NEW h \in Handlers, Removed(h), Handle(h)
  PROVE  KernelGets
<1> DEFINE c == call[h]
           t == TargetOf(st, c.pool)
<1>1. cfs \in Cfs /\ st \in State /\ c \in Call
  BY DEF IInv, TypeOK
<1>2. CASE Fewer(cfs', cfs)
  BY <1>2, FewerGets DEF Fewer
<1>3. CASE UNCHANGED cfs
  BY <1>2, <1>3 DEF Fewer
<1>4. CASE CreatePoolLocked(h) /\ cfs' # cfs
  <2>1. \E u : \E r \in UpsertTarget(cfs, u) : cfs' = r.c
    BY <1>4 DEF CreatePoolLocked
  <2> QED BY <1>1, <1>2, <2>1, TargetOpsFewer
<1>5. CASE DeletePoolLocked(h)
  <2>1. \/ \E r \in DeleteZeroTarget(cfs) : cfs' = r.c
        \/ \E r \in DeleteTarget(cfs, c.target) : cfs' = r.c
    BY <1>5 DEF DeletePoolLocked
  <2> QED BY <1>1, <1>2, <2>1, TargetOpsFewer, DeleteTargetFewer
<1>6. CASE DeleteVolumeLocked(h)
  <2>1. \E u, l : \E r \in DeleteLUN(cfs, u, l) : cfs' = r.c
    BY <1>6 DEF DeleteVolumeLocked
  <2>2. \A u, l : \A r \in DeleteLUN(cfs, u, l) : Fewer(r.c, cfs)
    BY <1>1, TargetOpsFewer
  <2> QED BY <1>2, <2>1, <2>2
<1>7. Makes(c) => t \in Target /\ c.vol \in Ids /\ c.name \in Names /\ Wanted(t, c.vol, c.name)
  <2> SUFFICES ASSUME Makes(c)
               PROVE  t \in Target /\ c.vol \in Ids /\ c.name \in Names
                      /\ Wanted(t, c.vol, c.name)
    OBVIOUS
  <2>1. c.pool \in Ids /\ c.vol \in Ids
    BY <1>1 DEF Call
  <2>2. HasPool(st, c.pool) /\ c.name \in Names
    BY DEF Makes, IInv, CallsOK
  <2> QED BY <1>1, <2>1, <2>2, TargetType DEF Wanted, CallWants
<1>8. CASE CreateVolumeStore(h)
  <2>1. Makes(c) /\ \E r \in UpsertBackstore(cfs, c.vol, c.name,
                                             DiskPath[<<st.pools[c.pool], c.name>>], 0) : cfs' = r.c
    BY <1>8 DEF CreateVolumeStore, Holds, At, Makes
  <2>2. DiskPath[<<st.pools[c.pool], c.name>>] = ImageOf(t, c.name)
    BY ImageIs
  <2> HIDE DEF c, t
  <2>3. PICK r \in UpsertBackstore(cfs, c.vol, c.name, ImageOf(t, c.name), 0) : cfs' = r.c
    BY <2>1, <2>2
  <2> QED BY <1>7, <2>1, <2>3, StoreGets
<1>9. CASE CreateVolumeLun(h)
  <2>1. Makes(c) /\ \E r \in UpsertLUN(cfs, t, c.vol, c.vol, c.name) : cfs' = r.c
    BY <1>9 DEF CreateVolumeLun, Holds, At, Makes
  <2> HIDE DEF c, t
  <2> QED BY <1>7, <2>1, LunGets
<1>10. CASE DeleteVolumeStore(h)
  <2>1. PICK i : \E o \in DeleteBackstore(cfs, i) : cfs' = o.c
    BY <1>10 DEF DeleteVolumeStore
  <2> QED BY <1>1, <2>1, DeleteBackstoreTakes, StoresOnly, FewerGets
<1>11. CASE Arrive(h) \/ SaveOpen(h) \/ SaveWrite(h)
  BY <1>3, <1>11 DEF Arrive, CreatePool, DeletePool, CreateVolume, DeleteVolume, Enter,
                     SaveOpen, SaveWrite
<1>12. CASE DeleteVolumeFile(h)
  BY <1>3, <1>12, FileGets
<1> QED BY <1>3, <1>4, <1>5, <1>6, <1>8, <1>9, <1>10, <1>11, <1>12 DEF Handle, Lock, Work

\* Every step; a restart of the machine leaves nothing.
LEMMA NextGets ==
  ASSUME IInv, ImagesOK, \A h \in Handlers : Removed(h), [Next]_vars
  PROVE  KernelGets
<1>1. CASE Reboot
  <2>1. cfs' = EmptyCfs
    BY <1>1 DEF Reboot
  <2> QED BY <2>1 DEF EmptyCfs, KernelGets
<1>2. CASE ReconcileStart \/ ReconcileFails \/ Boot \/ BootSaveOpen \/ BootSaveWrite
           \/ Crash \/ ClientWrites \/ UNCHANGED vars
  <2>1. UNCHANGED cfs
    BY <1>2 DEF ReconcileStart, ReconcileFails, Boot, BootSaveOpen, BootSaveWrite, Crash,
                ClientWrites, ClientWrite, vars
  <2> QED BY <2>1, FewerGets
<1> QED BY <1>1, <1>2, HandleGets, ReconcileGets DEF Next, ClientWrites

-----------------------------------------------------------------------------
(* Only the arrival of a CreateVolume adds a want                           *)

\* A call that is past its arrival goes on with the same pool, volume and name.
LEMMA WorkGoesOn ==
  ASSUME IInv, NEW g \in Handlers, Lock(g) \/ Work(g)
  PROVE  CallsGoOn
<1>1. call \in [Handlers -> Call]
  BY DEF IInv, TypeOK
<1>2. CASE Return(g)
  BY <1>1, <1>2 DEF Return, IdleCall, CallsGoOn, Makes
<1>3. ASSUME NEW pc, Continue(g, pc) PROVE CallsGoOn
  <2>1. /\ call'[g].pool = call[g].pool /\ call'[g].vol = call[g].vol
        /\ call'[g].name = call[g].name /\ call'[g].op = call[g].op /\ call'[g].pc = pc
        /\ \A h \in Handlers \ {g} : call'[h] = call[h]
    BY <1>1, <1>3 DEF Continue, Call
  <2>2. Makes(call'[g]) => Makes(call[g])
    <3>1. CASE CreateVolumeStore(g) \/ CreateVolumeLun(g)
      BY <2>1, <3>1 DEF CreateVolumeStore, CreateVolumeLun, Holds, At, Makes
    <3>2. CASE SaveOpen(g) \/ SaveWrite(g)
      <4>1. call'[g].pc \in {"write", "idle"}
        <5>1. Return(g) \/ Continue(g, "write")
          BY <3>2 DEF SaveOpen, SaveWrite
        <5>2. Return(g) => call'[g].pc = "idle"
          BY <1>1 DEF Return, IdleCall
        <5>3. Continue(g, "write") => call'[g].pc = "write"
          BY <1>1 DEF Continue
        <5> QED BY <5>1, <5>2, <5>3
      <4> QED BY <4>1 DEF Makes
    <3>3. CASE Lock(g) \/ DeleteVolumeStore(g) \/ DeleteVolumeFile(g)
      BY <2>1, <3>3 DEF Lock, CreatePoolLocked, DeletePoolLocked, DeleteVolumeLocked,
                        DeleteVolumeStore, DeleteVolumeFile, Holds, At, Makes
    <3> QED BY <3>1, <3>2, <3>3 DEF Work
  <2> QED BY <2>1, <2>2 DEF CallsGoOn
<1> QED BY <1>2, <1>3, WorkCall

\* A handler's steps, but for that one.
LEMMA HandleWants ==
  ASSUME IInv, NEW h \in Handlers, Handle(h), NEW v \in Ids,
         CreateVolume(h) => UNCHANGED call
  PROVE  NoNewWants(v)
<1> DEFINE c == call[h]
<1>1. /\ st \in State /\ file.st \in State /\ call \in [Handlers -> Call] /\ c \in Call
      /\ WellNumbered(st)
  BY DEF IInv, TypeOK, DurableOK
<1>2. c.pool \in Ids /\ c.vol \in Ids
  BY <1>1 DEF Call
<1> HIDE DEF c
<1>3. \A t \in Target, n \in Names : VolumeWants(st, t, v, n) => Wanted(t, v, n)
  BY DEF Wanted
<1>4. \A t \in Target, n \in Names : VolumeWants(file.st, t, v, n) => Wanted(t, v, n)
  BY DEF Wanted
<1>5. CASE Arrive(h)
  <2>1. CallsGoOn
    <3>1. CASE UNCHANGED call
      BY <3>1 DEF CallsGoOn
    <3>2. CASE CreatePool(h) \/ DeletePool(h) \/ DeleteVolume(h)
      <4>1. \E op, p, w, n, t : Enter(h, op, p, w, n, t)
        BY <3>2 DEF CreatePool, DeletePool, DeleteVolume
      <4>2. call'[h].pc = "lock" /\ \A g \in Handlers \ {h} : call'[g] = call[g]
        BY <1>1, <4>1 DEF Enter
      <4> QED BY <4>2 DEF CallsGoOn, Makes
    <3> QED BY <1>5, <3>1, <3>2 DEF Arrive
  <2>2. UNCHANGED file /\ st'.pools = st.pools /\ st'.vols = st.vols
    <3>1. CASE CreatePool(h) \/ DeletePool(h) \/ DeleteVolume(h)
      BY <3>1 DEF CreatePool, DeletePool, DeleteVolume, Enter
    <3>2. CASE CreateVolume(h)
      <4>1. \E w : st' = [st EXCEPT !.MaxLUNID = w]
        BY <3>2 DEF CreateVolume
      <4> QED BY <1>1, <3>2, <4>1 DEF CreateVolume, State
    <3> QED BY <1>5, <3>1, <3>2 DEF Arrive
  <2>3. \A t \in Target, n \in Names : VolumeWants(st', t, v, n) => Wanted(t, v, n)
    BY <1>3, <2>2, SameWants
  <2> QED BY <1>4, <2>1, <2>2, <2>3, FewerWants
<1>6. CASE Lock(h) \/ Work(h)
  <2>1. CallsGoOn
    BY <1>6, WorkGoesOn
  <2>2. CASE UNCHANGED <<st, file>>
    BY <1>3, <1>4, <2>1, <2>2, FewerWants
  <2>3. CASE Lock(h) /\ st' # st
    <3>1. UNCHANGED file /\ LockFree
      BY <2>3 DEF Lock, CreatePoolLocked, DeletePoolLocked, DeleteVolumeLocked
    <3>2. \A g \in Handlers : ~Makes(call'[g])
      <4>1. \A g \in Handlers : ~Makes(call[g])
        BY <3>1, MakerHolds DEF LockFree
      <4> QED BY <2>1, <4>1 DEF CallsGoOn
    <3>3. \A t \in Target, n \in Names : VolumeWants(st', t, v, n) => Wanted(t, v, n)
      <4>1. CASE CreatePoolLocked(h)
        <5>1. ~HasPool(st, c.pool) /\ st' = PutPool(st, c.pool, PoolName(c))
          BY <2>3, <4>1 DEF CreatePoolLocked, c
        <5>2. PoolName(c) \in Names
          BY <1>1, <1>2 DEF PoolName, Call
        <5> QED BY <1>1, <1>2, <1>3, <5>1, <5>2, StateWants
      <4>2. CASE DeletePoolLocked(h)
        <5>1. st' = DropPool(st, c.pool)
          BY <2>3, <4>2 DEF DeletePoolLocked, c
        <5> QED BY <1>1, <1>2, <1>3, <5>1, StateWants
      <4> QED BY <2>3, <4>1, <4>2 DEF Lock, DeleteVolumeLocked
    <3> QED BY <1>4, <2>1, <3>1, <3>2, <3>3, FewerWants
  <2>4. CASE CreateVolumeLun(h) /\ st' # st
    <3> DEFINE vol == [name |-> c.name, size |-> c.size]
    <3>1. /\ st' = PutVolume(st, c.pool, c.vol, vol) /\ UNCHANGED file
          /\ c.op = "CreateVolume" /\ c.pc = "lun" /\ c = call[h]
      BY <2>4 DEF CreateVolumeLun, Holds, At, c
    <3>2. c.name \in Names /\ c.vol # 0
      BY <3>1 DEF IInv, CallsOK
    <3>3. vol \in Volume /\ vol.name = c.name
      BY <1>1, <3>2 DEF Volume, Call
    <3> HIDE DEF vol
    <3>4. st'.pools = st.pools
      BY <1>1, <1>2, <3>1, <3>2, <3>3, PutVolumeFacts
    <3>5. ASSUME NEW t \in Target, NEW n \in Names, VolumeWants(st', t, v, n)
          PROVE  Wanted(t, v, n)
      <4>1. VolumeWants(st, t, v, n) \/ (v = c.vol /\ t = TargetOf(st, c.pool) /\ n = c.name)
        BY <1>1, <1>2, <3>1, <3>2, <3>3, <3>5, StateWants
      <4>2. Makes(c)
        BY <3>1 DEF Makes
      <4> QED BY <3>1, <4>1, <4>2 DEF Wanted, CallWants
    <3> QED BY <1>4, <2>1, <3>1, <3>4, <3>5, FewerWants
  <2>5. CASE DeleteVolumeFile(h) /\ st' # st
    <3>1. st' = DropVolume(st, c.pool, c.vol) /\ UNCHANGED file
      BY <2>5 DEF DeleteVolumeFile, c
    <3>2. st'.pools = st.pools
      BY <1>1, <1>2, <3>1, DropVolumeFacts
    <3>3. \A t \in Target, n \in Names : VolumeWants(st', t, v, n) => Wanted(t, v, n)
      BY <1>1, <1>2, <1>3, <3>1, StateWants
    <3> QED BY <1>4, <2>1, <3>1, <3>2, <3>3, FewerWants
  <2>6. CASE (SaveOpen(h) \/ SaveWrite(h)) /\ file' # file
    <3>1. UNCHANGED st /\ file'.st \in {st, EmptyState}
      BY <2>6 DEF SaveOpen, SaveWrite, TornFile, FileOf
    <3>2. ASSUME NEW t \in Target, NEW n \in Names, VolumeWants(file'.st, t, v, n)
          PROVE  Wanted(t, v, n)
      <4>1. ~VolumeWants(EmptyState, t, v, n)
        BY <1>1, <1>2, StateWants
      <4> QED BY <1>3, <3>1, <3>2, <4>1
    <3> QED BY <1>3, <2>1, <3>1, <3>2, FewerWants
  <2> QED BY <1>6, <2>2, <2>3, <2>4, <2>5, <2>6
          DEF Lock, Work, CreatePoolLocked, DeletePoolLocked, DeleteVolumeLocked,
              CreateVolumeStore, CreateVolumeLun, DeleteVolumeStore, DeleteVolumeFile,
              SaveOpen, SaveWrite
<1> QED BY <1>5, <1>6 DEF Handle

\* Every step, but for that one.
LEMMA NextWants ==
  ASSUME IInv, [Next]_vars, NEW v \in Ids,
         \A h \in Handlers : CreateVolume(h) => UNCHANGED call
  PROVE  NoNewWants(v)
<1>1. /\ st \in State /\ file.st \in State /\ 0 \in Ids
  BY IdsNat DEF IInv, TypeOK
<1>2. \A t \in Target, n \in Names : VolumeWants(st, t, v, n) => Wanted(t, v, n)
  BY DEF Wanted
<1>3. \A t \in Target, n \in Names : VolumeWants(file.st, t, v, n) => Wanted(t, v, n)
  BY DEF Wanted
<1>4. \A t \in Target, n \in Names : ~VolumeWants(EmptyState, t, v, n)
  BY <1>1, StateWants
<1>5. CASE Reconcile \/ ReconcileStart \/ ReconcileFails \/ BootSaveOpen \/ BootSaveWrite
           \/ ClientWrites \/ UNCHANGED vars
  <2>1. /\ UNCHANGED call /\ file'.st \in {file.st, st, EmptyState}
        /\ \/ UNCHANGED st
           \/ st' = EmptyState /\ server = "booting"
    <3>1. CASE Reconcile
      BY <3>1 DEF Reconcile, ReconcileTargets, ReconcilePool, ReconcilePortals, ReconcileLUNs,
                  ReconcileVolume, ReconcileStore, ReconcileLun, ReconcileBackstores, Apply,
                  Proceed, Stop
    <3>2. CASE ReconcileStart \/ ReconcileFails \/ ClientWrites \/ UNCHANGED vars
      BY <3>2 DEF ReconcileStart, ReconcileFails, Stop, ClientWrites, ClientWrite, vars
    <3>3. CASE BootSaveOpen
      BY <3>3 DEF BootSaveOpen, Proceed, Stop, TornFile
    <3>4. CASE BootSaveWrite
      BY <3>4 DEF BootSaveWrite, Stop, FileOf
    <3> QED BY <1>5, <3>1, <3>2, <3>3, <3>4
  <2>2. CallsGoOn
    BY <2>1 DEF CallsGoOn
  <2>3. (\E h \in Handlers : Makes(call'[h])) => st'.pools = st.pools
    <3>1. server = "booting" => \A h \in Handlers : ~Makes(call[h])
      BY MakerHolds
    <3> QED BY <2>1, <3>1
  <2> QED BY <1>2, <1>3, <1>4, <2>1, <2>2, <2>3, FewerWants
<1>6. CASE Boot \/ Crash \/ Reboot
  <2>1. UNCHANGED file /\ st' \in {file.st, EmptyState}
    BY <1>6 DEF Boot, Crash, Reboot, Die
  <2>2. \A h \in Handlers : ~Makes(call'[h])
    <3>1. CASE Boot
      <4>1. \A h \in Handlers : ~Makes(call[h])
        BY <3>1, MakerHolds DEF Boot
      <4> QED BY <3>1, <4>1 DEF Boot
    <3>2. CASE Crash \/ Reboot
      BY <3>2 DEF Crash, Reboot, Die, IdleCall, Makes
    <3> QED BY <1>6, <3>1, <3>2
  <2>3. CallsGoOn
    BY <2>2 DEF CallsGoOn
  <2> QED BY <1>3, <1>4, <2>1, <2>2, <2>3, FewerWants
<1> QED BY <1>5, <1>6, HandleWants DEF Next, ClientWrites

-----------------------------------------------------------------------------
(* The arrival of a CreateVolume                                            *)

\* It adds its own want, and changes nothing that the others depend on.
LEMMA EnteringWants ==
  ASSUME IInv, IInv', NEW h \in Handlers, CreateVolume(h), call' # call
  PROVE  /\ call'[h] # call[h] /\ call'[h].op = "CreateVolume" /\ call'[h].pc = "store"
         /\ call'[h].pool \in Ids /\ call'[h].vol \in Ids /\ call'[h].name \in Names
         /\ TargetOf(st, call'[h].pool) \in Target
         /\ UNCHANGED <<cfs, file>>
         /\ \A t \in Target, v \in Ids, n \in Names : Wanted(t, v, n)' =>
               \/ VolumeWants(st, t, v, n)
               \/ VolumeWants(file.st, t, v, n)
               \/ t = TargetOf(st, call'[h].pool) /\ v = call'[h].vol /\ n = call'[h].name
<1> DEFINE c == call'[h]
<1>1. /\ call \in [Handlers -> Call] /\ call' \in [Handlers -> Call] /\ st \in State
      /\ call[h] = IdleCall /\ LockFree /\ UNCHANGED <<cfs, file>>
  BY DEF CreateVolume, IInv, TypeOK
<1>2. /\ c.op = "CreateVolume" /\ c.pc = "store" /\ c # call[h]
      /\ \A g \in Handlers \ {h} : call'[g] = call[g]
  <2>1. PICK x : call' = [call EXCEPT ![h] = x] /\ x.pc = "store" /\ x.op = "CreateVolume"
    BY CreateVolumeCall
  <2> QED BY <1>1, <2>1 DEF IdleCall
<1>3. c.pool \in Ids /\ c.vol \in Ids
  BY <1>1 DEF Call
<1>4. st'.pools = st.pools /\ st'.vols = st.vols
  <2>1. \E w : st' = [st EXCEPT !.MaxLUNID = w]
    BY DEF CreateVolume
  <2> QED BY <1>1, <2>1 DEF State
<1>5. HasPool(st, c.pool) /\ c.name \in Names
  <2>1. HasPool(st', c.pool) /\ c.name \in Names
    BY <1>2 DEF IInv, CallsOK
  <2> QED BY <1>4, <2>1 DEF HasPool
<1>6. TargetOf(st, c.pool) \in Target
  BY <1>1, <1>3, <1>5, TargetType
<1>7. ASSUME NEW t \in Target, NEW v \in Ids, NEW n \in Names, Wanted(t, v, n)'
      PROVE  \/ VolumeWants(st, t, v, n)
             \/ VolumeWants(file.st, t, v, n)
             \/ t = TargetOf(st, c.pool) /\ v = c.vol /\ n = c.name
  <2>1. CASE VolumeWants(st', t, v, n)
    BY <1>4, <2>1, SameWants
  <2>2. CASE VolumeWants(file'.st, t, v, n)
    BY <1>1, <2>2
  <2>3. CASE CallWants(t, v, n)'
    <3>1. PICK g \in Handlers : /\ Makes(call'[g]) /\ call'[g].vol = v
                                /\ t = TargetOf(st', call'[g].pool) /\ n = call'[g].name
      BY <2>3 DEF CallWants, Makes
    <3>2. ~Makes(call[g])
      BY <1>1, MakerHolds DEF LockFree
    <3>3. g = h
      BY <1>2, <3>1, <3>2
    <3> QED BY <1>4, <3>1, <3>3 DEF TargetOf
  <2> QED BY <1>7, <2>1, <2>2, <2>3 DEF Wanted, VolumeWants, HasVolume, TargetOf
<1> QED BY <1>1, <1>2, <1>3, <1>5, <1>6, <1>7

\* Unless it adopts something, its want can be had with all the others.
LEMMA EnteringServed ==
  ASSUME IInv, IInv', NEW h \in Handlers, CreateVolume(h), call' # call,
         NEW v \in Ids, IdServed(v), v = call'[h].vol => ~Adopts(call'[h])
  PROVE  IdServed(v)'
<1> DEFINE c == call'[h]
           own == TargetOf(st, c.pool)
           Old(t, n) == VolumeWants(st, t, v, n) \/ VolumeWants(file.st, t, v, n)
           New(t, n) == t = own /\ v = c.vol /\ n = c.name
<1>1. /\ c.name \in Names /\ own \in Target /\ UNCHANGED cfs
      /\ \A t \in Target, n \in Names : Wanted(t, v, n)' => Old(t, n) \/ New(t, n)
  BY EnteringWants
<1>2. ASSUME NEW t \in Target, NEW n \in Names, Old(t, n) PROVE Wanted(t, v, n)
  BY <1>2 DEF Wanted
<1>3. ASSUME v = c.vol, NEW t \in Target, NEW n \in Names, Old(t, n)
      PROVE  (n = c.name => ImageOf(t, n) = ImageOf(own, c.name)) /\ (t = own => n = c.name)
  <2>1. ASSUME NEW s, VolumeWants(s, t, v, n), ~Clashes(s, c)
        PROVE  (n = c.name => ImageOf(t, n) = ImageOf(own, c.name)) /\ (t = own => n = c.name)
    <3>1. PICK q \in Ids : /\ HasVolume(s, q, c.vol) /\ t = TargetOf(s, q)
                           /\ n = s.vols[<<q, c.vol>>].name
      BY <1>3, <2>1 DEF VolumeWants
    <3>2. n = c.name => PathOf(s, q, c.vol) = DiskPath[<<st.pools[c.pool], c.name>>]
      BY <2>1, <3>1 DEF Clashes
    <3>3. t = own => n = c.name
      BY <2>1, <3>1 DEF Clashes
    <3> QED BY <3>1, <3>2, <3>3 DEF PathOf, ImageOf, TargetOf
  <2> QED BY <1>3, <2>1 DEF Adopts
<1>4. v = c.vol => Served(own, v, c.name)
  BY ImageIs DEF Adopts, Served
<1>5. ASSUME NEW t \in Target, NEW n \in Names, Wanted(t, v, n)' PROVE Served(t, v, n)'
  <2>1. Served(t, v, n)
    <3>1. CASE Old(t, n)
      BY <1>2, <3>1 DEF IdServed
    <3>2. CASE New(t, n)
      BY <1>4, <3>2
    <3> QED BY <1>1, <1>5, <3>1, <3>2
  <2> QED BY <1>1, <2>1 DEF Served, ImageOf, LinkOf
<1>6. ASSUME NEW t \in Target, NEW u \in Target, NEW m \in Names, NEW n \in Names,
             Wanted(t, v, m)', Wanted(u, v, n)'
      PROVE  (m = n => ImageOf(t, m) = ImageOf(u, n)) /\ (t = u => m = n)
  <2>1. CASE Old(t, m) /\ Old(u, n)
    BY <1>2, <2>1 DEF IdServed
  <2>2. CASE Old(t, m) /\ New(u, n)
    BY <1>3, <2>2
  <2>3. CASE New(t, m) /\ Old(u, n)
    BY <1>3, <2>3
  <2>4. CASE New(t, m) /\ New(u, n)
    BY <2>4
  <2> QED BY <1>1, <1>6, <2>1, <2>2, <2>3, <2>4
<1> HIDE DEF c, own, Old, New
<1>7. \A t, u \in Target, m, n \in Names : Wanted(t, v, m)' =>
         /\ Served(t, v, m)'
         /\ Wanted(u, v, n)' => /\ m = n => ImageOf(t, m) = ImageOf(u, n)
                                /\ t = u => m = n
  BY <1>5, <1>6
<1> QED BY <1>7 DEF IdServed, ImageOf

-----------------------------------------------------------------------------
(* Every step                                                               *)

\* What is left alone by volumes and backstores can be served: there is one
\* CreateVolume at most that wants it.
LEMMA UnusedServed ==
  ASSUME IInv', Backed(cfs)', Placed(cfs)', NEW v \in Ids, Unused(v)'
  PROVE  IdServed(v)'
<1>1. ASSUME NEW t \in Target, NEW n \in Names, Wanted(t, v, n)'
      PROVE  \E h \in Handlers : /\ writer' = h
                                 /\ t = TargetOf(st', call'[h].pool) /\ n = call'[h].name
  <2>1. PICK h \in Handlers : /\ Makes(call'[h])
                              /\ t = TargetOf(st', call'[h].pool) /\ n = call'[h].name
    BY <1>1 DEF Wanted, Unused, VolumeWants, HasVolume, CallWants, Makes, TargetOf
  <2>2. writer' = h
    BY <2>1 DEF Makes, IInv, LocksOK
  <2> QED BY <2>1, <2>2
<1>2. \A t \in Target, n \in Names : Served(t, v, n)'
  <2>1. \A s \in cfs'.stores : s.id # v
    BY DEF Unused
  <2>2. ASSUME NEW k \in cfs'.links, k[2] = v PROVE FALSE
    <3>1. k[3] = v /\ Enabled(cfs', k[3], k[4])
      BY <2>2 DEF Backed, Placed, Enabled
    <3> QED BY <2>1, <3>1 DEF Enabled
  <2> QED BY <2>1, <2>2 DEF Served, LinkOf, ImageOf
<1>3. ASSUME NEW t \in Target, NEW u \in Target, NEW m \in Names, NEW n \in Names,
             Wanted(t, v, m)', Wanted(u, v, n)'
      PROVE  t = u /\ m = n
  BY <1>1, <1>3
<1> QED BY <1>2, <1>3 DEF IdServed, ImageOf

\* No step lets go of what can be served, but for ids that are adopted by then.
LEMMA NextServed ==
  ASSUME IInv, \A h \in Handlers : Removed(h), IInv', Backed(cfs)', Placed(cfs)', ImagesOK,
         [HNext]_HVars
  PROVE  ImagesOK'
<1> SUFFICES ASSUME NEW v \in Ids, v \notin adopted' PROVE IdServed(v)'
  BY DEF ImagesOK, IdServed, Wanted, Served, VolumeWants, CallWants, ImageOf, Makes, HasVolume,
         TargetOf, LinkOf
<1>1. [Next]_vars
  BY DEF HNext, HVars, vars
<1>2. CASE Unused(v)'
  BY <1>2, UnusedServed
<1>3. CASE ~Unused(v)'
  <2>1. v \notin adopted \cup Bereaved
    <3>1. CASE HNext
      BY <1>3, <3>1 DEF HNext
    <3>2. CASE UNCHANGED HVars
      BY <3>2 DEF HVars, Bereaved
    <3> QED BY <3>1, <3>2
  <2>2. IdServed(v)
    BY <2>1 DEF ImagesOK
  <2>3. ASSUME NEW h \in Handlers, CreateVolume(h), call' # call PROVE IdServed(v)'
    <3>1. call'[h] # call[h] /\ call'[h].op = "CreateVolume" /\ call'[h].pc = "store"
      BY <2>3, EnteringWants
    <3>2. HNext
      BY <2>3 DEF HVars
    <3>3. v = call'[h].vol => ~Adopts(call'[h])
      BY <3>1, <3>2 DEF HNext, Adopting
    <3> QED BY <2>2, <2>3, <3>3, EnteringServed
  <2>4. CASE \A h \in Handlers : CreateVolume(h) => UNCHANGED call
    <3>1. KernelGets /\ NoNewWants(v)
      BY <1>1, <2>4, NextGets, NextWants
    <3>2. \A t \in Target, n \in Names : Wanted(t, v, n)' => Wanted(t, v, n)
      BY <3>1 DEF NoNewWants
    <3> QED BY <2>1, <2>2, <3>1, <3>2, ServedKept
  <2> QED BY <2>3, <2>4
<1> QED BY <1>2, <1>3

-----------------------------------------------------------------------------
(* The theorem                                                              *)

GInv == LInv /\ Placed(cfs) /\ ImagesOK

\* Whatever is wanted of an id that nothing has adopted can be had: by the state,
\* after a restart by the state file, and by the CreateVolume in progress.
THEOREM ImageInvariance == HSpec => []GInv
<1>1. HInit => GInv
  <2> SUFFICES ASSUME HInit PROVE GInv
    OBVIOUS
  <2>1. LInv /\ Placed(cfs)
    BY InitIInv DEF HInit, Init, EmptyCfs, Backed, Placed, LInv, Removed, IdleCall
  <2>2. ASSUME NEW v \in Ids, NEW t \in Target, NEW n \in Names PROVE ~Wanted(t, v, n)
    <3>1. st = EmptyState /\ file.st = EmptyState /\ \A h \in Handlers : call[h] = IdleCall
      BY DEF HInit, Init, NoneFile
    <3>2. ~VolumeWants(EmptyState, t, v, n)
      BY EmptyStateFacts DEF VolumeWants
    <3> QED BY <3>1, <3>2 DEF Wanted, CallWants, Makes, IdleCall
  <2>3. ImagesOK
    BY <2>2 DEF ImagesOK, IdServed
  <2> QED BY <2>1, <2>3 DEF GInv
<1>2. GInv /\ [HNext]_HVars => GInv'
  <2> SUFFICES ASSUME GInv, [HNext]_HVars PROVE GInv'
    OBVIOUS
  <2>1. [Next]_vars
    BY DEF HNext, HVars, vars
  <2>2. IInv' /\ Backed(cfs)' /\ Placed(cfs)'
    BY <2>1, NextIInv, NextBacked, NextPlaced DEF GInv, LInv, Backed, Placed, Enabled
  <2>3. \A h \in Handlers : Removed(h)'
    BY <2>1, NextRemoved DEF GInv, LInv
  <2>4. LInv' /\ Placed(cfs')
    BY <2>2, <2>3 DEF LInv, Removed, Backed, Placed, Enabled
  <2>5. ImagesOK'
    BY <2>2, NextServed DEF GInv, LInv
  <2> QED BY <2>4, <2>5 DEF GInv, Placed
<1> QED BY <1>1, <1>2, PTL DEF HSpec

\* The LUN of a volume serves the volume's own image, whatever was deleted, made
\* again, reconciled or restarted, unless its id was adopted.
THEOREM OwnImages == HSpec => []OwnImageServed
<1>1. GInv => OwnImageServed
  <2> SUFFICES ASSUME GInv, NEW p \in Ids, NEW v \in Ids, HasVolume(st, p, v), v \notin adopted,
                      NEW k \in LinkOf(cfs, TargetOf(st, p), v)
               PROVE  /\ k[3] = v /\ k[4] = st.vols[<<p, v>>].name
                      /\ \E s \in cfs.stores : /\ s.id = v /\ s.name = k[4]
                                               /\ s.path = PathOf(st, p, v)
    BY DEF OwnImageServed
  <2> DEFINE t == TargetOf(st, p)
             n == st.vols[<<p, v>>].name
  <2>1. t \in Target /\ n \in Names
    <3>1. st \in State /\ HasPool(st, p)
      BY DEF GInv, LInv, IInv, TypeOK, DurableOK, WellNumbered
    <3> QED BY <3>1, TargetType, VolumeType
  <2>2. Served(t, v, n)
    <3>1. Wanted(t, v, n)
      BY DEF Wanted, VolumeWants
    <3> HIDE DEF t, n
    <3> QED BY <2>1, <3>1 DEF GInv, ImagesOK, IdServed
  <2>3. k \in cfs.links /\ k[1] = t /\ k[2] = v
    BY DEF LinkOf
  <2>4. k[4] = n /\ k[3] = v
    BY <2>2, <2>3 DEF Served, GInv, Placed
  <2>5. PICK s \in cfs.stores : s.id = k[3] /\ s.name = k[4] /\ s.path # NoPath
    BY <2>3 DEF GInv, LInv, Backed, Enabled
  <2>6. s.path = ImageOf(t, n)
    BY <2>2, <2>4, <2>5 DEF Served
  <2>7. ImageOf(t, n) = PathOf(st, p, v)
    BY ImageIs DEF PathOf
  <2> QED BY <2>4, <2>5, <2>6, <2>7
<1> QED BY <1>1, ImageInvariance, PTL

-----------------------------------------------------------------------------
(* The bytes in an image                                                    *)

\* TouchDiskFile that meets with no error leaves the other images alone, and its
\* own if that is large enough or the answer is an error.
LEMMA TouchSpares ==
  ASSUME NEW d \in [Paths -> DiskFile], NEW q \in Paths, NEW z \in Int,
         NEW r \in TouchDiskFile(d, q, z), ~r.fault
  PROVE  /\ \A x \in Paths \ {q} : r.d[x] = d[x]
         /\ SizeOnDisk(d, q) >= z \/ ~r.ok => r.d = d
<1> DEFINE blank == [d EXCEPT ![q] = [size |-> z, data |-> FALSE]]
           out(ok, fault, e, y) == [ok |-> ok, fault |-> fault, d |-> e, size |-> y]
           have == SizeOnDisk(d, q)
<1>1. have \in Nat
  BY DEF SizeOnDisk, DiskFile
<1>2. \A x \in Paths \ {q} : blank[x] = d[x]
  OBVIOUS
<1>3. \A e, y : ~(r = out(FALSE, TRUE, e, y)) /\ ~(r = out(TRUE, TRUE, e, y))
  OBVIOUS
<1>4. CASE have >= z
  <2>1. \E b : r = out(b, FALSE, d, have)
    <3>1. \/ r = out(d[q] # NoFile, FALSE, d, have)
          \/ \E e, y : r = out(FALSE, TRUE, e, y) \/ r = out(TRUE, TRUE, e, y)
      BY <1>1, <1>4 DEF TouchDiskFile
    <3> HIDE DEF out
    <3> QED BY <1>3, <3>1
  <2>2. r.d = d
    <3> HIDE DEF have
    <3> QED BY <2>1
  <2> QED BY <2>2
<1>5. CASE ~(have >= z)
  <2>1. r = out(TRUE, FALSE, blank, z)
    <3>1. \/ r = out(TRUE, FALSE, blank, z)
          \/ \E e, y : r = out(FALSE, TRUE, e, y)
      BY <1>1, <1>5 DEF TouchDiskFile
    <3> HIDE DEF out, blank
    <3> QED BY <1>3, <3>1
  <2>2. r.ok /\ r.d = blank
    <3> HIDE DEF blank
    <3> QED BY <2>1
  <2> QED BY <1>2, <1>5, <2>2
<1> QED BY <1>4, <1>5

\* A step without an error keeps the bytes at a path: what a server that runs does
\* with images goes by the volumes of its state, and the path is the one of volume
\* k's image alone, which has its final size.
LEMMA BytesKept ==
  ASSUME IInv, [Next]_vars, NEW k \in Ids \X Ids, NEW path \in Paths, disk[path].data,
         budget'.faults = budget.faults,
         server # "down" =>
           /\ disk[path].size >= Max({GiB, st.vols[k].size})
           /\ server' # "down" => st'.vols[k] = st.vols[k] /\ st.vols[k] # NoVolume
           /\ \A j \in Ids \X Ids : j # k /\ st.vols[j] # NoVolume => PathOf(st, j[1], j[2]) # path,
         \A h \in Handlers : call'[h].op = "CreateVolume"
           => DiskPath[<<st'.pools[call'[h].pool], call'[h].name>>] # path
  PROVE  disk'[path].data
<1>1. /\ st \in State /\ disk \in [Paths -> DiskFile] /\ call \in [Handlers -> Call]
      /\ budget \in Budget /\ rec \in Rec /\ cfs \in Cfs
  BY DEF IInv, TypeOK
<1>2. \A j \in Ids \X Ids : st.vols[j] # NoVolume =>
         PathOf(st, j[1], j[2]) \in Paths /\ st.vols[j].size \in Int
  <2>1. ASSUME NEW p \in Ids, NEW v \in Ids, st.vols[<<p, v>>] # NoVolume
        PROVE  PathOf(st, p, v) \in Paths /\ st.vols[<<p, v>>].size \in Int
    <3>1. HasVolume(st, p, v) /\ HasPool(st, p)
      BY <2>1 DEF HasVolume, IInv, DurableOK, WellNumbered
    <3> QED BY <1>1, <3>1, VolumeType
  <2> QED BY <2>1
<1>4. \A r : Charge(r) => ~r.fault
  <2>1. budget.faults \in Nat
    BY <1>1 DEF Budget
  <2>2. Spend("faults", MaxFaults) => budget'.faults = budget.faults + 1
    BY <1>1 DEF Spend, Budget
  <2> QED BY <2>1, <2>2 DEF Charge
<1>5. CASE UNCHANGED disk
  BY <1>5
<1>6. ASSUME NEW h \in Handlers, CreateVolume(h), disk' # disk PROVE disk'[path].data
  <2>1. PICK parg \in PoolArgs, varg \in VolArgs \cup {Absent},
             m \in NameArgs \cup {NoName}, z \in SizeArgs :
          LET p == Truncate(parg)
              v == IF varg = Absent THEN NextVolumeId(st, cfs) ELSE Truncate(varg)
              s == [st EXCEPT !.MaxLUNID = Max({@, v})]
              image == DiskPath[<<st.pools[p], VolumeName(v, m)>>]
          IN  /\ v # 0
              /\ st' = s
              /\ \/ /\ ~HasPool(st, p) \/ HasVolume(st, p, v)
                    /\ Spend("requests", MaxRequests)
                    /\ UNCHANGED <<disk, call, writer>>
                 \/ /\ HasPool(st, p) /\ ~HasVolume(st, p, v)
                    /\ \E r \in TouchDiskFile(disk, image, AsInt64(z)) :
                         /\ r.fault => budget.faults < MaxFaults
                         /\ budget' = [budget EXCEPT !.requests = @ + 1,
                                         !.faults = @ + IF r.fault THEN 1 ELSE 0]
                         /\ disk' = r.d
                         /\ IF r.ok
                            THEN /\ writer' = h
                                 /\ call' = [call EXCEPT ![h] =
                                      [op |-> "CreateVolume", pc |-> "store", pool |-> p,
                                       vol |-> v, name |-> VolumeName(v, m),
                                       size |-> AsInt64(z), target |-> ZeroTarget]]
                            ELSE UNCHANGED <<call, writer>>
    BY <1>6 DEF CreateVolume
  <2> DEFINE p == Truncate(parg)
             v == IF varg = Absent THEN NextVolumeId(st, cfs) ELSE Truncate(varg)
             n == VolumeName(v, m)
             q == DiskPath[<<st.pools[p], n>>]
             c == [op |-> "CreateVolume", pc |-> "store", pool |-> p, vol |-> v,
                   name |-> n, size |-> AsInt64(z), target |-> ZeroTarget]
  <2>2. PICK r \in TouchDiskFile(disk, q, AsInt64(z)) :
          /\ HasPool(st, p)
          /\ budget' = [budget EXCEPT !.requests = @ + 1,
                                      !.faults = @ + IF r.fault THEN 1 ELSE 0]
          /\ disk' = r.d
          /\ r.ok => call' = [call EXCEPT ![h] = c]
    BY <1>6, <2>1
  <2>3. p \in Ids /\ n \in Names /\ HasPool(st, p)
    <3>1. p \in Ids /\ v \in Ids
      BY <1>1, <2>1, TruncateType, NextVolumeIdType DEF SigmaAssumption
    <3> HIDE DEF p, v
    <3> QED BY <2>2, <3>1 DEF VolumeName
  <2>4. q \in Paths /\ AsInt64(z) \in Int
    <3>1. st.pools[p] \in Names
      BY <1>1, <2>3, TargetType
    <3> QED BY <2>3, <3>1 DEF AsInt64
  <2>5. c.op = "CreateVolume" /\ c.pool = p /\ c.name = n
    OBVIOUS
  <2>6. ~r.fault
    <3> DEFINE extra == IF r.fault THEN 1 ELSE 0
    <3>1. budget'.faults = budget.faults + extra /\ budget.faults \in Nat /\ extra \in Nat
      BY <1>1, <2>2 DEF Budget
    <3>2. extra = 0
      <4> HIDE DEF extra
      <4> QED BY <3>1
    <3> QED BY <3>2
  <2> HIDE DEF c, q
  <2>7. r.ok
    BY <1>1, <1>6, <2>2, <2>4, <2>6, TouchSpares
  <2>8. call'[h] = c
    BY <1>1, <2>2, <2>7
  <2>9. q # path
    <3>1. st'.pools = st.pools
      BY <1>1, <2>1 DEF State
    <3> QED BY <2>5, <2>8, <3>1 DEF q
  <2>10. disk'[path] = disk[path]
    BY <1>1, <2>2, <2>4, <2>6, <2>9, TouchSpares
  <2> QED BY <2>10
<1>7. CASE ReconcileVolume /\ disk' # disk
  <2>1. PICK j \in rec.vols : \E r \in TouchDiskFile(disk, PathOf(st, j[1], j[2]),
                                                  Max({GiB, st.vols[j].size})) :
          Charge(r) /\ disk' = r.d
    BY <1>7 DEF ReconcileVolume
  <2>0. server # "down"
    BY <1>7 DEF ReconcileVolume, IInv, LocksOK
  <2> DEFINE q == PathOf(st, j[1], j[2])
             z == Max({GiB, st.vols[j].size})
  <2>2. PICK r \in TouchDiskFile(disk, q, z) : Charge(r) /\ disk' = r.d
    BY <2>1
  <2>3. j \in Ids \X Ids /\ st.vols[j] # NoVolume
    <3>1. j \in Ids \X Ids /\ HasVolume(st, j[1], j[2])
      BY <1>1 DEF Rec, IInv, RecOK
    <3> QED BY <3>1 DEF HasVolume
  <2>4. q \in Paths /\ z \in Int
    BY <1>2, <2>3, MaxOfTwo
  <2>5. ~r.fault
    BY <1>4, <2>2
  <2>6. j = k /\ q = path => SizeOnDisk(disk, q) >= z
    <3>1. SizeOnDisk(disk, path) = disk[path].size
      BY DEF SizeOnDisk, NoFile
    <3> QED BY <2>0, <3>1
  <2>7. j # k => q # path
    BY <2>0, <2>3
  <2> HIDE DEF q, z
  <2>8. q # path
    BY <1>1, <1>7, <2>2, <2>4, <2>5, <2>6, <2>7, TouchSpares
  <2>9. disk'[path] = disk[path]
    <3>1. \A x \in Paths \ {q} : r.d[x] = disk[x]
      BY <1>1, <2>4, <2>5, TouchSpares
    <3> QED BY <2>2, <2>8, <3>1
  <2> QED BY <2>9
<1>8. ASSUME NEW h \in Handlers, DeleteVolumeFile(h), disk' # disk PROVE disk'[path].data
  <2> DEFINE p == call[h].pool
             v == call[h].vol
             q == PathOf(st, p, v)
  <2>1. /\ p \in Ids /\ v \in Ids
    BY <1>1 DEF Call
  <2>2. /\ HasVolume(st, p, v) /\ disk' = [disk EXCEPT ![q] = NoFile]
        /\ st' = DropVolume(st, p, v)
    <3>1. PICK r \in IF HasVolume(st, p, v) THEN DeleteDiskFile(cfs, disk, PathOf(st, p, v))
                     ELSE {[ok |-> TRUE, fault |-> FALSE, c |-> cfs, d |-> disk]} :
            disk' = r.d /\ (r.ok => st' = DropVolume(st, p, v))
      BY <1>8 DEF DeleteVolumeFile
    <3>2. HasVolume(st, p, v)
      BY <1>8, <3>1
    <3>3. r = [ok |-> TRUE, fault |-> FALSE, c |-> Unlink(cfs, q), d |-> [disk EXCEPT ![q] = NoFile]]
      BY <1>8, <3>1, <3>2 DEF DeleteDiskFile
    <3> QED BY <3>1, <3>2, <3>3
  <2>0. server # "down" /\ server' = server
    BY <1>8 DEF DeleteVolumeFile, Holds, At
  <2>3. <<p, v>> # k
    <3>1. st'.vols[<<p, v>>] = NoVolume
      BY <1>1, <2>1, <2>2 DEF DropVolume, State
    <3> QED BY <2>0, <3>1
  <2>4. q # path
    <3>1. st.vols[<<p, v>>] # NoVolume /\ <<p, v>> \in Ids \X Ids
      BY <2>1, <2>2 DEF HasVolume
    <3> HIDE DEF p, v
    <3> QED BY <2>0, <2>3, <3>1
  <2>5. disk'[path] = disk[path]
    <3> HIDE DEF q
    <3> QED BY <1>1, <2>2, <2>4
  <2> QED BY <2>5
<1>9. CASE ClientWrites
  <2>1. PICK q : disk' = disk \/ disk' = [disk EXCEPT ![q].data = TRUE]
    BY <1>9 DEF ClientWrites, ClientWrite
  <2>4. CASE disk' = disk
    BY <2>4
  <2> SUFFICES ASSUME disk' = [disk EXCEPT ![q].data = TRUE] PROVE disk'[path].data
    BY <2>1, <2>4
  <2>2. q # path => disk'[path] = disk[path]
    BY <1>1
  <2>3. q = path => disk'[path].data
    <3>1. disk[path] \in [size : Nat, data : BOOLEAN] \cup {NoFile}
      BY <1>1 DEF DiskFile
    <3>2. [disk[path] EXCEPT !.data = TRUE].data
      BY <3>1 DEF NoFile
    <3> QED BY <1>1, <3>2
  <2> QED BY <2>2, <2>3
<1>10. ASSUME NEW h \in Handlers, Handle(h) PROVE disk'[path].data
  BY <1>5, <1>6, <1>8, <1>10
     DEF Handle, Arrive, Lock, Work, CreatePool, DeletePool, DeleteVolume, Enter,
         CreatePoolLocked, DeletePoolLocked, DeleteVolumeLocked, CreateVolumeStore,
         CreateVolumeLun, DeleteVolumeStore, SaveOpen, SaveWrite
<1>11. CASE Reconcile
  BY <1>5, <1>7, <1>11
     DEF Reconcile, ReconcileTargets, ReconcilePool, ReconcilePortals, ReconcileLUNs,
         ReconcileStore, ReconcileLun, ReconcileBackstores
<1>12. CASE ReconcileStart \/ ReconcileFails \/ Boot \/ BootSaveOpen \/ BootSaveWrite
            \/ Crash \/ Reboot \/ UNCHANGED vars
  BY <1>5, <1>12 DEF ReconcileStart, ReconcileFails, Boot, BootSaveOpen, BootSaveWrite, Crash,
                     Reboot, Die, vars
<1> QED BY <1>9, <1>10, <1>11, <1>12 DEF Next, ClientWrites

\* A volume of the state that counts has an image of its own with the bytes in it.
Kept(k) == /\ HasVolume(Current, k[1], k[2]) /\ k[2] \notin adopted
           /\ Unshared(k) /\ disk[Image(k)].data

\* The state that counts is well numbered.
LEMMA CurrentType ==
  ASSUME IInv
  PROVE  /\ Current \in State
         /\ \A p, v \in Ids : HasVolume(Current, p, v) =>
              /\ HasPool(Current, p) /\ PathOf(Current, p, v) \in Paths
              /\ TargetOf(Current, p) \in Target /\ Current.vols[<<p, v>>].name \in Names
<1>1. Current \in State /\ WellNumbered(Current)
  BY DEF IInv, TypeOK, DurableOK, Current
<1> QED BY <1>1, VolumeType, TargetType DEF WellNumbered

\* A write to the LUN of a volume that no id was adopted for goes to its image.
LEMMA ReachedKept ==
  ASSUME GInv, NEW k \in Reached, HasVolume(Current, k[1], k[2]), k[2] \notin adopted
  PROVE  k \in Ids \X Ids /\ disk'[Image(k)].data
<1> DEFINE t == TargetOf(Current, k[1])
           n == Current.vols[k].name
<1>1. cfs \in Cfs /\ disk \in [Paths -> DiskFile]
  BY DEF GInv, LInv, IInv, TypeOK
<1>2. PICK l \in cfs.links : l[1] = TargetOf(Current, l[1].id) /\ ClientWrite(l) /\ k = <<l[1].id, l[2]>>
  BY DEF Reached
<1>3. l[1] \in Target /\ l[1].id \in Ids /\ l[2] \in Ids /\ l[3] = l[2]
  BY <1>1 DEF Cfs, Target, GInv, Placed
<1>4. k \in Ids \X Ids /\ k = <<k[1], k[2]>> /\ l[1] = t /\ l[2] = k[2]
  BY <1>2, <1>3
<1>5. t \in Target /\ n \in Names /\ Image(k) \in Paths
  BY <1>4, CurrentType DEF GInv, LInv, Image
<1>6. Wanted(t, k[2], n)
  <2>1. VolumeWants(Current, t, k[2], n)
    BY <1>4 DEF VolumeWants
  <2> HIDE DEF t, n
  <2> QED BY <2>1 DEF Wanted, Current
<1>7. Served(t, k[2], n)
  <2> HIDE DEF t, n
  <2> QED BY <1>4, <1>5, <1>6 DEF GInv, ImagesOK, IdServed
<1>8. l[4] = n
  BY <1>4, <1>7 DEF Served, LinkOf
<1>9. ImageOf(t, n) = Image(k)
  BY <1>4, ImageIs DEF Image, PathOf
<1>10. PICK s \in cfs.stores :
         /\ s.id = l[3] /\ s.name = l[4]
         /\ \/ s.path \in Paths /\ disk[s.path] # NoFile /\ disk' = [disk EXCEPT ![s.path].data = TRUE]
            \/ s.path = Unlinked /\ UNCHANGED disk
  BY <1>2 DEF ClientWrite
<1>11. s.path \in {NoPath, Image(k)}
  BY <1>3, <1>4, <1>7, <1>8, <1>9, <1>10 DEF Served
<1>12. NoPath \notin Paths /\ Unlinked \notin Paths /\ NoPath # Unlinked
  BY DEF NoPath, Unlinked
<1>13. s.path = Image(k) /\ disk' = [disk EXCEPT ![Image(k)].data = TRUE]
  BY <1>5, <1>10, <1>11, <1>12
<1>14. disk'[Image(k)] = [disk[Image(k)] EXCEPT !.data = TRUE]
  BY <1>1, <1>5, <1>13
<1>15. disk[Image(k)] \in [size : Nat, data : BOOLEAN]
  BY <1>1, <1>5, <1>10, <1>12, <1>13 DEF DiskFile
<1> QED BY <1>4, <1>14, <1>15

\* What was written is kept.
WrittenOK == \A k \in written : k \in Ids \X Ids /\ Kept(k)

\* A step that does not disturb the volume keeps it so.
LEMMA UndisturbedKept ==
  ASSUME GInv, WrittenOK, HNext, NEW k \in written \cup Reached, Undisturbed(k)
  PROVE  k \in Ids \X Ids /\ disk'[Image(k)].data
<1>1. IInv /\ Next /\ HasVolume(Current, k[1], k[2])
  BY DEF GInv, LInv, HNext, Undisturbed, Settled
<1>2. CASE k \in Reached
  <2>1. k[2] \notin adopted
    <3>1. k[2] \notin adopted' /\ k[1] \in Ids /\ k[2] \in Ids
      <4>1. PICK l \in cfs.links : k = <<l[1].id, l[2]>>
        BY <1>2 DEF Reached
      <4>2. cfs \in Cfs
        BY <1>1 DEF IInv, TypeOK
      <4>3. l[1].id \in Ids /\ l[2] \in Ids
        BY <4>2 DEF Cfs, Target
      <4> QED BY <4>1, <4>3 DEF Undisturbed
    <3>2. UNCHANGED <<st, file>>
      BY <1>2 DEF Reached, ClientWrite
    <3>3. ~Unused(k[2])'
      <4>1. HasVolume(st, k[1], k[2]) \/ HasVolume(file.st, k[1], k[2])
        BY <1>1 DEF Current
      <4> QED BY <3>1, <3>2, <4>1 DEF Unused, HasVolume
    <3> QED BY <3>1, <3>3 DEF HNext
  <2> QED BY <1>1, <1>2, <2>1, ReachedKept
<1>3. CASE k \in written
  <2>1. k \in Ids \X Ids /\ k = <<k[1], k[2]>> /\ Unshared(k) /\ disk[Image(k)].data
    BY <1>3 DEF WrittenOK, Kept
  <2>2. Image(k) \in Paths
    BY <1>1, <2>1, CurrentType DEF Image
  <2>3. ASSUME server # "down"
        PROVE  /\ disk[Image(k)].size >= Max({GiB, st.vols[k].size})
               /\ server' # "down" => st'.vols[k] = st.vols[k] /\ st.vols[k] # NoVolume
               /\ \A j \in Ids \X Ids : j # k /\ st.vols[j] # NoVolume
                                         => PathOf(st, j[1], j[2]) # Image(k)
    <3>1. Current = st
      BY <2>3 DEF Current
    <3>2. disk[Image(k)].size >= Max({GiB, st.vols[k].size})
      BY <3>1 DEF Undisturbed, Settled
    <3>3. server' # "down" => st'.vols[k] = st.vols[k] /\ st.vols[k] # NoVolume
      BY <1>1, <2>1, <3>1 DEF Undisturbed, Current, HasVolume
    <3>4. ASSUME NEW j \in Ids \X Ids, j # k, st.vols[j] # NoVolume
          PROVE  PathOf(st, j[1], j[2]) # Image(k)
      <4>1. HasVolume(Current, j[1], j[2]) /\ j = <<j[1], j[2]>>
        BY <3>1, <3>4 DEF HasVolume
      <4> QED BY <2>1, <3>1, <3>4, <4>1 DEF Unshared, Image
    <3> QED BY <3>2, <3>3, <3>4
  <2>4. \A h \in Handlers : call'[h].op = "CreateVolume"
           => DiskPath[<<st'.pools[call'[h].pool], call'[h].name>>] # Image(k)
    <3>1. Image(k)' = Image(k)
      BY <2>1 DEF Undisturbed, Image, PathOf
    <3> QED BY <3>1 DEF Undisturbed, Unshared
  <2>5. budget'.faults = budget.faults
    BY DEF Undisturbed
  <2> HIDE DEF Image
  <2> QED BY <1>1, <2>1, <2>2, <2>3, <2>4, <2>5, BytesKept
<1> QED BY <1>2, <1>3

\* What an initiator wrote to the LUN of a volume is in the volume's image, until
\* the volume goes, a system call fails, or it shares its path or its id.
THEOREM SettledData == HSpec => []SettledDataKept
<1>1. HInit => WrittenOK
  BY DEF HInit, WrittenOK
<1>2. GInv /\ WrittenOK /\ [HNext]_HVars => WrittenOK'
  <2> SUFFICES ASSUME GInv, WrittenOK, [HNext]_HVars PROVE WrittenOK'
    OBVIOUS
  <2>1. CASE HNext
    <3> SUFFICES ASSUME NEW k \in written' PROVE k \in Ids \X Ids /\ Kept(k)'
      BY DEF WrittenOK
    <3>1. k \in written \cup Reached /\ Undisturbed(k)
      BY <2>1 DEF HNext
    <3>2. k \in Ids \X Ids /\ disk'[Image(k)].data
      BY <2>1, <3>1, UndisturbedKept
    <3>3. k = <<k[1], k[2]>> /\ Current.vols[k] # NoVolume
      BY <3>1, <3>2 DEF Undisturbed, Settled, HasVolume
    <3>4. HasVolume(Current, k[1], k[2])' /\ Image(k)' = Image(k)
      BY <3>1, <3>3 DEF Undisturbed, HasVolume, Image, PathOf
    <3>5. Unshared(k)' /\ k[2] \notin adopted'
      BY <3>1 DEF Undisturbed
    <3> QED BY <3>2, <3>4, <3>5 DEF Kept
  <2>2. CASE UNCHANGED HVars
    <3>1. UNCHANGED <<server, st, file, disk, call, adopted, written>>
      BY <2>2 DEF HVars
    <3> QED BY <3>1 DEF WrittenOK, Kept, Current, Unshared, Image, PathOf, HasVolume
  <2> QED BY <2>1, <2>2
<1>3. WrittenOK => SettledDataKept
  BY DEF WrittenOK, Kept, SettledDataKept
<1> QED BY <1>1, <1>2, <1>3, ImageInvariance, PTL DEF HSpec
=============================================================================
