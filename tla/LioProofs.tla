----------------------------- MODULE LioProofs -----------------------------
(***************************************************************************)
(* What the kernel operations of Lio preserve: each outcome is a           *)
(* configuration again.                                                    *)
(***************************************************************************)
EXTENDS Lio, TLAPS

\* What an outcome leaves behind is a configuration.
IsOutcome(r) == r.c \in Cfs

\* An outcome made of a configuration is an outcome.
LEMMA OutcomeTypes ==
  ASSUME NEW c \in Cfs
  PROVE  IsOutcome(Done(c)) /\ IsOutcome(Refused(c)) /\ IsOutcome(Broken(c))
BY DEF IsOutcome, Done, Refused, Broken

\* MkdirAll of a target leaves a configuration.
LEMMA MkTargetType ==
  ASSUME NEW c \in Cfs, NEW t \in Target
  PROVE  MkTarget(c, t) \in Cfs
BY DEF MkTarget, Cfs, Target

\* Removing portals, links, LUNs or backstores leaves a configuration.
LEMMA WithoutTypes ==
  ASSUME NEW c \in Cfs, NEW t, NEW X
  PROVE  /\ WithoutPortals(c, t, X) \in Cfs
         /\ WithoutLinks(c, t, X) \in Cfs
         /\ WithoutLuns(c, t, X) \in Cfs
         /\ WithoutStores(c, t, X) \in Cfs
<1>1. WithoutPortals(c, t, X) \in Cfs BY DEF WithoutPortals, Cfs
<1>2. WithoutLinks(c, t, X) \in Cfs BY DEF WithoutLinks, Cfs
<1>3. WithoutLuns(c, t, X) \in Cfs BY <1>2 DEF WithoutLuns, Cfs
<1>4. WithoutStores(c, t, X) \in Cfs BY DEF WithoutStores, Cfs
<1> QED BY <1>1, <1>2, <1>3, <1>4

\* MkdirAll of a target leaves a configuration, even when it fails.
LEMMA MadeSoFarType ==
  ASSUME NEW c \in Cfs, NEW t \in Target
  PROVE  MadeSoFar(c, t) \subseteq Cfs
<1>1. [c EXCEPT !.iqns = @ \cup {t.name}] \in Cfs
  BY DEF Cfs, Target
<1> QED BY <1>1, MkTargetType DEF MadeSoFar

\* UpsertTarget leaves a configuration, even when it fails.
LEMMA UpsertTargetType ==
  ASSUME NEW c \in Cfs, NEW t \in Target, NEW r \in UpsertTarget(c, t)
  PROVE  IsOutcome(r)
BY MadeSoFarType, MkTargetType, OutcomeTypes DEF UpsertTarget

\* Where DeleteTarget can stop.
LEMMA DeleteTargetCases ==
  ASSUME NEW c, NEW t, NEW r \in DeleteTarget(c, t)
  PROVE  LET none == WithoutPortals(c, t, Portals)
             gone == [WithoutLuns(none, t, Ids) EXCEPT !.tpgs = @ \ {t}]
         IN  \/ r \in {Refused(gone), Done([gone EXCEPT !.iqns = @ \ {t.name}])}
             \/ \E P : r = Broken(WithoutPortals(c, t, P))
             \/ \E L : r = Broken(WithoutLuns(none, t, L))
             \/ \E L, Z : r = Broken(WithoutLinks(WithoutLuns(none, t, L), t, Z))
             \/ r = Broken(gone)
<1> DEFINE none == WithoutPortals(c, t, Portals)
           bare == WithoutLuns(none, t, Ids)
           gone == [bare EXCEPT !.tpgs = @ \ {t}]
           end == [gone EXCEPT !.iqns = @ \ {t.name}]
           ended == {IF \E u \in gone.tpgs : u.name = t.name THEN Refused(gone) ELSE Done(end)}
           atPortal == {Broken(WithoutPortals(c, t, P)) : P \in SUBSET Portals}
           atLun == {Broken(WithoutLuns(none, t, L)) : L \in SUBSET ListLUNs(c, t)}
           atLink == UNION {{Broken(WithoutLinks(WithoutLuns(none, t, L), t, {l})) :
                               l \in ListLUNs(c, t)} : L \in SUBSET ListLUNs(c, t)}
<1>1. DeleteTarget(c, t) = ended \cup atPortal \cup atLun \cup atLink \cup {Broken(gone)}
  BY Zenon DEF DeleteTarget
<1> HIDE DEF none, bare, gone, end
<1>2. r \in ended => r \in {Refused(gone), Done(end)}
  OBVIOUS
<1>3. r \in atLink => \E L, Z : r = Broken(WithoutLinks(WithoutLuns(none, t, L), t, Z))
  OBVIOUS
<1>4. (r \in atPortal => \E P : r = Broken(WithoutPortals(c, t, P)))
      /\ (r \in atLun => \E L : r = Broken(WithoutLuns(none, t, L)))
  OBVIOUS
<1> HIDE DEF ended, atPortal, atLun, atLink
<1>5. \/ r \in {Refused(gone), Done(end)}
      \/ \E P : r = Broken(WithoutPortals(c, t, P))
      \/ \E L : r = Broken(WithoutLuns(none, t, L))
      \/ \E L, Z : r = Broken(WithoutLinks(WithoutLuns(none, t, L), t, Z))
      \/ r = Broken(gone)
  BY <1>1, <1>2, <1>3, <1>4
<1> QED BY Zenon, <1>5 DEF none, bare, gone, end

\* DeleteTarget leaves a configuration wherever it stops.
LEMMA DeleteTargetType ==
  ASSUME NEW c \in Cfs, NEW t, NEW r \in DeleteTarget(c, t)
  PROVE  IsOutcome(r)
<1> DEFINE none == WithoutPortals(c, t, Portals)
           bare == WithoutLuns(none, t, Ids)
           gone == [bare EXCEPT !.tpgs = @ \ {t}]
<1>1. none \in Cfs /\ bare \in Cfs
  BY WithoutTypes
<1>2. gone \in Cfs
  <2> HIDE DEF bare
  <2> QED BY <1>1 DEF Cfs
<1>3. [gone EXCEPT !.iqns = @ \ {t.name}] \in Cfs
  <2> HIDE DEF gone
  <2> QED BY <1>2 DEF Cfs
<1>4. \A L, Z : /\ WithoutLuns(none, t, L) \in Cfs
               /\ WithoutLinks(WithoutLuns(none, t, L), t, Z) \in Cfs
  <2> HIDE DEF none
  <2> QED BY <1>1, WithoutTypes
<1>5. \E d \in Cfs : r \in {Done(d), Refused(d), Broken(d)}
  <2>1. CASE r \in {Refused(gone), Done([gone EXCEPT !.iqns = @ \ {t.name}])}
    <3> HIDE DEF gone
    <3> QED BY <2>1, <1>2, <1>3
  <2>2. CASE \E P : r = Broken(WithoutPortals(c, t, P))
    BY <2>2, WithoutTypes
  <2>3. CASE \E L : r = Broken(WithoutLuns(none, t, L))
    <3> HIDE DEF none
    <3> QED BY <2>3, <1>4
  <2>4. CASE \E L, Z : r = Broken(WithoutLinks(WithoutLuns(none, t, L), t, Z))
    <3> HIDE DEF none
    <3> QED BY <2>4, <1>4
  <2>5. CASE r = Broken(gone)
    <3> HIDE DEF gone
    <3> QED BY <2>5, <1>2
  <2> QED BY Zenon, <2>1, <2>2, <2>3, <2>4, <2>5, DeleteTargetCases
<1> QED BY <1>5, OutcomeTypes

\* DeleteTarget of the zero Target changes nothing.
LEMMA DeleteZeroTargetType ==
  ASSUME NEW c \in Cfs, NEW r \in DeleteZeroTarget(c)
  PROVE  IsOutcome(r)
BY OutcomeTypes DEF DeleteZeroTarget

\* Replacing the portals of a target leaves a configuration.
LEMMA UpsertOnlyPortalType ==
  ASSUME NEW c \in Cfs, NEW t \in Target, NEW p \in Portals,
         NEW r \in UpsertOnlyPortal(c, t, p)
  PROVE  IsOutcome(r)
<1> DEFINE d == WithoutPortals(MkTarget(c, t), t, Portals \ {p})
           e == [d EXCEPT !.portals = @ \cup {<<t, p>>}]
<1>1. e \in Cfs
  <2>1. d \in Cfs BY MkTargetType, WithoutTypes
  <2> HIDE DEF d
  <2> QED BY <2>1 DEF Cfs
<1>2. \E f \in Cfs : r \in {Done(f), Broken(f)}
  <2>1. CASE r = Done(e) 
    <3> HIDE DEF e
    <3> QED BY <2>1, <1>1
  <2>2. CASE r \in {Broken(WithoutPortals(c, t, P)) : P \in SUBSET (Portals \ {p})}
    BY <2>2, WithoutTypes
  <2> QED BY <2>1, <2>2 DEF UpsertOnlyPortal
<1> QED BY <1>2, OutcomeTypes

\* DeleteLUN leaves a configuration wherever it stops.
LEMMA DeleteLUNType ==
  ASSUME NEW c \in Cfs, NEW t, NEW l, NEW r \in DeleteLUN(c, t, l)
  PROVE  IsOutcome(r)
BY WithoutTypes, OutcomeTypes DEF DeleteLUN

\* UpsertLUN leaves a configuration, linked or not.
LEMMA UpsertLUNType ==
  ASSUME NEW c \in Cfs, NEW t \in Target, NEW l \in Ids, NEW i \in Ids, NEW n \in Names,
         NEW r \in UpsertLUN(c, t, l, i, n)
  PROVE  IsOutcome(r)
<1> DEFINE m == MkTarget(c, t)
           made == [m EXCEPT !.luns = @ \cup {<<t, l>>}]
           linked == [made EXCEPT !.links = @ \cup {<<t, l, i, n>>}]
<1>1. made \in Cfs
  <2>1. m \in Cfs BY MkTargetType
  <2> HIDE DEF m
  <2> QED BY <2>1 DEF Cfs
<1>2. linked \in Cfs
  <2> HIDE DEF made
  <2> QED BY <1>1 DEF Cfs
<1>3. r \in {Done(made), Done(linked), Refused(made), Broken(made)}
      \/ \E d \in MadeSoFar(c, t) : r = Broken(d)
  BY DEF UpsertLUN
<1> HIDE DEF made, linked
<1> QED BY <1>1, <1>2, <1>3, MadeSoFarType, OutcomeTypes

\* DeleteBackstore leaves a configuration wherever it stops.
LEMMA DeleteBackstoreType ==
  ASSUME NEW c \in Cfs, NEW i, NEW r \in DeleteBackstore(c, i)
  PROVE  IsOutcome(r)
<1>1. \E X : r \in {Done(WithoutStores(c, i, X)), Refused(WithoutStores(c, i, X)),
                    Broken(WithoutStores(c, i, X))}
  BY DEF DeleteBackstore
<1> QED BY <1>1, WithoutTypes, OutcomeTypes

\* Removing a file leaves a configuration, and every backstore with what it was
\* but for the path of the file it has open.
LEMMA UnlinkFacts ==
  ASSUME NEW c \in Cfs, NEW q \in Paths
  PROVE  /\ Unlink(c, q) \in Cfs
         /\ Unlink(c, q).iqns = c.iqns /\ Unlink(c, q).tpgs = c.tpgs
         /\ Unlink(c, q).portals = c.portals /\ Unlink(c, q).luns = c.luns
         /\ Unlink(c, q).links = c.links
         /\ \A s \in c.stores : \E t \in Unlink(c, q).stores :
              /\ t.id = s.id /\ t.name = s.name /\ t.size = s.size
              /\ t.path = IF s.path = q THEN Unlinked ELSE s.path
         /\ \A t \in Unlink(c, q).stores : \E s \in c.stores :
              /\ t.id = s.id /\ t.name = s.name /\ t.size = s.size
              /\ t.path = IF s.path = q THEN Unlinked ELSE s.path
<1> DEFINE moved(s) == [s EXCEPT !.path = IF @ = q THEN Unlinked ELSE @]
<1>1. \A s \in Store : /\ moved(s) \in Store
                       /\ moved(s).id = s.id /\ moved(s).name = s.name /\ moved(s).size = s.size
                       /\ moved(s).path = IF s.path = q THEN Unlinked ELSE s.path
  BY DEF Store
<1>2. Unlink(c, q) = [c EXCEPT !.stores = {moved(s) : s \in @}]
  BY DEF Unlink
<1>3. c.stores \subseteq Store BY DEF Cfs
<1> HIDE DEF moved
<1>4. {moved(s) : s \in c.stores} \subseteq Store BY <1>1, <1>3
<1>5. /\ Unlink(c, q) \in Cfs
      /\ Unlink(c, q).iqns = c.iqns /\ Unlink(c, q).tpgs = c.tpgs
      /\ Unlink(c, q).portals = c.portals /\ Unlink(c, q).luns = c.luns
      /\ Unlink(c, q).links = c.links
      /\ Unlink(c, q).stores = {moved(s) : s \in c.stores}
  BY <1>2, <1>4 DEF Cfs
<1> QED BY <1>1, <1>3, <1>5

\* UpsertBackstore leaves a configuration, the backstore enabled or not.
LEMMA UpsertBackstoreType ==
  ASSUME NEW c \in Cfs, NEW i \in Ids, NEW n \in Names, NEW q \in Paths, NEW z \in Int,
         NEW r \in UpsertBackstore(c, i, n, q, z)
  PROVE  IsOutcome(r)
<1> DEFINE old == {s \in c.stores : s.id = i /\ s.name = n}
           opened == old \cap {s \in old : s.path # NoPath}
           with(s) == [c EXCEPT !.stores = (@ \ old) \cup {s}]
           new(p, y) == [id |-> i, name |-> n, path |-> p, size |-> y]
<1>1. \A s \in Store : with(s) \in Cfs
  <2> HIDE DEF old
  <2> QED BY DEF Cfs
<1>2. \A p \in Paths \cup {NoPath, Unlinked}, y \in Int : new(p, y) \in Store
  BY DEF Store
<1>3. \A s \in opened : s.path \in Paths \cup {NoPath, Unlinked}
  BY DEF Cfs, Store
<1>4. CASE opened = {}
  <2>1. r \in {Done(with(new(q, z))), Broken(c), Broken(with(new(NoPath, 0))),
               Broken(with(new(NoPath, z)))}
    BY <1>4 DEF UpsertBackstore
  <2>2. with(new(q, z)) \in Cfs /\ with(new(NoPath, 0)) \in Cfs /\ with(new(NoPath, z)) \in Cfs
    <3> HIDE DEF with, new
    <3> QED BY <1>1, <1>2
  <2> HIDE DEF with, new
  <2> QED BY <2>1, <2>2, OutcomeTypes
<1>5. CASE opened # {}
  <2>1. r = Broken(c) \/ \E s \in opened : r \in {Done(with(new(s.path, z))),
                                                  Broken(with(new(s.path, z)))}
    BY <1>5 DEF UpsertBackstore
  <2>2. \A s \in opened : with(new(s.path, z)) \in Cfs
    <3> HIDE DEF with, new, opened
    <3> QED BY <1>1, <1>2, <1>3
  <2> HIDE DEF with, new, opened
  <2> QED BY <2>1, <2>2, OutcomeTypes
<1> QED BY <1>4, <1>5
=============================================================================
