-------------------------------- MODULE Lio --------------------------------
(***************************************************************************)
(* The Linux LIO target as sigma.go drives it through configfs             *)
(* (/sys/kernel/config/target), and the disk image files.                  *)
(*                                                                         *)
(* The kernel is external: what is stated of it is only what the program   *)
(* relies on.  rmdir of an IQN that still has a target portal group fails, *)
(* rmdir of a backstore that a LUN links fails, a LUN takes one link, a    *)
(* backstore opens its image file when it is first enabled and it cannot   *)
(* be linked before.  A file that is removed while a backstore has it open *)
(* stays, without a path, as long as the backstore does; a file that is    *)
(* made at that path later is another one.                                 *)
(*                                                                         *)
(* Every List*, Upsert* and Delete* function of sigma.go is an operator on *)
(* the configuration c.  One that changes c returns the SET of its         *)
(* outcomes [ok, fault, c]: whether the Go function returns a nil error,   *)
(* whether a system call failed for a reason that is not in c (an I/O      *)
(* error), and what it left behind.                                        *)
(*                                                                         *)
(* Names are numbers: their order is the order of os.ReadDir.  Directories *)
(* that are named after an id are read in any order ("lun_10" comes before *)
(* "lun_2").  A target portal group (tpgt) is a record [id, name]; its IQN *)
(* is "base:name".                                                         *)
(* Left out: attributes of a tpgt (written again by every upsert), the     *)
(* backstore's serial, IQNs of another base, and HBA directories that hold *)
(* no backstore (ListBackstores skips them).                               *)
(***************************************************************************)
EXTENDS Integers, FiniteSets, FiniteSetsExt

CONSTANTS
    MaxU16,     \* the largest uint16
    Names,      \* pool and volume names, as ranks in directory order
    Paths,      \* paths of disk image files
    Portals     \* network portals, "ip:port"

ASSUME LioAssumption == /\ MaxU16 \in Nat /\ MaxU16 > 1
                        /\ Names \subseteq Nat /\ IsFiniteSet(Names)
                        /\ Paths \subseteq Nat

Ids    == 0..MaxU16
NoName == -1                \* an absent name
NoPath == -1                \* a backstore that was never enabled
Unlinked == -2              \* one whose open image has been removed
Target == [id : Ids, name : Names]
\* A backstore; path is where the image that it has open is.
Store  == [id : Ids, name : Names, path : Paths \cup {NoPath, Unlinked}, size : Int]

(***************************************************************************)
(* A configuration.  An element <<t, l>> of luns is a LUN directory; an    *)
(* element <<t, l, i, n>> of links is its symlink to backstore n of HBA    *)
(* fileio_i.                                                               *)
(***************************************************************************)
Cfs == [iqns    : SUBSET Names,
        tpgs    : SUBSET Target,
        portals : SUBSET (Target \X Portals),
        luns    : SUBSET (Target \X Ids),
        links   : SUBSET (Target \X Ids \X Ids \X Names),
        stores  : SUBSET Store]

EmptyCfs == [iqns |-> {}, tpgs |-> {}, portals |-> {}, luns |-> {},
             links |-> {}, stores |-> {}]

Done(c)    == [ok |-> TRUE,  fault |-> FALSE, c |-> c]
Refused(c) == [ok |-> FALSE, fault |-> FALSE, c |-> c]   \* by the kernel
Broken(c)  == [ok |-> FALSE, fault |-> TRUE,  c |-> c]   \* an I/O error

-----------------------------------------------------------------------------
(* Targets and portals                                                     *)

\* ListTargets: every tpgt of every IQN of this base; ListLUNs: a tpgt's LUNs.
ListTargets(c) == c.tpgs
ListLUNs(c, t) == {l \in Ids : <<t, l>> \in c.luns}

\* MkdirAll of the tpgt, which makes its IQN too.
MkTarget(c, t) == [c EXCEPT !.iqns = @ \cup {t.name}, !.tpgs = @ \cup {t}]

\* What a MkdirAll that fails can leave.
MadeSoFar(c, t) == {c, [c EXCEPT !.iqns = @ \cup {t.name}], MkTarget(c, t)}

UpsertTarget(c, t) == {Done(MkTarget(c, t))} \cup {Broken(d) : d \in MadeSoFar(c, t)}

WithoutPortals(c, t, P) ==
    [c EXCEPT !.portals = {tp \in @ : tp[1] # t \/ tp[2] \notin P}]

\* Mutant: links are looked for in every target.
WithoutLinks_everywhere(c, t, L) == [c EXCEPT !.links = {k \in @ : k[2] \notin L}]

WithoutLinks(c, t, L) ==
    [c EXCEPT !.links = {k \in @ : k[1] # t \/ k[2] \notin L}]

WithoutLuns(c, t, L) ==
    [WithoutLinks(c, t, L) EXCEPT !.luns = {tl \in @ : tl[1] # t \/ tl[2] \notin L}]

\* DeleteTarget: portals, LUNs, the tpgt, then the IQN, which the kernel keeps
\* while another tpgt is in it: the function then fails with its own tpgt gone.
DeleteTarget(c, t) ==
    LET bare == WithoutLuns(WithoutPortals(c, t, Portals), t, Ids)
        gone == [bare EXCEPT !.tpgs = @ \ {t}]
    IN  { IF \E u \in gone.tpgs : u.name = t.name
          THEN Refused(gone)
          ELSE Done([gone EXCEPT !.iqns = @ \ {t.name}]) }
        \cup { Broken(WithoutPortals(c, t, P)) : P \in SUBSET Portals }
        \cup { Broken(WithoutLuns(WithoutPortals(c, t, Portals), t, L)) :
                  L \in SUBSET ListLUNs(c, t) }
        \cup (UNION {{ Broken(WithoutLinks(WithoutLuns(WithoutPortals(c, t, Portals), t, L), t, {l})) :
                         l \in ListLUNs(c, t) } : L \in SUBSET ListLUNs(c, t)})
        \cup { Broken(gone) }

\* DeleteTarget of the zero Target: what is left of its path is the iscsi
\* directory itself, which cannot be removed while it holds an IQN.
DeleteZeroTarget(c) ==
    {IF c.iqns = {} THEN Done(c) ELSE Refused(c), Broken(c)}

\* Mutant: the portals of before stay.
UpsertOnlyPortal_adds(c, t, p) ==
    {Done([MkTarget(c, t) EXCEPT !.portals = @ \cup {<<t, p>>}]), Broken(c)}

\* The portal part of ReconcileAll: remove every portal but p, then make p.
UpsertOnlyPortal(c, t, p) ==
    LET others == Portals \ {p}
    IN  {Done([WithoutPortals(MkTarget(c, t), t, others)
                 EXCEPT !.portals = @ \cup {<<t, p>>}])}
        \cup {Broken(WithoutPortals(c, t, P)) : P \in SUBSET others}

-----------------------------------------------------------------------------
(* LUNs                                                                    *)

\* DeleteLUN: the symlink, then the directory.
DeleteLUN(c, t, l) ==
    {Done(WithoutLuns(c, t, {l})), Broken(c), Broken(WithoutLinks(c, t, {l}))}

\* The backstores a LUN can link: a disabled one answers ENODEV.
Enabled(c, i, n) == \E s \in c.stores : s.id = i /\ s.name = n /\ s.path # NoPath

LinkOf(c, t, l) == {k \in c.links : k[1] = t /\ k[2] = l}

\* UpsertLUN: the directories are made, the tpgt too if it is missing; EEXIST
\* from the symlink is dropped, so a LUN that links some backstore keeps it.
UpsertLUN(c, t, l, i, n) ==
    LET made == [MkTarget(c, t) EXCEPT !.luns = @ \cup {<<t, l>>}]
    IN  { CASE LinkOf(c, t, l) # {}  -> Done(made)
            [] LinkOf(c, t, l) = {} /\ Enabled(c, i, n)
                  -> Done([made EXCEPT !.links = @ \cup {<<t, l, i, n>>}])
            [] LinkOf(c, t, l) = {} /\ ~Enabled(c, i, n) -> Refused(made),
          Broken(made) } \cup {Broken(d) : d \in MadeSoFar(c, t)}

-----------------------------------------------------------------------------
(* Backstores                                                              *)

NamesOf(c, i) == {s.name : s \in {s \in c.stores : s.id = i}}

\* ListBackstores: one entry per HBA, under the name read last.
ListBackstores(c) ==
    {[id |-> i, name |-> Max(NamesOf(c, i))] : i \in {s.id : s \in c.stores}}

WithoutStores(c, i, N) ==
    [c EXCEPT !.stores = {s \in @ : s.id # i \/ s.name \notin N}]

LinkedNames(c, i) == {n \in NamesOf(c, i) : \E k \in c.links : k[3] = i /\ k[4] = n}

\* DeleteBackstore: every backstore of the HBA in directory order, up to the
\* first one that a LUN links.
DeleteBackstore(c, i) ==
    LET all     == NamesOf(c, i)
        linked  == LinkedNames(c, i)
        upTo(n) == {m \in all : m < n}
        gone    == {N \in SUBSET (all \ linked) : \A n \in N : upTo(n) \subseteq N}
    IN  { IF linked = {} THEN Done(WithoutStores(c, i, all))
          ELSE Refused(WithoutStores(c, i, upTo(Min(linked)))) }
        \cup {Broken(WithoutStores(c, i, N)) : N \in gone}

\* UpsertBackstore: size is written every time, the file is opened only when
\* the backstore is not enabled yet.
UpsertBackstore(c, i, n, path, size) ==
    LET old     == {s \in c.stores : s.id = i /\ s.name = n}
        opened  == old \cap {s \in old : s.path # NoPath}
        with(s) == [c EXCEPT !.stores = (@ \ old) \cup {s}]
        new(q, z) == [id |-> i, name |-> n, path |-> q, size |-> z]
    IN  IF opened = {}
        THEN {Done(with(new(path, size))), Broken(c),
              Broken(with(new(NoPath, 0))), Broken(with(new(NoPath, size)))}
        ELSE {Broken(c)} \cup
             UNION {{Done(with(new(s.path, size))), Broken(with(new(s.path, size)))} :
                      s \in opened}

-----------------------------------------------------------------------------
(* Disk image files: their size, and whether they hold bytes that an       *)
(* initiator wrote.                                                        *)

NoFile   == [size |-> -1, data |-> FALSE]
DiskFile == [size : Nat, data : BOOLEAN] \cup {NoFile}

\* Mutant: an image that is there is not found.
SizeOnDisk_none(d, path) == 0

\* The size TouchDiskFile goes by: 0 for a file it does not find.
SizeOnDisk(d, path) == IF d[path] = NoFile THEN 0 ELSE d[path].size

\* TouchDiskFile outcomes [ok, fault, d, size].  Growing a file goes through
\* os.Create, which empties it first.  The error of the first stat is returned
\* when there is no file and nothing to grow to.  A stat that fails for another
\* reason is taken for an empty file.
TouchDiskFile(d, path, size) ==
    LET have == SizeOnDisk(d, path)
        file(z) == [d EXCEPT ![path] = [size |-> z, data |-> FALSE]]
        out(ok, fault, e, z) == [ok |-> ok, fault |-> fault, d |-> e, size |-> z]
    IN  IF have >= size
        THEN {out(d[path] # NoFile, FALSE, d, have)}
             \cup (IF size <= 0 THEN {out(FALSE, TRUE, d, 0)}
                                ELSE {out(TRUE, TRUE, file(size), size)})
        ELSE {out(TRUE, FALSE, file(size), size),      \* created and filled
              out(FALSE, TRUE, d, 0),                  \* os.Create failed
              out(FALSE, TRUE, file(0), 0)}            \* Fallocate failed

\* The file at the path is removed: backstores that have it open keep it.
Unlink(c, path) ==
    [c EXCEPT !.stores = {[s EXCEPT !.path = IF @ = path THEN Unlinked ELSE @] : s \in @}]

\* DeleteDiskFile: a missing file is no error.
DeleteDiskFile(c, d, path) ==
    { [ok |-> TRUE,  fault |-> FALSE, c |-> Unlink(c, path), d |-> [d EXCEPT ![path] = NoFile]],
      [ok |-> FALSE, fault |-> TRUE,  c |-> c, d |-> d] }
=============================================================================
