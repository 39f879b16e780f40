-------------------------------- MODULE Play --------------------------------
(***************************************************************************)
(* The commands play-up and play-down (play.go): PlayUp exports one image  *)
(* file as LUN 0 of one target, step by step, and exits at the first       *)
(* error; PlayDown removes every target, backstore and image there is, and *)
(* goes on after every error.  Each run of a command is a process of its   *)
(* own: two can run at once, and one can be killed between any two steps.  *)
(*                                                                         *)
(* A step is one system call that changes configfs or a file, or one       *)
(* directory listing; what PlayDown has listed and not yet visited is in   *)
(* run[x].  The kernel is that of Lio, with the HBA directories kept apart  *)
(* from the backstores in them; its rmdir refuses a directory that has     *)
(* something in it and a backstore that is linked.  Attributes of portal   *)
(* groups and backstores are left out, but for the exits of the writes to  *)
(* them.                                                                   *)
(***************************************************************************)
EXTENDS Lio

CONSTANTS
    Procs,                      \* processes
    Own, OwnId, OwnPath, OwnPortal, OwnSize,    \* what PlayUp is to make
    Before,                     \* what may be there at first: [cfs, hbas, disk]
    MaxRuns, MaxFaults          \* bounds: commands run; failed calls and kills

\* What there is in configfs is in a directory that is there (H: the HBAs).
Nested(c, H) == /\ \A t \in c.tpgs : t.name \in c.iqns
                /\ \A k \in c.portals : k[1] \in c.tpgs
                /\ \A k \in c.luns : k[1] \in c.tpgs
                /\ \A k \in c.links : <<k[1], k[2]>> \in c.luns
                /\ \A s \in c.stores : s.id \in H

ASSUME PlayAssumption ==
    /\ Own \in Names /\ OwnId \in Ids /\ OwnPath \in Paths
    /\ OwnPortal \in Portals /\ OwnSize \in Nat \ {0}
    /\ MaxRuns \in Nat /\ MaxFaults \in Nat
    /\ \A b \in Before : /\ b.cfs \in Cfs /\ b.hbas \subseteq Ids /\ Nested(b.cfs, b.hbas)
                        /\ b.disk \in [Paths -> DiskFile]

VARIABLES
    cfs,        \* configfs
    hbas,       \* the HBA directories, "core/fileio_<id>"
    disk,       \* the image files
    run,        \* per process: where it is, and what it has still to visit
    calm,       \* ghost: processes that ran to here alone, without a failed call
    clear,      \* ghost: processes that began with nothing in PlayUp's way
    budget      \* how many commands were run, and how many calls failed

vars == <<cfs, hbas, disk, run, calm, clear, budget>>

\* Mutant: the number does not fit in 16 bits.
OwnTarget_overflows == [id |-> MaxU16 + 1, name |-> Own]
OwnTarget == [id |-> MaxU16, name |-> Own]      \* tpgt_65535
Ended     == {"new", "up ok", "up failed", "down ok", "killed"}

Run == [pc : Ended \cup {"create", "store", "control", "enable", "target", "lun",
                         "link", "enable tpg", "portal", "attributes",
                         "list", "iqn", "tpg", "np", "luns", "sub", "hba", "data", "img"},
        iqns : SUBSET Names, tpgs : SUBSET Target, portals : SUBSET Portals,
        luns : SUBSET Ids, hbas : SUBSET Ids, names : SUBSET Names,
        imgs : SUBSET Paths]
RunAt(pc) == [pc |-> pc, iqns |-> {}, tpgs |-> {}, portals |-> {}, luns |-> {},
              hbas |-> {}, names |-> {}, imgs |-> {}]

At(x, pc)  == run[x].pc = pc
Goto(x, r) == run' = [run EXCEPT ![x] = r]
Jump(x, pc) == run' = [run EXCEPT ![x].pc = pc]
Fails(x)   == /\ budget.faults < MaxFaults
              /\ budget' = [budget EXCEPT !.faults = @ + 1]
              /\ calm' = calm \ {x} /\ UNCHANGED clear
Works      == UNCHANGED <<calm, clear, budget>>

-----------------------------------------------------------------------------
(* PlayUp                                                                  *)

\* A call with these outcomes: on to pc, or os.Exit(1).
Do(x, outcomes, pc) == \E o \in outcomes :
    /\ cfs' = o.c
    /\ Jump(x, IF o.ok THEN pc ELSE "up failed")
    /\ IF o.fault THEN Fails(x) ELSE Works

\* WriteConfig: the write to a directory that another process has removed ends
\* the process too (the FileInfo it takes the mode from is nil: a panic).
Write(x, exists, d, pc) ==
    Do(x, {IF exists THEN Done(d) ELSE Refused(cfs), Broken(cfs)}, pc)

\* The image is emptied when it is created, whoever uses it; then its last byte
\* is written.
CreateImage(x) ==
    LET file(z) == [disk EXCEPT ![OwnPath] = [size |-> z, data |-> FALSE]]
    IN  /\ At(x, "create")
        /\ \/ disk' = file(OwnSize) /\ Jump(x, "store") /\ Works
           \/ disk' \in {disk, file(0)} /\ Jump(x, "up failed") /\ Fails(x)
        /\ UNCHANGED <<cfs, hbas>>

OwnStores == {s \in cfs.stores : s.id = OwnId /\ s.name = Own}
With(S)   == [cfs EXCEPT !.stores = (@ \ OwnStores) \cup S]

\* Mutant: a directory that is there is an error (Mkdir).
MakeStore_mkdir(x) ==
    /\ At(x, "store")
    /\ \/ /\ hbas' = hbas \cup {OwnId}
          /\ Do(x, {IF OwnStores = {}
                    THEN Done(With({[id |-> OwnId, name |-> Own, path |-> NoPath, size |-> 0]}))
                    ELSE Refused(cfs)}, "control")
       \/ hbas' = hbas \cup {OwnId} /\ Do(x, {Broken(cfs)}, "control")
    /\ UNCHANGED disk
MakeStore(x) ==
    /\ At(x, "store")
    /\ \/ /\ hbas' = hbas \cup {OwnId}
          /\ Do(x, {IF OwnStores = {}
                    THEN Done(With({[id |-> OwnId, name |-> Own, path |-> NoPath, size |-> 0]}))
                    ELSE Done(cfs), Broken(cfs)}, "control")
       \/ Do(x, {Broken(cfs)}, "control") /\ UNCHANGED hbas
    /\ UNCHANGED disk

\* fd_dev_name counts only when the backstore is enabled, fd_dev_size at once.
Configure(x) ==
    /\ At(x, "control")
    /\ Write(x, OwnStores # {}, With({[s EXCEPT !.size = OwnSize] : s \in OwnStores}), "enable")
    /\ UNCHANGED <<hbas, disk>>

\* A backstore can be enabled once (UpsertBackstore of sigma.go asks first).
EnableStore(x) ==
    /\ At(x, "enable")
    /\ Write(x, OwnStores # {} /\ ~Enabled(cfs, OwnId, Own),
             With({[s EXCEPT !.path = OwnPath] : s \in OwnStores}), "target")
    /\ UNCHANGED <<hbas, disk>>

MakeTarget(x) ==
    /\ At(x, "target") /\ Do(x, UpsertTarget(cfs, OwnTarget), "lun")
    /\ UNCHANGED <<hbas, disk>>

\* MkdirAll makes what is missing above the LUN, too.
MakeLUN(x) ==
    LET made == [MkTarget(cfs, OwnTarget) EXCEPT !.luns = @ \cup {<<OwnTarget, 0>>}]
    IN  /\ At(x, "lun")
        /\ Do(x, {Done(made)} \cup {Broken(d) : d \in MadeSoFar(cfs, OwnTarget)}, "link")
        /\ UNCHANGED <<hbas, disk>>

\* Unlike UpsertLUN of sigma.go, a link that is there is an error.
MakeLink(x) ==
    LET able == /\ <<OwnTarget, 0>> \in cfs.luns /\ LinkOf(cfs, OwnTarget, 0) = {}
                /\ Enabled(cfs, OwnId, Own)
    IN  /\ At(x, "link")
        /\ Write(x, able, [cfs EXCEPT !.links = @ \cup {<<OwnTarget, 0, OwnId, Own>>}],
                 "enable tpg")
        /\ UNCHANGED <<hbas, disk>>

EnableTarget(x) ==
    /\ At(x, "enable tpg") /\ Write(x, OwnTarget \in cfs.tpgs, cfs, "portal")
    /\ UNCHANGED <<hbas, disk>>

\* Mutant: the portal is forgotten.
MakePortal_none(x) ==
    /\ At(x, "portal") /\ Do(x, UpsertTarget(cfs, OwnTarget), "attributes")
    /\ UNCHANGED <<hbas, disk>>
MakePortal(x) ==
    LET made == [MkTarget(cfs, OwnTarget) EXCEPT !.portals = @ \cup {<<OwnTarget, OwnPortal>>}]
    IN  /\ At(x, "portal")
        /\ Do(x, {Done(made)} \cup {Broken(d) : d \in MadeSoFar(cfs, OwnTarget)}, "attributes")
        /\ UNCHANGED <<hbas, disk>>

SetAttributes(x) ==
    /\ At(x, "attributes") /\ Write(x, OwnTarget \in cfs.tpgs, cfs, "up ok")
    /\ UNCHANGED <<hbas, disk>>

-----------------------------------------------------------------------------
(* PlayDown.  A listing of a directory that is gone or that fails skips what *)
(* the directory is for; a removal that fails is logged and that is all.   *)

\* Lists the directory and goes on as r, or skips it and goes on as skip.
Visit(x, exists, r, skip) ==
    /\ \/ exists /\ Goto(x, r) /\ Works
       \/ ~exists /\ Goto(x, skip) /\ Works
       \/ Goto(x, skip) /\ Fails(x)
    /\ UNCHANGED <<cfs, hbas, disk>>

\* Removes something of configfs if the kernel lets it; on as r anyway.
Remove(x, able, d, r) ==
    /\ \/ able /\ cfs' = d /\ Works
       \/ ~able /\ UNCHANGED cfs /\ Works
       \/ UNCHANGED cfs /\ Fails(x)
    /\ Goto(x, r)

\* A listing at the top is to be visited from pc on; one that fails goes on with
\* what was read by then.
ListTop(x, S, pc, what) ==
    /\ \/ Goto(x, [RunAt(pc) EXCEPT ![what] = S]) /\ Works
       \/ \E N \in SUBSET S : Goto(x, [RunAt(pc) EXCEPT ![what] = N]) /\ Fails(x)
    /\ UNCHANGED <<cfs, hbas, disk>>

ListIQNs(x) == At(x, "list") /\ ListTop(x, cfs.iqns, "iqn", "iqns")

\* The IQN, tpgt, LUN and HBA being visited: they come by name, not by number,
\* and nothing depends on the order.
Iqn(x)  == CHOOSE n \in run[x].iqns : TRUE
Tpg(x)  == CHOOSE t \in run[x].tpgs : TRUE
Lun(x)  == CHOOSE l \in run[x].luns : TRUE
Hba(x)  == CHOOSE i \in run[x].hbas : TRUE
NextIQN(x) == [RunAt("iqn") EXCEPT !.iqns = @ \cup (run[x].iqns \ {Iqn(x)})]
NextTpg(x) == [RunAt("tpg") EXCEPT !.iqns = run[x].iqns, !.tpgs = run[x].tpgs \ {Tpg(x)}]
NextLUN(x) == [run[x] EXCEPT !.pc = "luns", !.luns = @ \ {Lun(x)}]
\* Mutant: an HBA that the kernel has kept is tried again.
NextHBA_again(x) ==
    [RunAt("hba") EXCEPT !.hbas = IF NamesOf(cfs, Hba(x)) = {} THEN run[x].hbas \ {Hba(x)}
                                                               ELSE run[x].hbas]
NextHBA(x) == [RunAt("hba") EXCEPT !.hbas = run[x].hbas \ {Hba(x)}]

ListTpgs(x) ==
    /\ At(x, "iqn") /\ run[x].iqns # {}
    /\ Visit(x, Iqn(x) \in cfs.iqns,
             [run[x] EXCEPT !.pc = "tpg", !.tpgs = {t \in cfs.tpgs : t.name = Iqn(x)}],
             NextIQN(x))

ListPortals(x) ==
    /\ At(x, "tpg") /\ run[x].tpgs # {}
    /\ Visit(x, Tpg(x) \in cfs.tpgs,
             [run[x] EXCEPT !.pc = "np", !.portals = {p \in Portals : <<Tpg(x), p>> \in cfs.portals}],
             NextTpg(x))

RemovePortal(x) ==
    /\ At(x, "np")
    /\ \E p \in run[x].portals :
         Remove(x, TRUE, WithoutPortals(cfs, Tpg(x), {p}), [run[x] EXCEPT !.portals = @ \ {p}])
    /\ UNCHANGED <<hbas, disk>>

ListTpgLUNs(x) ==
    /\ At(x, "np") /\ run[x].portals = {}
    /\ Visit(x, Tpg(x) \in cfs.tpgs, [run[x] EXCEPT !.pc = "luns", !.luns = ListLUNs(cfs, Tpg(x))],
             NextTpg(x))

\* The link in a LUN's directory, if the directory can be listed.
RemoveLink(x) ==
    /\ At(x, "luns") /\ run[x].luns # {}
    /\ \/ Remove(x, <<Tpg(x), Lun(x)>> \in cfs.luns, WithoutLinks(cfs, Tpg(x), {Lun(x)}),
                 IF <<Tpg(x), Lun(x)>> \in cfs.luns THEN [run[x] EXCEPT !.pc = "sub"] ELSE NextLUN(x))
       \/ Goto(x, NextLUN(x)) /\ Fails(x) /\ UNCHANGED cfs
    /\ UNCHANGED <<hbas, disk>>

RemoveLUN(x) ==
    /\ At(x, "sub")
    /\ Remove(x, LinkOf(cfs, Tpg(x), Lun(x)) = {}, WithoutLuns(cfs, Tpg(x), {Lun(x)}), NextLUN(x))
    /\ UNCHANGED <<hbas, disk>>

RemoveTpg(x) ==
    LET t == Tpg(x)
        bare == ListLUNs(cfs, t) = {} /\ \A p \in Portals : <<t, p>> \notin cfs.portals
    IN  /\ At(x, "luns") /\ run[x].luns = {}
        /\ Remove(x, bare, [cfs EXCEPT !.tpgs = @ \ {t}], NextTpg(x))
        /\ UNCHANGED <<hbas, disk>>

RemoveIQN(x) ==
    /\ At(x, "tpg") /\ run[x].tpgs = {}
    /\ Remove(x, \A t \in cfs.tpgs : t.name # Iqn(x), [cfs EXCEPT !.iqns = @ \ {Iqn(x)}],
              NextIQN(x))
    /\ UNCHANGED <<hbas, disk>>

\* The backstores, when every IQN has been visited.
\* Mutant: they are not looked for.
ListHBAs_none(x) == At(x, "iqn") /\ run[x].iqns = {} /\ ListTop(x, {}, "hba", "hbas")
ListHBAs(x) == At(x, "iqn") /\ run[x].iqns = {} /\ ListTop(x, hbas, "hba", "hbas")

ListStores(x) ==
    /\ At(x, "hba") /\ run[x].hbas # {}
    /\ Visit(x, Hba(x) \in hbas, [run[x] EXCEPT !.pc = "data", !.names = NamesOf(cfs, Hba(x))],
             NextHBA(x))

RemoveStore(x) ==
    /\ At(x, "data")
    /\ \E n \in run[x].names :
         Remove(x, n \notin LinkedNames(cfs, Hba(x)), WithoutStores(cfs, Hba(x), {n}),
                [run[x] EXCEPT !.names = @ \ {n}])
    /\ UNCHANGED <<hbas, disk>>

RemoveHBA(x) ==
    /\ At(x, "data") /\ run[x].names = {}
    /\ Goto(x, NextHBA(x))
    /\ \/ hbas' = (IF NamesOf(cfs, Hba(x)) = {} THEN hbas \ {Hba(x)} ELSE hbas) /\ Works
       \/ UNCHANGED hbas /\ Fails(x)
    /\ UNCHANGED <<cfs, disk>>

ListImages(x) ==
    /\ At(x, "hba") /\ run[x].hbas = {}
    /\ ListTop(x, {q \in Paths : disk[q] # NoFile}, "img", "imgs")

RemoveImage(x) ==
    /\ At(x, "img")
    /\ \E q \in run[x].imgs :
         /\ \/ disk' = [disk EXCEPT ![q] = NoFile] /\ cfs' = Unlink(cfs, q) /\ Works
            \/ UNCHANGED <<cfs, disk>> /\ Fails(x)
         /\ Goto(x, [run[x] EXCEPT !.imgs = @ \ {q}])
    /\ UNCHANGED hbas

DownReturns(x) ==
    /\ At(x, "img") /\ run[x].imgs = {} /\ Goto(x, RunAt("down ok")) /\ Works
    /\ UNCHANGED <<cfs, hbas, disk>>

-----------------------------------------------------------------------------
(* A command is run, alone or next to another; a process is killed.        *)

Running == {x \in Procs : run[x].pc \notin Ended}

\* What PlayUp cannot get over: its backstore is enabled, or its LUN linked.
InTheWay == Enabled(cfs, OwnId, Own) \/ LinkOf(cfs, OwnTarget, 0) # {}

Start(x, pc) ==
    /\ run[x].pc \in Ended /\ budget.runs < MaxRuns
    /\ Goto(x, RunAt(pc))
    /\ calm' = IF Running = {} THEN {x} ELSE {}
    /\ clear' = IF InTheWay THEN clear \ {x} ELSE clear \cup {x}
    /\ budget' = [budget EXCEPT !.runs = @ + 1]
    /\ UNCHANGED <<cfs, hbas, disk>>

Kill(x) == x \in Running /\ Goto(x, RunAt("killed")) /\ Fails(x) /\ UNCHANGED <<cfs, hbas, disk>>

Init == /\ \E b \in Before : cfs = b.cfs /\ hbas = b.hbas /\ disk = b.disk
        /\ run = [x \in Procs |-> RunAt("new")] /\ calm = {} /\ clear = {}
        /\ budget = [runs |-> 0, faults |-> 0]

PlayUp(x) == \/ CreateImage(x) \/ MakeStore(x) \/ Configure(x) \/ EnableStore(x)
             \/ MakeTarget(x) \/ MakeLUN(x) \/ MakeLink(x) \/ EnableTarget(x)
             \/ MakePortal(x) \/ SetAttributes(x)

PlayDown(x) == \/ ListIQNs(x) \/ ListTpgs(x) \/ ListPortals(x) \/ RemovePortal(x)
               \/ ListTpgLUNs(x) \/ RemoveLink(x) \/ RemoveLUN(x) \/ RemoveTpg(x)
               \/ RemoveIQN(x) \/ ListHBAs(x) \/ ListStores(x) \/ RemoveStore(x)
               \/ RemoveHBA(x) \/ ListImages(x) \/ RemoveImage(x) \/ DownReturns(x)

Next == \E x \in Procs : \/ Start(x, "create") \/ Start(x, "list") \/ Kill(x)
                         \/ PlayUp(x) \/ PlayDown(x)

\* A process that runs goes on running.
Spec == Init /\ [][Next]_vars /\ \A x \in Procs : WF_vars(PlayUp(x) \/ PlayDown(x))

-----------------------------------------------------------------------------
(* Properties                                                              *)

TypeOK == /\ cfs \in Cfs /\ hbas \subseteq Ids /\ disk \in [Paths -> DiskFile]
          /\ run \in [Procs -> Run] /\ calm \subseteq Procs /\ clear \subseteq Procs
          /\ budget \in [runs : 0..MaxRuns, faults : 0..MaxFaults]

\* A play-down that ran alone and met no failure leaves nothing: no IQN, no
\* portal group, no backstore, no HBA, no image, whatever commands that failed,
\* were killed or ran into each other (or a sigma server) had left.
DownLeavesNothing == \A x \in calm : At(x, "down ok") =>
    cfs = EmptyCfs /\ hbas = {} /\ \A q \in Paths : disk[q] = NoFile

\* A play-up that ran alone and ended without an error exports its image: LUN 0
\* links the enabled backstore, which has the image open, under the portal.
UpExports == \A x \in calm : At(x, "up ok") =>
    /\ <<OwnTarget, 0, OwnId, Own>> \in cfs.links /\ <<OwnTarget, OwnPortal>> \in cfs.portals
    /\ \E s \in OwnStores : s.path = OwnPath /\ s.size = disk[OwnPath].size

\* A play-up that runs alone, meets no broken call, and had neither its backstore
\* enabled nor its LUN linked when it began, does not fail: whatever a play-up that
\* failed or was killed before that left, or a sigma server, is no obstacle to it.
UpFailsOnlyIfUp == \A x \in calm \cap clear : ~At(x, "up failed")

\* Commands end: play-down visits what it listed once, and goes on even when the
\* kernel refuses to remove it or another process has.
CommandsEnd == \A x \in Procs : x \in Running ~> x \notin Running
=============================================================================
