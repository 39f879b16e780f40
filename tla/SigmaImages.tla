---------------------------- MODULE SigmaImages ----------------------------
(***************************************************************************)
(* Which image file the LUN of a volume serves.  A backstore keeps the     *)
(* image it opened when it was enabled, a LUN keeps the link it was given, *)
(* and both outlive a DeletePool: a CreateVolume that finds one of them    *)
(* under its id, name and LUN takes it over (UpsertBackstore, UpsertLUN).  *)
(* So does a later ReconcileAll, for a volume whose backstore was made for *)
(* another one of the same id.  The history variable adopted holds the ids *)
(* that a CreateVolume has brought this about for.                         *)
(***************************************************************************)
EXTENDS SigmaCatalog

VARIABLES
    adopted,    \* ghost: volume ids
    written     \* ghost: volumes whose image has what an initiator wrote

HVars == <<server, st, file, cfs, disk, call, writer, rec, portal, acked, budget,
           adopted, written>>

\* The volume that call c makes and the one that state s has under its id want one
\* backstore for two images, or one LUN for two backstores.
Clashes(s, c) == \E q \in Ids :
    /\ HasVolume(s, q, c.vol)
    /\ \/ /\ s.vols[<<q, c.vol>>].name = c.name
          /\ PathOf(s, q, c.vol) # DiskPath[<<st.pools[c.pool], c.name>>]
       \/ /\ TargetOf(s, q) = TargetOf(st, c.pool)
          /\ s.vols[<<q, c.vol>>].name # c.name

\* CreateVolume call c comes upon a backstore that has another image open, a link
\* to another backstore in the LUN it is to make, or the id of a volume that
\* clashes with its own, one of the state or one that only the state file has.
Adopts(c) ==
    \/ \E s \in cfs.stores : /\ s.id = c.vol /\ s.name = c.name
                             /\ s.path \notin {NoPath, DiskPath[<<st.pools[c.pool], c.name>>]}
    \/ \E k \in LinkOf(cfs, TargetOf(st, c.pool), c.vol) : k[4] # c.name
    \/ Clashes(st, c) \/ Clashes(file.st, c)

Adopting == {c \in {call'[h] : h \in {h \in Handlers : call'[h] # call[h]}} :
                c.op = "CreateVolume" /\ c.pc = "store" /\ Adopts(c)}

\* An id is left alone by volumes, saved ones too, and by backstores.
Unused(v) == /\ \A p \in Ids : ~HasVolume(st, p, v) /\ ~HasVolume(file.st, p, v)
             /\ \A s \in cfs.stores : s.id # v

\* The ids of volumes, saved ones too, whose image a DeleteVolume of another one
\* of the same name takes from under a backstore.
Bereaved == {v \in Ids : \E h \in Handlers, q \in Ids, s \in {st, file.st} :
    LET c == call[h] IN
    /\ DeleteVolumeFile(h) /\ cfs' # cfs /\ v # c.vol
    /\ HasVolume(s, q, v) /\ PathOf(s, q, v) = PathOf(st, c.pool, c.vol)}

-----------------------------------------------------------------------------
\* The state of the server or, when it is down, of the next one.
Current == IF server = "down" THEN file.st ELSE st
Image(k) == PathOf(Current, k[1], k[2])

\* The image of volume k has its final size: CreateVolume and ReconcileAll, which
\* makes it a GiB at least, grow smaller ones only.
Settled(k) == /\ HasVolume(Current, k[1], k[2])
              /\ disk[Image(k)].size >= Max({GiB, Current.vols[k].size})

\* No other volume has it, and none is being made on it.
Unshared(k) ==
    /\ \A j \in Ids \X Ids : (HasVolume(Current, j[1], j[2]) /\ Image(j) = Image(k)) => j = k
    /\ \A h \in Handlers : call[h].op = "CreateVolume"
         => DiskPath[<<st.pools[call[h].pool], call[h].name>>] # Image(k)

\* A step that leaves volume k its settled image: k and its pool's name stay what
\* they are, the image k's own, and no system call fails.
Undisturbed(k) ==
    /\ Settled(k)
    /\ Current'.vols[k] = Current.vols[k] /\ Current'.pools[k[1]] = Current.pools[k[1]]
    /\ Unshared(k)'
    /\ k[2] \notin adopted' /\ budget'.faults = budget.faults

\* The volumes whose LUN an initiator may have written to in this step.
Reached == {<<l[1].id, l[2]>> :
              l \in {l \in cfs.links : l[1] = TargetOf(Current, l[1].id) /\ ClientWrite(l)}}

-----------------------------------------------------------------------------
HInit == Init /\ adopted = {} /\ written = {}
HNext == /\ Next
         /\ adopted' = {v \in adopted : ~Unused(v)'} \cup {c.vol : c \in Adopting} \cup Bereaved
         /\ written' = {k \in written \cup Reached : Undisturbed(k)}
HSpec == HInit /\ [][HNext]_HVars

-----------------------------------------------------------------------------
\* The LUN of a volume serves the volume's own image: its link goes to the
\* backstore of the volume's id and name, and that has the file open that is at
\* the path of the pool's and the volume's name; whatever was deleted, made again
\* under another name, reconciled or restarted, unless a CreateVolume of its id
\* adopted what a deleted pool or an interrupted call had left, or clashed with
\* another volume, or a DeleteVolume of another volume of its name removed the
\* file.
OwnImageServed == \A p, v \in Ids : HasVolume(st, p, v) =>
    \A k \in LinkOf(cfs, TargetOf(st, p), v) :
        \/ v \in adopted
        \/ /\ k[3] = v /\ k[4] = st.vols[<<p, v>>].name
           /\ \E s \in cfs.stores : s.id = v /\ s.name = k[4] /\ s.path = PathOf(st, p, v)

\* What an initiator wrote to a volume is in the file at the volume's path, and
\* stays there as long as the volume is in the state, or in the file a restart
\* loads: whatever is created, deleted, reconciled, crashed or rebooted, unless
\* the image is below its final size, a system call fails, or the volume has or
\* had its path or its id in common with another one.
SettledDataKept == \A k \in written : disk[Image(k)].data
=============================================================================
