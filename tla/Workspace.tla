------------------------------ MODULE Workspace -----------------------------
(***************************************************************************)
(* The files of one session: the home directory the Python cells of its    *)
(* runs write to, the checkpoint committed with each completed cell, and   *)
(* the shared object store that holds the bytes.  An attempt whose lease   *)
(* ran out may go on, in the same process as its successor or elsewhere.   *)
(* A file's content is the number of the write that produced it (0: no     *)
(* file); an object is immutable.                                          *)
(***************************************************************************)
EXTENDS Integers, FiniteSets, Sequences

CONSTANTS
  Works,        \* the runs of the session
  Files,        \* file names
  MaxAttempts,  \* attempts over all runs
  MaxGen,       \* committed generations
  MaxWrites     \* writes by cells

ASSUME WorkspaceAssumption ==
  MaxAttempts \in Nat /\ MaxGen \in Nat /\ MaxWrites \in Nat /\ IsFiniteSet(Files)

Attempts == 1 .. MaxAttempts
NoKernel == -2
Dirty == -1
Empty == [f \in Files |-> 0]

VARIABLES
  lease,    \* the attempt that holds the session's lease, 0 when none
  att,      \* the attempts so far: run, home, program counter, snapshot, captured entries, start of cell
  ended,    \* runs that ended
  ckpt,     \* the committed checkpoint: generation, entries (objects), attempt and base that wrote it
  obj,      \* the objects ever stored: content and the attempt that uploaded it
  gone,     \* objects deleted
  gc,       \* the object maintenance found unreferenced and is about to delete, 0 when none
  home,     \* per home epoch: the content of the directory
  kernel,   \* per home epoch: workspaceGeneration of its kernel
  cellWrites  \* writes so far

wvars == <<lease, att, ended, ckpt, obj, gone, gc, home, kernel, cellWrites>>

Contents(entries) == [f \in Files |-> IF entries[f] = 0 THEN 0 ELSE obj[entries[f]].content]
Readable(entries) == \A f \in Files : entries[f] # 0 => entries[f] \notin gone
HasFiles(entries) == \E f \in Files : entries[f] # 0

AttemptRec ==
  [work : Works, place : Attempts, pc : {"new", "cell", "done", "captured", "retry", "ready", "over"},
   from : [Files -> Nat], snap : [gen : Nat, entries : [Files -> Nat]], cap : [Files -> Nat]]
ObjectRec == [by : Attempts, content : Nat]

WorkspaceTypeOK ==
  /\ lease \in 0 .. Len(att) /\ att \in Seq(AttemptRec) /\ Len(att) <= MaxAttempts /\ ended \subseteq Works
  /\ ckpt \in [gen : 0 .. MaxGen, entries : [Files -> Nat], by : Nat, base : Nat]
  /\ obj \in Seq(ObjectRec) /\ gc \in 0 .. Len(obj) /\ gone \subseteq 1 .. Len(obj)
  /\ home \in [Attempts -> [Files -> Nat]] /\ kernel \in [Attempts -> Int] /\ cellWrites \in 0 .. MaxWrites

WorkspaceInit ==
  /\ lease = 0 /\ att = <<>> /\ ended = {} /\ obj = <<>> /\ gone = {} /\ gc = 0 /\ cellWrites = 0
  /\ ckpt = [gen |-> 0, entries |-> Empty, by |-> 0, base |-> 0]
  /\ home = [a \in Attempts |-> Empty] /\ kernel = [a \in Attempts |-> NoKernel]

At(a, new) == [att EXCEPT ![a] = new]
Fresh(w, place, pc) ==
  [work |-> w, place |-> place, pc |-> pc, from |-> Empty, snap |-> [gen |-> 0, entries |-> Empty], cap |-> Empty]
Done(r) == Fresh(r.work, r.place, "over")
Over(a) == At(a, Done(att[a]))
Leased(a) == lease = a

(* A claim.  The home of a session moves (a new epoch, an empty directory) *)
(* when another worker takes it; it is named after the attempt that        *)
(* founded it.  A process never runs two attempts of one run.              *)
ClaimRun(w, moves) ==
  /\ lease = 0 /\ w \notin ended /\ Len(att) < MaxAttempts
  /\ LET a == Len(att) + 1
         place == IF moves \/ att = <<>> THEN a ELSE att[a - 1].place
     IN /\ \A b \in 1 .. Len(att) : att[b].place = place /\ att[b].work = w => att[b].pc = "over"
        /\ att' = Append(att, Fresh(w, place, "new"))
        /\ lease' = a
  /\ UNCHANGED <<ended, ckpt, obj, gone, gc, home, kernel, cellWrites>>

(* The lease runs out, the attempt goes on; or its process dies.           *)
Expire ==
  /\ lease # 0 /\ lease' = 0
  /\ UNCHANGED <<att, ended, ckpt, obj, gone, gc, home, kernel, cellWrites>>

Crash(p) ==
  /\ \E a \in 1 .. Len(att) : att[a].place = p /\ att[a].pc # "over"
  /\ att' = [a \in 1 .. Len(att) |-> IF att[a].place = p THEN Done(att[a]) ELSE att[a]]
  /\ kernel' = [kernel EXCEPT ![p] = NoKernel]
  /\ UNCHANGED <<lease, ended, ckpt, obj, gone, gc, home, cellWrites>>

(* The run ends (completed, failed, cancelled) or is given back.           *)
EndRun(a, final) ==
  /\ Leased(a) /\ att[a].pc \in {"new", "ready", "over"}
  /\ lease' = 0 /\ att' = Over(a)
  /\ ended' = IF final THEN ended \cup {att[a].work} ELSE ended
  /\ UNCHANGED <<ckpt, obj, gone, gc, home, kernel, cellWrites>>

(***************************************************************************)
(* A cell and its checkpoint.                                              *)
(***************************************************************************)
(* Stopping a kernel fails the cell another attempt runs in it.            *)
KillOthers(a) ==
  [b \in 1 .. Len(att) |-> IF b # a /\ att[b].place = att[a].place /\ att[b].pc = "cell"
                           THEN Done(att[b]) ELSE att[b]]

(* The first cell of an attempt: the open step and loadWorkspace are       *)
(* accepted for the lease holder only; the committed directory replaces    *)
(* the home unless this home's kernel is known to have it.  A home with    *)
(* files but without any checkpoint is refused.                            *)
KeepsHomeIfAlive(p, gen) == kernel[p] # NoKernel

KeepsHome(p, gen) == kernel[p] = gen
Refused(p, gen) == gen = 0 /\ home[p] # Empty

PrepareWorkspace(a) ==
  /\ att[a].pc = "new" /\ ckpt.gen < MaxGen
  /\ LET p == att[a].place
         kept == KeepsHome(p, ckpt.gen)
         others == IF kept THEN att ELSE KillOthers(a)
     IN IF ~Leased(a) \/ (~kept /\ (Refused(p, ckpt.gen) \/ ~Readable(ckpt.entries)))
        THEN /\ att' = [others EXCEPT ![a] = Done(@)]
             /\ kernel' = IF kept \/ ~Leased(a) THEN kernel ELSE [kernel EXCEPT ![p] = NoKernel]
             /\ UNCHANGED home
        ELSE /\ home' = IF kept THEN home ELSE [home EXCEPT ![p] = Contents(ckpt.entries)]
             /\ kernel' = [kernel EXCEPT ![p] = Dirty]
             /\ att' = [others EXCEPT ![a] = [@ EXCEPT !.pc = "cell", !.from = home'[p],
                          !.snap = [gen |-> ckpt.gen, entries |-> ckpt.entries]]]
  /\ UNCHANGED <<lease, ended, ckpt, obj, gone, gc, cellWrites>>

(* A later cell: the home is taken as it is, in a fresh kernel if the old  *)
(* one was evicted.                                                        *)
NextCell(a) ==
  /\ att[a].pc = "ready" /\ ckpt.gen < MaxGen
  /\ LET p == att[a].place
     IN IF Leased(a)
        THEN /\ kernel' = [kernel EXCEPT ![p] = Dirty]
             /\ att' = At(a, [att[a] EXCEPT !.pc = "cell", !.from = home[p]])
        ELSE att' = Over(a) /\ UNCHANGED kernel
  /\ UNCHANGED <<lease, ended, ckpt, obj, gone, gc, home, cellWrites>>

WriteFile(a, f) ==
  /\ att[a].pc = "cell" /\ cellWrites < MaxWrites
  /\ cellWrites' = cellWrites + 1 /\ home' = [home EXCEPT ![att[a].place][f] = cellWrites + 1]
  /\ UNCHANGED <<lease, att, ended, ckpt, obj, gone, gc, kernel>>

CellEnds(a) ==
  /\ att[a].pc = "cell" /\ att' = At(a, [att[a] EXCEPT !.pc = "done"])
  /\ UNCHANGED <<lease, ended, ckpt, obj, gone, gc, home, kernel, cellWrites>>

(* A timeout kills the kernel; the directory goes back to the snapshot     *)
(* (read through the lease if it has files), which is committed again.     *)
CellTimesOut(a) ==
  /\ att[a].pc = "cell"
  /\ LET p == att[a].place
         s == att[a].snap
     IN IF HasFiles(s.entries) /\ (~Leased(a) \/ ~Readable(s.entries) \/ s.entries # ckpt.entries)
        THEN att' = Over(a) /\ UNCHANGED home
        ELSE /\ home' = [home EXCEPT ![p] = Contents(s.entries)]
             /\ att' = [KillOthers(a) EXCEPT ![a] = [@ EXCEPT !.pc = "captured", !.cap = s.entries]]
  /\ kernel' = [kernel EXCEPT ![att[a].place] = NoKernel]
  /\ UNCHANGED <<lease, ended, ckpt, obj, gone, gc, cellWrites>>

(* captureWorkspace under a frozen kernel: unchanged files keep their      *)
(* object, changed ones are uploaded (through the lease); the kernel is    *)
(* marked with the generation the commit will have.                        *)
Changed(a) == {f \in Files : home[att[a].place][f] # 0
                             /\ home[att[a].place][f] # Contents(att[a].snap.entries)[f]}
UploadOrder(S) == CHOOSE s \in [1 .. Cardinality(S) -> S] : \A f \in S : \E i \in DOMAIN s : s[i] = f

Capture(a) ==
  /\ att[a].pc = "done"
  /\ LET p == att[a].place
         busy == \E b \in 1 .. Len(att) : att[b].place = p /\ att[b].pc = "cell"
         new == Changed(a)
     IN IF kernel[p] = NoKernel \/ busy \/ (new # {} /\ ~Leased(a))
        THEN att' = Over(a) /\ UNCHANGED <<obj, kernel>>
        ELSE LET n == Len(obj)
                 order == UploadOrder(new)
             IN /\ obj' = obj \o [i \in DOMAIN order |-> [by |-> a, content |-> home[p][order[i]]]]
                /\ att' = At(a, [att[a] EXCEPT !.pc = "captured",
                            !.cap = [f \in Files |-> IF home[p][f] = 0 THEN 0
                                                     ELSE IF f \in new THEN n + CHOOSE i \in DOMAIN order : order[i] = f
                                                     ELSE att[a].snap.entries[f]]])
                /\ kernel' = [kernel EXCEPT ![p] = att[a].snap.gen + 1]
  /\ UNCHANGED <<lease, ended, ckpt, gone, gc, home, cellWrites>>

(* saveStep: validate, then one transaction for step and checkpoint.  The  *)
(* answer may be lost and the request sent again.                          *)
Repeated(a) ==
  /\ ckpt.gen = att[a].snap.gen + 1 /\ ckpt.by = a /\ ckpt.base = att[a].snap.gen
  /\ ckpt.entries = att[a].cap
BaseCurrent(a) == ckpt.gen = att[a].snap.gen
SaveAllowed(a) ==
  /\ Leased(a) /\ (BaseCurrent(a) \/ Repeated(a))
  /\ \A f \in {g \in Files : att[a].cap[g] # 0} :
       LET o == att[a].cap[f]
       IN (\E g \in Files : ckpt.entries[g] = o) \/ (obj[o].by = a /\ o \notin gone)

Saved(a) == [att[a] EXCEPT !.pc = "ready", !.from = Empty, !.cap = Empty, !.snap = [gen |-> att[a].snap.gen + 1, entries |-> att[a].cap]]

SaveStep(a) ==
  /\ att[a].pc \in {"captured", "retry"}
  /\ \/ /\ SaveAllowed(a)
        /\ ckpt' = IF Repeated(a) THEN ckpt
                   ELSE [gen |-> ckpt.gen + 1, entries |-> att[a].cap, by |-> a, base |-> att[a].snap.gen]
        /\ att' \in {At(a, Saved(a)), At(a, [att[a] EXCEPT !.pc = "retry"])}
     \/ att' = Over(a) /\ UNCHANGED ckpt
  /\ UNCHANGED <<lease, ended, obj, gone, gc, home, kernel, cellWrites>>

(* Eviction or the death of an idle kernel.                                *)
KernelLost(p) ==
  /\ kernel[p] >= 0 /\ kernel' = [kernel EXCEPT ![p] = NoKernel]
  /\ UNCHANGED <<lease, att, ended, ckpt, obj, gone, gc, home, cellWrites>>

(***************************************************************************)
(* Maintenance of the object store: one query, then the deletion.  Uploads *)
(* of an attempt that may still commit are kept.                           *)
(***************************************************************************)
Current(a) == att[a].work \notin ended /\ \A b \in a + 1 .. Len(att) : att[b].work # att[a].work
RetainedReferenced(o) == \E f \in Files : ckpt.entries[f] = o
Retained(o) == RetainedReferenced(o) \/ Current(obj[o].by)

Inspect(o) ==
  /\ gc = 0 /\ o \notin gone /\ ~Retained(o) /\ gc' = o
  /\ UNCHANGED <<lease, att, ended, ckpt, obj, gone, home, kernel, cellWrites>>

Delete ==
  /\ gc # 0 /\ gone' = gone \cup {gc} /\ gc' = 0
  /\ UNCHANGED <<lease, att, ended, ckpt, obj, home, kernel, cellWrites>>

WorkspaceNext ==
  \/ \E w \in Works, moves \in BOOLEAN : ClaimRun(w, moves)
  \/ Expire \/ Delete
  \/ \E p \in Attempts : Crash(p) \/ KernelLost(p)
  \/ \E a \in 1 .. Len(att) :
       \/ \E final \in BOOLEAN : EndRun(a, final)
       \/ PrepareWorkspace(a) \/ NextCell(a) \/ CellEnds(a) \/ CellTimesOut(a)
       \/ Capture(a) \/ SaveStep(a) \/ \E f \in Files : WriteFile(a, f)
  \/ \E o \in 1 .. Len(obj) : Inspect(o)

WorkspaceSpec == WorkspaceInit /\ [][WorkspaceNext]_wvars

(***************************************************************************)
(* What the checkpoints promise.                                           *)
(***************************************************************************)
(* Maintenance never deletes an object the committed checkpoint names,     *)
(* whatever commits between its query and its deletion.                    *)
CheckpointReadable == Readable(ckpt.entries)

(* Every cell of a lease holder starts from the committed directory: not   *)
(* from what a refused, timed out or superseded cell left in the home, and *)
(* not from the home of an older epoch.                                    *)
StartsCommitted ==
  \A a \in 1 .. Len(att) : Leased(a) /\ att[a].pc \in {"cell", "done", "captured"} =>
    att[a].from = Contents(ckpt.entries)

(* app/workspaces.ts: the committed checkpoint can be read back whatever   *)
(* maintenance deletes, and a cell starts from what is committed.          *)
WorkspaceSafe == WorkspaceTypeOK /\ CheckpointReadable /\ StartsCommitted
=============================================================================
