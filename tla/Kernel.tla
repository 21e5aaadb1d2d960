------------------------------- MODULE Kernel -------------------------------
(***************************************************************************)
(* KernelManager: the pool of Python kernels of one worker process.  An    *)
(* action is what runs between two awaits of the process: the manager's    *)
(* map, a kernel's chain of executions and the callers waiting for room    *)
(* change together inside one.  A kernel is an instance with its own       *)
(* number; the map holds at most one per session.  Code, output and the    *)
(* order of last use are left out: any idle kernel may be evicted.         *)
(*                                                                         *)
(* A start awaits mkdir before it spawns the process, and nothing stops it *)
(* there: a kernel terminated meanwhile is spawned all the same, outside   *)
(* the map, and its ready frame makes it a live one again.                 *)
(***************************************************************************)
EXTENDS Integers, FiniteSets, Sequences

CONSTANTS
  Keys,        \* sessions (session key and home epoch)
  Cells,       \* cells to execute
  KeyOf(_),    \* the session of a cell
  MaxKernels,  \* options.maxKernels
  MaxInst      \* kernels ever created

ASSUME KernelAssumption ==
  /\ Keys # {} /\ \A c \in Cells : KeyOf(c) \in Keys
  /\ MaxKernels \in Nat \ {0} /\ MaxInst \in Nat

VARIABLES
  cell,      \* where each cell is
  on,        \* the kernel a cell was given to, 0 before
  inst,      \* per kernel: its session and state (KernelStates)
  chain,     \* per kernel: the cells in its promise chain, first one running
  pool,      \* the map: session -> kernel, 0 when absent
  frozen,    \* kernels whose process tree a checkpoint holds
  stopping,  \* session -> the kernel a restore is waiting on to exit, 0 when none
  closed     \* close() was called

kvars == <<cell, on, inst, chain, pool, frozen, stopping, closed>>

Instances == 1 .. MaxInst
InFlight == {"queued", "starting", "python", "calling"}
Settled == {"failed", "cancelled", "evicted", "lost", "saved"}

(* PersistentKernel.state with what its start() awaits:                    *)
(*   home      starting, the home directory is being made                  *)
(*   stuck     starting for good, the directory could not be made          *)
(*   starting  starting, the process is spawned                            *)
(*   doomed    dead, the home directory is being made                      *)
(*   stray     dead, with a process spawned after that                     *)
(*   revived   ready, by the ready frame of such a process                 *)
KernelStates == {"none", "created", "home", "stuck", "starting", "ready",
                 "dead", "doomed", "stray", "revived"}
Alive(i) == inst[i].state \in {"created", "home", "stuck", "starting", "ready"}
Born == {i \in Instances : inst[i].state # "none"}

KernelTypeOK ==
  /\ cell \in [Cells -> {"new", "asking", "capacity", "done", "checkpoint"} \cup InFlight \cup Settled]
  /\ on \in [Cells -> 0 .. MaxInst] /\ pool \in [Keys -> 0 .. MaxInst]
  /\ stopping \in [Keys -> 0 .. MaxInst] /\ frozen \subseteq Instances /\ closed \in BOOLEAN
  /\ inst \in [Instances -> [key : Keys, state : KernelStates]]
  /\ chain \in [Instances -> Seq(Cells)]

KernelInit ==
  /\ cell = [c \in Cells |-> "new"] /\ on = [c \in Cells |-> 0]
  /\ inst = [i \in Instances |-> [key |-> CHOOSE k \in Keys : TRUE, state |-> "none"]]
  /\ chain = [i \in Instances |-> <<>>]
  /\ pool = [k \in Keys |-> 0] /\ frozen = {} /\ stopping = [k \in Keys |-> 0]
  /\ closed = FALSE

(* PersistentKernel.busy: an execution in the chain or a checkpoint.       *)
BusyWhenRunning(i) ==
  i \in frozen \/ (chain[i] # <<>> /\ cell[Head(chain[i])] \in {"python", "calling"})

Busy(i) == i \in frozen \/ chain[i] # <<>>

(* What runs in a promise chain is done before a file or a pipe is heard:  *)
(* no cell waits for its turn at the head.                                 *)
ChainSettled(i) == ~(chain[i] # <<>> /\ cell[Head(chain[i])] = "queued")

(* wakeCapacityWaiters: every waiting caller looks again.                  *)
Woken(cs) == [c \in Cells |-> IF cs[c] = "capacity" THEN "asking" ELSE cs[c]]

(* terminate: a no-op on a dead kernel, and it finds no process to kill    *)
(* while the home is being made.                                           *)
After(state) == CASE state = "home" -> "doomed"
                  [] state \in {"doomed", "stray"} -> state
                  [] OTHER -> "dead"
Terminated(i) == [inst EXCEPT ![i].state = After(@)]

(* terminate: what the kernel runs, or has a process starting for, fails   *)
(* with the reason; cells behind it fail in their turn.                    *)
Interrupted(i) ==
  /\ inst[i].state \in {"starting", "ready"}
  /\ chain[i] # <<>> /\ cell[Head(chain[i])] \in InFlight \ {"queued"}
FirstFails(i, reason) == [c \in Cells |-> IF Interrupted(i) /\ c = Head(chain[i]) THEN reason ELSE cell[c]]
Unchained(i) == IF Interrupted(i) THEN Tail(chain[i]) ELSE chain[i]

Submit(c) ==
  /\ cell[c] = "new" /\ cell' = [cell EXCEPT ![c] = "asking"]
  /\ UNCHANGED <<on, inst, chain, pool, frozen, stopping, closed>>

(* KernelManager.execute up to the await: use the session's kernel, or     *)
(* create one, evicting an idle one when the pool is full, or wait.        *)
Forget(k) == IF pool[k] # 0 /\ ~Alive(pool[k]) THEN [pool EXCEPT ![k] = 0] ELSE pool
InPool(p) == {p[k] : k \in Keys} \ {0}

GiveTo(c, i) ==
  /\ on' = [on EXCEPT ![c] = i]
  /\ chain' = [chain EXCEPT ![i] = Append(@, c)]

Acquire(c) ==
  /\ cell[c] = "asking" /\ stopping[KeyOf(c)] = 0
  /\ LET k == KeyOf(c)
         p == Forget(k)
         fresh == Cardinality(Born) + 1
         full == Cardinality(InPool(p)) >= MaxKernels
         idle == {i \in InPool(p) : ~Busy(i)}
     IN IF p[k] # 0
        THEN /\ GiveTo(c, p[k]) /\ cell' = [cell EXCEPT ![c] = "queued"]
             /\ UNCHANGED <<inst, pool>>
        ELSE \/ /\ closed /\ cell' = [cell EXCEPT ![c] = "cancelled"] /\ pool' = p
                /\ UNCHANGED <<on, inst, chain>>
             \/ /\ ~closed /\ full /\ idle = {} /\ pool' = p
                /\ cell' = [cell EXCEPT ![c] = "capacity"]
                /\ UNCHANGED <<on, inst, chain>>
             \/ /\ ~closed /\ (full => idle # {}) /\ fresh <= MaxInst
                /\ \E out \in IF full THEN idle ELSE {0} :
                     /\ pool' = [[j \in Keys |-> IF p[j] = out THEN 0 ELSE p[j]] EXCEPT ![k] = fresh]
                     /\ inst' = [i \in Instances |->
                          IF i = fresh THEN [key |-> k, state |-> "created"]
                          ELSE IF i = out THEN [inst[i] EXCEPT !.state = After(@)] ELSE inst[i]]
                     /\ cell' = [x \in Cells |->
                          IF x = c THEN "queued"
                          ELSE IF out # 0 /\ on[x] = out /\ cell[x] \in InFlight THEN "evicted"
                          ELSE cell[x]]
                     /\ on' = [on EXCEPT ![c] = fresh]
                     /\ chain' = [i \in Instances |-> IF i = fresh THEN <<c>>
                                                      ELSE IF i = out THEN <<>> ELSE chain[i]]
  /\ UNCHANGED <<frozen, stopping, closed>>

(* c is the first of its kernel's chain.                                   *)
First(c) == on[c] # 0 /\ chain[on[c]] # <<>> /\ Head(chain[on[c]]) = c

(* The end of an execution: out of the chain; when the kernel becomes idle *)
(* or is dead and still in the map, the callers waiting for room look.     *)
SettleCellSilently(c, outcome, dead) ==
  LET i == on[c]
  IN /\ chain' = [chain EXCEPT ![i] = Tail(@)]
     /\ pool' = IF dead /\ pool[KeyOf(c)] = i THEN [pool EXCEPT ![KeyOf(c)] = 0] ELSE pool
     /\ cell' = [cell EXCEPT ![c] = outcome]

SettleCell(c, outcome, dead) ==
  LET i == on[c]
      rest == Tail(chain[i])
      drop == dead /\ pool[KeyOf(c)] = i
      cs == [cell EXCEPT ![c] = outcome]
  IN /\ chain' = [chain EXCEPT ![i] = rest]
     /\ pool' = IF drop THEN [pool EXCEPT ![KeyOf(c)] = 0] ELSE pool
     /\ cell' = IF drop \/ (rest = <<>> /\ i \notin frozen) THEN Woken(cs) ELSE cs

(* A queued cell's turn: a cancelled one, or one on a dead kernel, fails;  *)
(* otherwise the kernel starts, takes the cell at once, or has no process  *)
(* to write it to.                                                         *)
Begin(c) ==
  /\ cell[c] = "queued" /\ First(c)
  /\ LET i == on[c]
     IN \/ /\ inst[i].state = "created"
           /\ inst' = [inst EXCEPT ![i].state = "home"] /\ cell' = [cell EXCEPT ![c] = "starting"]
           /\ UNCHANGED <<chain, pool>>
        \/ /\ inst[i].state \in {"ready", "revived"}
           /\ cell' = [cell EXCEPT ![c] = "python"] /\ UNCHANGED <<inst, chain, pool>>
        \/ /\ inst[i].state = "stuck" /\ SettleCell(c, "failed", FALSE) /\ UNCHANGED inst
  /\ UNCHANGED <<on, frozen, stopping, closed>>

(* start(): the home directory is there, the process is spawned, whatever  *)
(* became of the kernel meanwhile.                                         *)
HomeMade(i) ==
  /\ ChainSettled(i) /\ \A k \in Keys : stopping[k] # i
  /\ \E st \in {<<"home", "starting">>, <<"doomed", "stray">>} :
       inst[i].state = st[1] /\ inst' = [inst EXCEPT ![i].state = st[2]]
  /\ UNCHANGED <<cell, on, chain, pool, frozen, stopping, closed>>

(* start(): mkdir fails, and with it the cell it was for.                  *)
HomeFails(i) ==
  /\ ChainSettled(i) /\ \A k \in Keys : stopping[k] # i
  /\ \E st \in {<<"home", "stuck">>, <<"doomed", "dead">>} :
       /\ inst[i].state = st[1] /\ inst' = [inst EXCEPT ![i].state = st[2]]
       /\ IF chain[i] = <<>> THEN UNCHANGED <<cell, chain, pool>>
          ELSE SettleCell(Head(chain[i]), "failed", st[2] = "dead")
  /\ UNCHANGED <<on, frozen, stopping, closed>>

(* The ready frame, from the process of a live or of a dead kernel.        *)
Ready(i) ==
  /\ ChainSettled(i)
  /\ \E st \in {<<"starting", "ready">>, <<"stray", "revived">>} :
       inst[i].state = st[1] /\ inst' = [inst EXCEPT ![i].state = st[2]]
  /\ cell' = IF chain[i] = <<>> THEN cell ELSE [cell EXCEPT ![Head(chain[i])] = "python"]
  /\ UNCHANGED <<on, chain, pool, frozen, stopping, closed>>

(* A cell that never reached its kernel: cancelled, or the kernel is dead. *)
Reject(c) ==
  /\ cell[c] = "queued" /\ First(c)
  /\ LET dead == inst[on[c]].state \in {"dead", "doomed", "stray"}
     IN SettleCell(c, IF dead THEN "failed" ELSE "cancelled", dead)
  /\ UNCHANGED <<on, inst, frozen, stopping, closed>>

(* A caller gives up waiting for room.                                     *)
GiveUp(c) ==
  /\ cell[c] \in {"asking", "capacity"} /\ cell' = [cell EXCEPT ![c] = "cancelled"]
  /\ UNCHANGED <<on, inst, chain, pool, frozen, stopping, closed>>

(* A host call of the cell and its answer (bridge, then host_result).      *)
HostCall(c) ==
  /\ cell[c] = "python" /\ cell' = [cell EXCEPT ![c] = "calling"]
  /\ UNCHANGED <<on, inst, chain, pool, frozen, stopping, closed>>

HostResult(c) ==
  /\ cell[c] = "calling" /\ cell' = [cell EXCEPT ![c] = "python"]
  /\ UNCHANGED <<on, inst, chain, pool, frozen, stopping, closed>>

(* execution_result: with workspaces the runtime checkpoints the home      *)
(* next; a failed cell is checkpointed as well.                            *)
Result(c) ==
  /\ cell[c] = "python" /\ SettleCell(c, "done", FALSE)
  /\ UNCHANGED <<on, inst, frozen, stopping, closed>>

(* Timeout or abort of the running cell, a failing observer, a broken      *)
(* pipe, a start that takes too long, an exit of the process: all of them  *)
(* terminate the kernel; only an abort reaches one without a process.      *)
Kill(c) ==
  /\ cell[c] \in {"starting", "python", "calling"}
  /\ SettleCell(c, "failed", TRUE) /\ inst' = Terminated(on[c])
  /\ UNCHANGED <<on, frozen, stopping, closed>>

(* The process of an idle kernel exits, or one nobody waits for.           *)
IdleExit(i) ==
  /\ \/ inst[i].state \in {"ready", "revived"} /\ ~Busy(i)
     \/ inst[i].state = "stray"
  /\ inst' = [inst EXCEPT ![i].state = "dead"]
  /\ UNCHANGED <<cell, on, chain, pool, frozen, stopping, closed>>

(* captureWorkspace: the kernel is frozen while its home is copied; a      *)
(* kernel that is gone, dead or busy fails the checkpoint, and the run     *)
(* (lost: somebody took the kernel out of the map of an open manager).     *)
Freeze(c) ==
  /\ cell[c] = "done"
  /\ LET i == pool[KeyOf(c)]
     IN IF i # 0 /\ inst[i].state = "ready" /\ ~Busy(i)
        THEN /\ frozen' = frozen \cup {i} /\ cell' = [cell EXCEPT ![c] = "checkpoint"]
             /\ on' = [on EXCEPT ![c] = i]
        ELSE /\ cell' = [cell EXCEPT ![c] = IF closed \/ i = on[c] THEN "failed" ELSE "lost"]
             /\ UNCHANGED <<frozen, on>>
  /\ UNCHANGED <<inst, chain, pool, stopping, closed>>

Resume(c) ==
  /\ cell[c] = "checkpoint" /\ frozen' = frozen \ {on[c]}
  /\ cell' = Woken([cell EXCEPT ![c] = "saved"])
  /\ UNCHANGED <<on, inst, chain, pool, stopping, closed>>

(* restoreWorkspace stops the session's kernel, waits for its exit and     *)
(* takes it out of the map.  The attempt that restores is the only caller  *)
(* for its session until then.                                             *)
StopForRestore(k) ==
  /\ pool[k] # 0 /\ stopping[k] = 0 /\ ~closed
  /\ \A c \in Cells : KeyOf(c) = k => cell[c] \notin {"asking", "capacity", "done", "checkpoint"}
  /\ \E c \in Cells : KeyOf(c) = k /\ cell[c] = "new"
  /\ LET i == pool[k]
     IN /\ stopping' = [stopping EXCEPT ![k] = i] /\ inst' = Terminated(i)
        /\ cell' = IF Interrupted(i) THEN Woken(FirstFails(i, "failed")) ELSE cell
        /\ chain' = [chain EXCEPT ![i] = Unchained(i)]
        /\ pool' = IF Interrupted(i) THEN [pool EXCEPT ![k] = 0] ELSE pool
  /\ UNCHANGED <<on, frozen, closed>>

Stopped(k) ==
  /\ stopping[k] # 0 /\ stopping' = [stopping EXCEPT ![k] = 0]
  /\ pool' = [pool EXCEPT ![k] = 0] /\ cell' = Woken(cell)
  /\ UNCHANGED <<on, inst, chain, frozen, closed>>

(* sweepIdle, for kernels past their idle time (90 minutes, far more than  *)
(* the way from a cell's end to its checkpoint); dead ones go at once.     *)
SweepIdle(k) ==
  /\ pool[k] # 0 /\ ~Busy(pool[k])
  /\ Alive(pool[k]) => \A c \in Cells : ~(KeyOf(c) = k /\ cell[c] = "done")
  /\ inst' = Terminated(pool[k]) /\ pool' = [pool EXCEPT ![k] = 0] /\ cell' = Woken(cell)
  /\ UNCHANGED <<on, chain, frozen, stopping, closed>>

(* close(): every kernel in the map is terminated.                         *)
Close ==
  /\ ~closed /\ closed' = TRUE
  /\ inst' = [i \in Instances |-> IF i \in InPool(pool) THEN [inst[i] EXCEPT !.state = After(@)] ELSE inst[i]]
  /\ cell' = Woken([c \in Cells |-> IF on[c] \in InPool(pool) /\ First(c) /\ Interrupted(on[c])
                                    THEN "failed" ELSE cell[c]])
  /\ chain' = [i \in Instances |-> IF i \in InPool(pool) THEN Unchained(i) ELSE chain[i]]
  /\ pool' = [k \in Keys |-> 0]
  /\ UNCHANGED <<on, frozen, stopping>>

Progress ==
  \/ \E c \in Cells : Acquire(c) \/ Begin(c) \/ HostResult(c) \/ Freeze(c) \/ Resume(c)
  \/ \E i \in Instances : HomeMade(i) \/ HomeFails(i) \/ Ready(i)
  \/ \E k \in Keys : Stopped(k)

KernelNext ==
  \/ Progress \/ Close
  \/ \E c \in Cells : Submit(c) \/ Reject(c) \/ GiveUp(c) \/ HostCall(c) \/ Result(c) \/ Kill(c)
  \/ \E i \in Instances : IdleExit(i)
  \/ \E k \in Keys : StopForRestore(k) \/ SweepIdle(k)

(* The process runs what is due: a cell in its turn, and its timer or its  *)
(* caller's signal ends what Python does not; mkdir answers; a killed      *)
(* process exits.  No timer runs while the home is being made.             *)
CellEnds(c) == Result(c) \/ (Kill(c) /\ inst[on[c]].state # "home")
CellGoesOn(c) == Acquire(c) \/ Begin(c) \/ Reject(c) \/ CellEnds(c) \/ Freeze(c) \/ Resume(c)

KernelFairness ==
  /\ \A c \in Cells : WF_kvars(CellGoesOn(c))
  /\ \A i \in Instances : WF_kvars(HomeMade(i) \/ HomeFails(i))
  /\ \A k \in Keys : WF_kvars(Stopped(k))

KernelSpec == KernelInit /\ [][KernelNext]_kvars /\ KernelFairness

(***************************************************************************)
(* What the pool promises.                                                 *)
(***************************************************************************)
(* What maxKernels bounds: the kernels the manager may give a cell to are  *)
(* in its map, one per session.  A process whose kernel was terminated     *)
(* while its home was being made is not: it counts for nothing and is left *)
(* to exit by itself.                                                      *)
PoolBound ==
  /\ \A i \in Instances : Alive(i) => pool[inst[i].key] = i
  /\ Cardinality({i \in Instances : Alive(i)}) <= MaxKernels

(* killed (never reused): no cell is given to a kernel that was terminated *)
(* and that its own process brought back.                                  *)
NeverReused == \A k \in Keys : pool[k] # 0 => inst[pool[k]].state \notin {"stray", "revived"}

(* Eviction takes idle kernels only: no cell, not even one that waits in a *)
(* kernel's chain, loses its kernel to another session.                    *)
OnlyIdleEvicted == \A c \in Cells : cell[c] # "evicted"

(* kernel/manager.ts: one kernel per session, no more than maxKernels of   *)
(* them, and only an idle one is evicted, through sweeps, restores,        *)
(* failing starts, deaths and callers woken in any order.                  *)
PoolKept == KernelTypeOK /\ PoolBound /\ NeverReused /\ OnlyIdleEvicted

(* Every cell that was submitted settles: no caller waits for room that    *)
(* was already free, and no cell is left in a dead kernel's chain.  (A     *)
(* cell is submitted once and stays settled: to reach, from everywhere, a  *)
(* state in which none is under way is to have each of them settle.)       *)
CellsSettle == []<>(\A c \in Cells : cell[c] \in {"new"} \cup Settled)
=============================================================================
