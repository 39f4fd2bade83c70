------------------------------ MODULE Manager ------------------------------
(***************************************************************************)
(* The cluster coordinator of llumnix/manager.py (class Manager).          *)
(*                                                                         *)
(* The Manager is one asyncio actor: every coroutine runs without          *)
(* preemption up to its next `await`, so each action below is one such    *)
(* segment of one task.  Modelled tasks:                                   *)
(*   - the instance-info polling loop and its per-instance done callbacks  *)
(*     (which scale a dead instance down);                                 *)
(*   - `_migrate` tasks, the in-flight `migrate_out` calls and their done  *)
(*     callbacks (flag clearing, `_check_instance_error`,                  *)
(*     `clear_migration_states`, scale-down of the failed side);           *)
(*   - `scale_up` (synchronous) and `scale_down` (one `await` per id,      *)
(*     before the id is removed);                                          *)
(*   - `_rebuild_migration_backend` tasks, whose loop re-creates the       *)
(*     collective group on every alive instance.                           *)
(* The migration backend is of group kind (gloo/nccl) and                  *)
(* `enable_migration` is configured TRUE, the setting in which the rebuild *)
(* protocol runs.  Instance actors are the environment: they are           *)
(* launched (the scaler then calls `scale_up`) and may die.                *)
(***************************************************************************)
EXTENDS Integers, FiniteSets, Sequences

CONSTANTS
  Inst,          \* instance ids; an id is never reused
  RSlots,        \* slots for concurrently running rebuild tasks (a bound)
  MaxCrashes,    \* bound on the number of instance actor deaths
  InitMayFail,   \* TRUE when init_backend may time out and return False
  TaskErrors,    \* TRUE when migrate_out may raise with both sides alive
  MaxMigrations, \* bound on the number of migrate_out calls launched
  WorldSizeRaises, \* TRUE: ray.get(get_world_size) on a dead instance raises
                   \* (FALSE only to isolate the other rebuild behaviours)
  Tp,              \* instance -> tensor-parallel size (get_world_size)
  InstOrder        \* the instance ids in sorted order

ASSUME /\ RSlots # {}
       /\ MaxCrashes \in Nat
       /\ InitMayFail \in BOOLEAN /\ TaskErrors \in BOOLEAN
       /\ MaxMigrations \in Nat /\ WorldSizeRaises \in BOOLEAN
       /\ Tp \in [Inst -> Nat \ {0}]
       /\ InstOrder \in Seq(Inst) /\ Len(InstOrder) = Cardinality(Inst)
       /\ \A i \in Inst : \E k \in DOMAIN InstOrder : InstOrder[k] = i

VARIABLES
  launched,   \* instance actors created so far (environment)
  alive,      \* instance actors that have not died (environment)
  crashes,    \* number of deaths so far
  instances,  \* DOMAIN self.instances
  migrating,  \* {i : self.instance_migrating[i]}; keys are `instances`
  enable,     \* self.enable_migration
  pending,    \* self.pending_rebuild_migration_instances
  filter,     \* alive_instances installed in migration_backend_init_filter
  group,      \* per instance: generation of the collective group its
              \* workers joined last (NoGroup after a failed init)
  wrank,      \* per instance: global ranks of its workers and the world
              \* size they were given by the last rebuild_migration_backend
  gen,        \* generations handed out so far (one random_uuid each)
  poll,       \* the _poll_instance_info_loop task
  pollcbs,    \* pending get_instance_info_done_callback tasks
  migPending, \* a _push_migrations/_migrate task is scheduled
  inflight,   \* migrate_out calls not yet returned, as <<src, dst>>
  launches,   \* number of migrate_out calls launched so far (bounded)
  migcbs,     \* pending migrate_done_callback tasks
  rebuilds,   \* the _rebuild_migration_backend tasks, one per slot
  uncleared   \* <<side, pair>>: a failed migration whose side has not yet
              \* run clear_migration_states

vars == <<launched, alive, crashes, instances, migrating, enable, pending,
          filter, group, wrank, gen, poll, pollcbs, migPending, inflight, launches,
          migcbs, rebuilds, uncleared>>

NoGroup == 0

Pairs(S) == {p \in S \X S : p[1] # p[2]}
Ends(p) == {p[1], p[2]}

(* The pair policy (global_scheduler.pair_migration, not in this          *)
(* repository) returns pairs in which no instance appears twice.          *)
Matchings(S) ==
  {M \in SUBSET Pairs(S) : \A p, q \in M : p # q => Ends(p) \cap Ends(q) = {}}

(***************************************************************************)
(* scale_down(ids, rebuild_migration_backend) as a frame kept by its      *)
(* caller: no_pending_instance is read when it is called, then every id   *)
(* is removed only after `await clear_instance_ray_resources(id)`.        *)
(***************************************************************************)
NoFrame == [ids |-> {}, noPending |-> FALSE, indeed |-> FALSE, rebuild |-> FALSE]

SDCall(ids, rb, pend) ==
  [ids |-> ids, noPending |-> pend = 0, indeed |-> FALSE, rebuild |-> rb]

(* The resumption of scale_down for id x, and when x was the last id its  *)
(* tail: reset the counter on an empty cluster, or start a rebuild.       *)
SDAfter(fr, x) ==
  LET hit   == x \in instances
      inst1 == instances \ {x}
      pend1 == IF hit THEN pending + 1 ELSE pending
      fr1   == [fr EXCEPT !.ids = @ \ {x}, !.indeed = @ \/ hit]
      last  == fr1.ids = {}
  IN [inst    |-> inst1,
      pending |-> IF last /\ enable /\ inst1 = {} THEN 0 ELSE pend1,
      frame   |-> fr1,
      done    |-> last,
      spawn   |-> last /\ enable /\ inst1 # {} /\ fr1.indeed
                       /\ fr1.noPending /\ fr1.rebuild]

IdleRebuild ==
  [pc |-> "idle", origin |-> FALSE, ai |-> {}, pt |-> 0, dead0 |-> {},
   dead |-> {}, g |-> NoGroup, fr |-> NoFrame, ran |-> FALSE]

(* asyncio.create_task(self._rebuild_migration_backend()): the task is    *)
(* queued, and runs its first step on the next iteration of the loop.     *)
Spawned(doit) ==
  IF doit
  THEN \E s \in RSlots : /\ rebuilds[s].pc = "idle"
                         /\ rebuilds' = [rebuilds EXCEPT ![s].pc = "new"]
  ELSE UNCHANGED rebuilds

Active(r) == rebuilds[r].pc # "idle"

(* No created task is still waiting for its first step.  The event loop   *)
(* runs the ready queue before it polls for I/O and timers, so while a    *)
(* task is "new" only tasks already queued (callbacks at their start, a   *)
(* scheduled _migrate) and the environment may move.                      *)
Ready == \A r \in RSlots : rebuilds[r].pc # "new"

----------------------------------------------------------------------------
Init ==
  /\ launched = {} /\ alive = {} /\ crashes = 0
  /\ instances = {} /\ migrating = {}
  /\ enable = TRUE /\ pending = 0
  /\ filter = Inst
  /\ group = [i \in Inst |-> NoGroup] /\ gen = 0
  /\ wrank = [i \in Inst |-> [ranks |-> {}, world |-> 0]]
  /\ poll = [pc |-> "sleep", out |-> {}]
  /\ pollcbs = {} /\ migPending = FALSE /\ inflight = {} /\ launches = 0
  /\ migcbs = {}
  /\ rebuilds = [r \in RSlots |-> IdleRebuild]
  /\ uncleared = {}

----------------------------------------------------------------------------
(* Environment. *)
Crash(i) ==
  /\ i \in alive /\ crashes < MaxCrashes
  /\ alive' = alive \ {i} /\ crashes' = crashes + 1
  /\ UNCHANGED <<launched, instances, migrating, enable, pending, filter,
                 group, wrank, gen, poll, pollcbs, migPending, inflight, launches, migcbs,
                 rebuilds, uncleared>>

(* Mutants of scale_up: the counter is not incremented; no rebuild task  *)
(* is created.                                                            *)
ScaleUpNoCount(i) ==
  /\ i \notin launched
  /\ launched' = launched \cup {i} /\ alive' = alive \cup {i}
  /\ instances' = instances \cup {i}
  /\ pending' = pending
  /\ Spawned(enable /\ pending = 0)
  /\ UNCHANGED <<crashes, migrating, enable, filter, group, wrank, gen, poll,
                 pollcbs, migPending, inflight, launches, migcbs, uncleared>>

ScaleUpNoRebuild(i) ==
  /\ i \notin launched
  /\ launched' = launched \cup {i} /\ alive' = alive \cup {i}
  /\ instances' = instances \cup {i}
  /\ pending' = pending + 1
  /\ UNCHANGED <<crashes, migrating, enable, filter, group, wrank, gen, poll,
                 pollcbs, migPending, inflight, launches, migcbs, uncleared,
                 rebuilds>>

(* The scaler launches instance i and calls scale_up(i). *)
ScaleUp(i) ==
  /\ i \notin launched
  /\ launched' = launched \cup {i} /\ alive' = alive \cup {i}
  /\ instances' = instances \cup {i}
  /\ pending' = pending + 1
  /\ Spawned(enable /\ pending = 0)
  /\ UNCHANGED <<crashes, migrating, enable, filter, group, wrank, gen, poll,
                 pollcbs, migPending, inflight, launches, migcbs, uncleared>>

----------------------------------------------------------------------------
(* _poll_instance_info_loop *)
PollIssue ==
  /\ poll.pc = "sleep"
  /\ poll' = [pc |-> "wait", out |-> instances]
  /\ UNCHANGED <<launched, alive, crashes, instances, migrating, enable,
                 pending, filter, group, wrank, gen, pollcbs, migPending, inflight, launches,
                 migcbs, rebuilds, uncleared>>

(* The get_instance_info call of i raises RayActorError, and its done     *)
(* callback schedules a task that scales i down.  A call that returns     *)
(* normally only feeds the scheduler's load view and changes nothing      *)
(* modelled, so it is left implicit: PollDone may happen with any calls   *)
(* left, which then returned before the instance died.                    *)
PollReply(i) ==
  /\ i \in poll.out /\ i \notin alive
  /\ poll' = [poll EXCEPT !.out = @ \ {i}]
  /\ pollcbs' = pollcbs \cup {[inst |-> i, pc |-> "start", fr |-> NoFrame]}
  /\ UNCHANGED <<launched, alive, crashes, instances, migrating, enable,
                 pending, filter, group, wrank, gen, migPending, inflight, launches, migcbs,
                 rebuilds, uncleared>>

(* gather returns; _push_migrations is scheduled when migration is on. *)
PollDone ==
  /\ poll.pc = "wait"
  /\ poll' = [pc |-> "sleep", out |-> {}]
  /\ migPending' = (migPending \/ enable)
  /\ UNCHANGED <<launched, alive, crashes, instances, migrating, enable,
                 pending, filter, group, wrank, gen, pollcbs, inflight, launches, migcbs,
                 rebuilds, uncleared>>

PollCBStart(t) ==
  /\ t \in pollcbs /\ t.pc = "start"
  /\ pollcbs' = (pollcbs \ {t})
                  \cup {[t EXCEPT !.pc = "sd", !.fr = SDCall({t.inst}, TRUE, pending)]}
  /\ UNCHANGED <<launched, alive, crashes, instances, migrating, enable,
                 pending, filter, group, wrank, gen, poll, migPending, inflight, launches,
                 migcbs, rebuilds, uncleared>>

(* Mutant: scale_down leaves the instance_migrating entry behind. *)
PollCBResumeKeepFlag(t) ==
  /\ t \in pollcbs /\ t.pc = "sd"
  /\ LET a == SDAfter(t.fr, t.inst)
     IN /\ instances' = a.inst /\ pending' = a.pending
        /\ pollcbs' = pollcbs \ {t}
        /\ Spawned(a.spawn)
  /\ UNCHANGED <<launched, alive, crashes, enable, filter, group, wrank, gen, poll,
                 migrating, migPending, inflight, launches, migcbs, uncleared>>

PollCBResume(t) ==
  /\ t \in pollcbs /\ t.pc = "sd"
  /\ LET a == SDAfter(t.fr, t.inst)
     IN /\ instances' = a.inst /\ pending' = a.pending
        /\ migrating' = migrating \ {t.inst}
        /\ pollcbs' = pollcbs \ {t}
        /\ Spawned(a.spawn)
  /\ UNCHANGED <<launched, alive, crashes, enable, filter, group, wrank, gen, poll,
                 migPending, inflight, launches, migcbs, uncleared>>

----------------------------------------------------------------------------
(* Mutant: _migrate does not skip pairs with a flagged instance. *)
MigrateRunNoSkip ==
  /\ migPending
  /\ \E P \in Matchings(instances \cap filter) :
       /\ launches + Cardinality(P) <= MaxMigrations
       /\ migrating' = migrating \cup UNION {Ends(p) : p \in P}
       /\ inflight' = inflight \cup P
       /\ launches' = launches + Cardinality(P)
  /\ migPending' = FALSE
  /\ UNCHANGED <<launched, alive, crashes, instances, enable, pending, filter,
                 group, wrank, gen, poll, pollcbs, migcbs, rebuilds, uncleared>>

(* _migrate: pick pairs, skip pairs with a flagged instance, flag and     *)
(* launch the rest.  It does not look at enable_migration.                *)
MigrateRun ==
  /\ migPending
  /\ \E P \in Matchings(instances \cap filter) :
       LET L == {p \in P : Ends(p) \cap migrating = {}}
       IN /\ launches + Cardinality(L) <= MaxMigrations
          /\ migrating' = migrating \cup UNION {Ends(p) : p \in L}
          /\ inflight' = inflight \cup L
          /\ launches' = launches + Cardinality(L)
  /\ migPending' = FALSE
  /\ UNCHANGED <<launched, alive, crashes, instances, enable, pending, filter,
                 group, wrank, gen, poll, pollcbs, migcbs, rebuilds, uncleared>>

(* migrate_out returns, or raises (RayActorError when a side has died,    *)
(* RayTaskError from the llumlet otherwise).                              *)
MigrateReturn(p) ==
  /\ p \in inflight
  /\ \E err \in IF TaskErrors \/ ~(Ends(p) \subseteq alive) THEN BOOLEAN ELSE {FALSE} :
       /\ migcbs' = migcbs \cup {[pair |-> p, err |-> err, pc |-> "start",
                                  dead0 |-> {}, todo |-> <<>>, sds |-> <<>>,
                                  fr |-> NoFrame]}
       /\ uncleared' = IF err THEN uncleared \cup {<<x, p>> : x \in Ends(p)}
                              ELSE uncleared
  /\ inflight' = inflight \ {p}
  /\ UNCHANGED <<launched, alive, crashes, instances, migrating, enable,
                 pending, filter, group, wrank, gen, poll, pollcbs, migPending,
                 launches, rebuilds>>

(* Where a callback goes after a clear or a scale-down: the next clear,   *)
(* the next scale-down (called with the current counter), or the end.    *)
MCNext(c, pend) ==
  IF c.todo # <<>> THEN {[c EXCEPT !.pc = "clear"]}
  ELSE IF c.sds # <<>>
       THEN {[c EXCEPT !.pc = "sd", !.fr = SDCall({Head(c.sds)}, TRUE, pend),
                       !.sds = Tail(c.sds)]}
       ELSE {}

(* migrate_done_callback up to its first await.  _check_instance_error    *)
(* indexes self.instances, so a side already scaled down raises KeyError  *)
(* and the task ends there.                                                *)
MCStart(c) ==
  /\ c \in migcbs /\ c.pc = "start"
  /\ migrating' = migrating \ Ends(c.pair)
  /\ migcbs' = (migcbs \ {c})
               \cup IF c.err /\ Ends(c.pair) \subseteq instances
                    THEN {[c EXCEPT !.pc = "check", !.dead0 = Ends(c.pair) \ alive]}
                    ELSE {}
  /\ UNCHANGED <<launched, alive, crashes, instances, enable, pending, filter,
                 group, wrank, gen, poll, pollcbs, migPending, inflight, launches, rebuilds,
                 uncleared>>

(* The is_ready calls return: a side has_error iff its call failed.       *)
MCCheck(c) ==
  /\ c \in migcbs /\ c.pc = "check"
  /\ \E E \in SUBSET (Ends(c.pair) \ alive) :
       /\ c.dead0 \subseteq E
       /\ LET ok(x)  == x \notin E
              bad(x) == x \in E
              c1 == [c EXCEPT !.todo = SelectSeq(c.pair, ok),
                              !.sds = SelectSeq(c.pair, bad)]
          IN migcbs' = (migcbs \ {c}) \cup MCNext(c1, pending)
  /\ UNCHANGED <<launched, alive, crashes, instances, migrating, enable,
                 pending, filter, group, wrank, gen, poll, pollcbs, migPending,
                 inflight, launches, rebuilds, uncleared>>

(* await clear_migration_states(is_migrate_in) on a side without error;   *)
(* a KeyError or RayActorError is caught.                                  *)
MCClear(c) ==
  /\ c \in migcbs /\ c.pc = "clear"
  /\ LET x == Head(c.todo)
     IN uncleared' = IF x \in instances /\ x \in alive
                     THEN uncleared \ {<<x, c.pair>>} ELSE uncleared
  /\ migcbs' = (migcbs \ {c}) \cup MCNext([c EXCEPT !.todo = Tail(@)], pending)
  /\ UNCHANGED <<launched, alive, crashes, instances, migrating, enable,
                 pending, filter, group, wrank, gen, poll, pollcbs, migPending,
                 inflight, launches, rebuilds>>

MCScaleDown(c) ==
  /\ c \in migcbs /\ c.pc = "sd"
  /\ \E x \in c.fr.ids :
       LET a == SDAfter(c.fr, x)
       IN /\ instances' = a.inst /\ pending' = a.pending
          /\ migrating' = migrating \ {x}
          /\ migcbs' = (migcbs \ {c}) \cup MCNext(c, a.pending)
          /\ Spawned(a.spawn)
  /\ UNCHANGED <<launched, alive, crashes, enable, filter, group, wrank, gen, poll,
                 pollcbs, migPending, inflight, launches, uncleared>>

----------------------------------------------------------------------------
(* _rebuild_migration_backend *)

(* alive_instances = sorted(self.instances.keys()) and the                *)
(* instance_rank_tp_size dict built from it (manager.py 491, 496-498):     *)
(* position k of the sequence holds the instance of rank k - 1 and its    *)
(* get_world_size.                                                         *)
RankOrder(ai) == SelectSeq(InstOrder, LAMBDA i : i \in ai)
TpSizes(ai) == [k \in DOMAIN RankOrder(ai) |-> Tp[RankOrder(ai)[k]]]
InstanceRank(ai, i) == CHOOSE k \in 0 .. Len(RankOrder(ai)) - 1 : RankOrder(ai)[k + 1] = i

(* The loop of rebuild_migration_backend over instance_rank_tp_size.items() *)
(* from the item at index acc.idx: the worker of local rank lr takes the   *)
(* sum so far as its base when it meets its instance's rank, and the sum   *)
(* of all tp sizes is global_world_size.                                   *)
RECURSIVE RankLoop(_, _, _, _)
RankLoop(tps, cur, lr, acc) ==
  IF acc.idx = Len(tps) THEN acc
  ELSE RankLoop(tps, cur, lr,
                [idx  |-> acc.idx + 1,
                 size |-> acc.size + tps[acc.idx + 1],
                 rank |-> IF acc.idx = cur THEN acc.size + lr ELSE acc.rank])

(* Mutant: the ranks of the uniform-tp branch (worker.py 247-250), as if   *)
(* the manager passed no instance_rank_tp_size.                            *)
WorkerGlobalRankUniform(tps, cur, lr) ==
  [idx |-> Len(tps), size |-> Len(tps) * tps[cur + 1], rank |-> lr + cur * tps[cur + 1]]

(* rebuild_migration_backend (worker.py 233-255) on the worker of local    *)
(* rank lr of the instance of rank cur: .rank is self.global_rank and      *)
(* .size self.global_world_size, passed on to init_backend.                *)
WorkerGlobalRank(tps, cur, lr) ==
  RankLoop(tps, cur, lr, [idx |-> 0, size |-> 0, rank |-> -1])

(* The global ranks of all workers of instance i, and their world size.   *)
WorkerRanks(ai, i) ==
  LET cur == InstanceRank(ai, i) IN
  [ranks |-> {WorkerGlobalRank(TpSizes(ai), cur, lr).rank : lr \in 0 .. Tp[i] - 1},
   world |-> WorkerGlobalRank(TpSizes(ai), cur, 0).size]

(* Mutant of the loop head: `> 1` for `> 0`. *)
RBLoopLateExit(r, rec, ai, pend, en) ==
  IF ai # {} /\ pend > 1
  THEN \/ /\ gen' = gen + 1
          /\ rebuilds' = [rebuilds EXCEPT ![r] =
                            [rec EXCEPT !.pc = "rebuild", !.ai = ai, !.pt = pend,
                                        !.dead0 = ai \ alive, !.g = gen + 1,
                                        !.ran = TRUE]]
          /\ pending' = pend /\ enable' = en
          /\ UNCHANGED filter
       \/ /\ WorldSizeRaises /\ ai \ alive # {}
          /\ rebuilds' = [rebuilds EXCEPT ![r] = IdleRebuild]
          /\ pending' = pend /\ enable' = en
          /\ UNCHANGED <<filter, gen>>
  ELSE /\ rebuilds' = [rebuilds EXCEPT ![r] = IdleRebuild]
       /\ pending' = IF ai = {} THEN 0 ELSE pend
       /\ filter' = ai
       /\ enable' = IF rec.ran THEN rec.origin ELSE en
       /\ UNCHANGED gen

(* The head of the `while` loop: issue rebuild_migration_backend to all   *)
(* alive_instances under a fresh group name, or leave the loop, install   *)
(* the filter and restore enable_migration.  The blocking                 *)
(* ray.get(get_world_size) raises on a dead instance; nothing catches it, *)
(* so the task ends there with migration still disabled.  When the body   *)
(* never ran, instance_rank_tp_size is unbound and the logger.info after  *)
(* the filter raises UnboundLocalError: the task ends before line 522,    *)
(* again with migration disabled.                                         *)
RBLoop(r, rec, ai, pend, en) ==
  IF ai # {} /\ pend > 0
  THEN \/ /\ gen' = gen + 1
          /\ rebuilds' = [rebuilds EXCEPT ![r] =
                            [rec EXCEPT !.pc = "rebuild", !.ai = ai, !.pt = pend,
                                        !.dead0 = ai \ alive, !.g = gen + 1,
                                        !.ran = TRUE]]
          /\ pending' = pend /\ enable' = en
          /\ UNCHANGED filter
       \/ /\ WorldSizeRaises /\ ai \ alive # {}
          /\ rebuilds' = [rebuilds EXCEPT ![r] = IdleRebuild]
          /\ pending' = pend /\ enable' = en
          /\ UNCHANGED <<filter, gen>>
  ELSE /\ rebuilds' = [rebuilds EXCEPT ![r] = IdleRebuild]
       /\ pending' = IF ai = {} THEN 0 ELSE pend
       /\ filter' = ai
       /\ enable' = IF rec.ran THEN rec.origin ELSE en
       /\ UNCHANGED gen

(* Past `while any(self.instance_migrating.values())`: save and disable   *)
(* enable_migration and enter the rebuild loop.                           *)
RBEnter(r) ==
  /\ migrating = {}
  /\ RBLoop(r, [rebuilds[r] EXCEPT !.origin = enable], instances, pending, FALSE)
  /\ UNCHANGED <<launched, alive, crashes, instances, migrating, group, wrank, poll,
                 pollcbs, migPending, inflight, launches, migcbs, uncleared>>

(* The first step of a new task: with a flag set it goes to sleep.        *)
RBFirst(r) ==
  /\ rebuilds[r].pc = "new"
  /\ \/ RBEnter(r)
     \/ /\ migrating # {}
        /\ rebuilds' = [rebuilds EXCEPT ![r].pc = "wait"]
        /\ UNCHANGED <<launched, alive, crashes, instances, migrating, enable,
                       pending, filter, group, wrank, gen, poll, pollcbs,
                       migPending, inflight, launches, migcbs, uncleared>>

(* The sleep expires and the flags are tested again. *)
RBStart(r) ==
  /\ rebuilds[r].pc = "wait"
  /\ RBEnter(r)

(* run_task returns.  Only a RayActorError counts as dead; the boolean    *)
(* returned by init_backend is not looked at.                             *)
RBReply(r) ==
  LET rec == rebuilds[r] IN
  /\ rec.pc \in {"rebuild", "warmup"}
  /\ \E D \in SUBSET (rec.ai \ alive), ok \in SUBSET rec.ai :
       /\ rec.dead0 \subseteq D
       /\ rec.pc = "warmup" \/ ~InitMayFail => ok = rec.ai
       /\ group' = IF rec.pc = "rebuild"
                   THEN [i \in Inst |-> IF i \in rec.ai \ D
                                        THEN IF i \in ok THEN rec.g ELSE NoGroup
                                        ELSE group[i]]
                   ELSE group
       /\ wrank' = IF rec.pc = "rebuild"
                   THEN [i \in Inst |-> IF i \in rec.ai \ D THEN WorkerRanks(rec.ai, i)
                                                         ELSE wrank[i]]
                   ELSE wrank
       /\ IF D # {}
          THEN /\ rebuilds' = [rebuilds EXCEPT ![r] =
                                [rec EXCEPT !.pc = "sd", !.dead = D,
                                            !.fr = SDCall(D, FALSE, pending)]]
               /\ UNCHANGED <<pending, filter, enable, gen>>
          ELSE IF rec.pc = "rebuild" /\ pending = rec.pt
               THEN /\ rebuilds' = [rebuilds EXCEPT ![r] =
                                     [rec EXCEPT !.pc = "warmup",
                                                 !.dead0 = rec.ai \ alive]]
                    /\ UNCHANGED <<pending, filter, enable, gen>>
               ELSE RBLoop(r, rec, instances, pending - rec.pt, enable)
  /\ UNCHANGED <<launched, alive, crashes, instances, migrating, poll,
                 pollcbs, migPending, inflight, launches, migcbs, uncleared>>

(* scale_down(dead_instances, rebuild_migration_backend=False) inside     *)
(* run_task; after its last id the loop continues without the dead ones.  *)
RBScaleDown(r) ==
  LET rec == rebuilds[r] IN
  /\ rec.pc = "sd"
  /\ \E x \in rec.fr.ids :
       LET a == SDAfter(rec.fr, x)
       IN /\ instances' = a.inst
          /\ migrating' = migrating \ {x}
          /\ IF a.done
             THEN RBLoop(r, rec, a.inst \ rec.dead, a.pending, enable)
             ELSE /\ rebuilds' = [rebuilds EXCEPT ![r].fr = a.frame]
                  /\ pending' = a.pending
                  /\ UNCHANGED <<filter, enable, gen>>
  /\ UNCHANGED <<launched, alive, crashes, group, wrank, poll, pollcbs, migPending,
                 inflight, launches, migcbs, uncleared>>

----------------------------------------------------------------------------
(* Steps woken by I/O or a timer (a reply, an incoming call, a sleep that *)
(* ends) wait until the ready queue holds no new task.                    *)
Next ==
  \/ \E i \in Inst : Crash(i) \/ (Ready /\ ScaleUp(i)) \/ (Ready /\ PollReply(i))
  \/ (Ready /\ PollIssue) \/ (Ready /\ PollDone) \/ MigrateRun
  \/ \E t \in pollcbs : PollCBStart(t) \/ (Ready /\ PollCBResume(t))
  \/ \E p \in inflight : Ready /\ MigrateReturn(p)
  \/ \E c \in migcbs : \/ MCStart(c)
                       \/ Ready /\ (MCCheck(c) \/ MCClear(c) \/ MCScaleDown(c))
  \/ \E r \in RSlots : RBFirst(r) \/ (Ready /\ RBStart(r))
                      \/ (Ready /\ (RBReply(r) \/ RBScaleDown(r)))

(* Every task step and every reply eventually happens once enabled; the   *)
(* rebuild task re-tests the migration flags every                        *)
(* WAIT_ALL_MIGRATIONS_DONE_INTERVAL, so it leaves its wait loop if they   *)
(* are repeatedly all clear.  Deaths and scale-ups are not forced.        *)
Fairness ==
  /\ WF_vars(Ready /\ PollIssue) /\ WF_vars(Ready /\ PollDone) /\ WF_vars(MigrateRun)
  /\ \A i \in Inst : WF_vars(Ready /\ PollReply(i))
  /\ \A p \in Pairs(Inst) : WF_vars(p \in inflight /\ Ready /\ MigrateReturn(p))
  /\ WF_vars(\E t \in pollcbs : PollCBStart(t) \/ (Ready /\ PollCBResume(t)))
  /\ WF_vars(\E c \in migcbs :
               MCStart(c) \/ (Ready /\ (MCCheck(c) \/ MCClear(c) \/ MCScaleDown(c))))
  /\ \A r \in RSlots : /\ WF_vars(RBFirst(r)) /\ SF_vars(Ready /\ RBStart(r))
                      /\ WF_vars(Ready /\ (RBReply(r) \/ RBScaleDown(r)))

Spec == Init /\ [][Next]_vars /\ Fairness

----------------------------------------------------------------------------
TypeOK ==
  /\ launched \subseteq Inst /\ alive \subseteq launched
  /\ crashes \in 0..MaxCrashes
  /\ instances \subseteq launched /\ migrating \subseteq instances
  /\ enable \in BOOLEAN /\ pending \in Int /\ filter \subseteq Inst
  /\ group \in [Inst -> 0..gen] /\ gen \in Nat
  /\ wrank \in [Inst -> [ranks : SUBSET Nat, world : Nat]]
  /\ poll.pc \in {"sleep", "wait"} /\ poll.out \subseteq Inst
  /\ migPending \in BOOLEAN /\ inflight \subseteq Pairs(Inst)
  /\ launches \in 0..MaxMigrations
  /\ \A r \in RSlots : rebuilds[r].pc \in {"idle", "new", "wait", "rebuild", "warmup", "sd"}

(***************************************************************************)
(* Properties.                                                             *)
(***************************************************************************)
NoRebuild == \A r \in RSlots : ~Active(r)

(* The instance_migrating flags set by _migrate and cleared by             *)
(* migrate_done_callback or scale_down never let two migrate_out calls     *)
(* that share an instance be in flight together.                           *)
MigrationExclusive ==
  \A p, q \in inflight : p # q => Ends(p) \cap Ends(q) = {}

(* A membership change counted in pending_rebuild_migration_instances is   *)
(* always owned by a running rebuild task: scale_up/scale_down start one   *)
(* when the counter was zero, and the rebuild loop only exits once it has  *)
(* consumed the counter.                                                   *)
PendingHandled == pending # 0 => ~NoRebuild

(* _rebuild_migration_backend disables migration while it runs and        *)
(* restores the configured value (TRUE) when it is done.                   *)
MigrationEnabledWhenIdle == NoRebuild => enable

(* When no rebuild runs, every live instance the migration filter admits   *)
(* has its workers in the group the last rebuild created, so a migration   *)
(* between two admitted instances has a working collective group.          *)
GroupConsistent ==
  NoRebuild => \A i \in filter \cap instances \cap alive :
                 group[i] = gen /\ group[i] # NoGroup

(* The rebuild waits for all migrations to finish and disables migration,  *)
(* so no migrate_out is in flight while workers are re-creating groups.    *)
NoMigrationDuringRebuild ==
  (\E r \in RSlots : rebuilds[r].pc \in {"rebuild", "warmup", "sd"}) => inflight = {}

(* Once scale-ups stop, the cluster settles with no rebuild running, the   *)
(* counter consumed, and every instance admitted by the filter and in the  *)
(* current group.                                                          *)
Converged ==
  /\ NoRebuild /\ pending = 0
  /\ instances \subseteq filter
  /\ \A i \in instances : group[i] = gen
Converges == <>[]Converged

(* After a failed migration, each surviving side eventually runs           *)
(* clear_migration_states, so it frees its pre-allocated blocks and its    *)
(* migrating-out state.                                                    *)
SurvivorCleared ==
  \A x \in Inst, p \in Pairs(Inst) :
    (<<x, p>> \in uncleared) ~> (<<x, p>> \notin uncleared \/ x \notin alive)

(* The workers of the instances in the current collective group hold       *)
(* distinct global ranks below the world size they all agree on, so        *)
(* init_backend can form the group.  The ranks come from the sorted        *)
(* alive_instances, the per-instance tp sizes the manager gathers          *)
(* (manager.py 496-500) and the prefix sums of rebuild_migration_backend   *)
(* (worker.py 238-246), with instances of different tp sizes.              *)
GroupRanksDistinct ==
  LET G == {i \in Inst : group[i] = gen /\ gen # NoGroup} IN
  \A i, j \in G :
    /\ wrank[i].world = wrank[j].world
    /\ wrank[i].ranks \subseteq 0 .. wrank[i].world - 1
    /\ i # j => wrank[i].ranks \cap wrank[j].ranks = {}

=============================================================================
