------------------------------ MODULE Transfer ------------------------------
(***************************************************************************)
(* One stage of a KV-cache transfer: MigrationWorker.migrate_cache         *)
(* (backends/vllm/worker.py) running on every destination worker at once  *)
(* (the `_run_workers` fan-out), and the do_send calls it makes on the     *)
(* source workers (backends/vllm/migration_backend.py).                    *)
(*                                                                         *)
(* A destination worker runs one of the four chunk loops (RayRpc or RayCol *)
(* backend; equal/add tp or subtract tp).  Every do_send call runs on a    *)
(* thread of its source worker (ProxyActor, max_concurrency 8); the        *)
(* threads of one source worker share the backend object's fields         *)
(* barrier_actor, send_cache_split and wait_for_split_event, and their     *)
(* steps interleave at every access to them.                               *)
(*                                                                         *)
(* Data is abstracted to where it came from: a piece is the slice `c` of   *)
(* the heads of the blocks of chunk iteration `j`, taken on source worker  *)
(* `s`, of layer `l` (0: all layers, as RayRpc copies them at once).  A    *)
(* destination block position holds, per layer, the set of                *)
(* <<source position, s, c, layer>> last written to it.  The request's    *)
(* sequence-group metadata is one token per worker dictionary.            *)
(***************************************************************************)
EXTENDS Integers, Sequences, FiniteSets

CONSTANTS
  Stages,     \* stage shapes: [backend, stp, dtp, maxn]: migration_backend,
              \* src and dst world sizes, bound on len(src_blocks)
  BufBlocks,  \* migration_buffer_blocks (already clamped to num_gpu_blocks)
  Layers,     \* num_attention_layers (migration_num_layers = 1)
  SpmdModes,  \* values of use_ray_spmd_worker
  LastModes   \* values of is_last_stage

ASSUME /\ Stages # {}
       /\ Stages \subseteq [backend : {"rayrpc", "raycol"}, stp : Nat \ {0},
                             dtp : Nat \ {0}, maxn : Nat]
       /\ BufBlocks \in Nat \ {0} /\ Layers \in Nat \ {0}
       /\ SpmdModes \subseteq BOOLEAN /\ LastModes \subseteq BOOLEAN

Largest(S) == CHOOSE m \in S : \A v \in S : v <= m
MaxW == Largest({g.stp : g \in Stages} \cup {g.dtp : g \in Stages})
MaxBlocks == Largest({g.maxn : g \in Stages})
W == 0 .. MaxW - 1
MaxIters == (MaxBlocks + BufBlocks - 1) \div BufBlocks
Iters == 0 .. MaxIters
Undef == -1

VARIABLES
  cfg,    \* the stage: backend, world sizes, len(blocks), is_last_stage, spmd
  dw,     \* destination worker -> frame of its migrate_cache call
  th,     \* <<dst worker, src worker, iteration>> -> frame of a do_send call
  ev,     \* source worker -> wait_for_split_event is set
  split,  \* source worker -> send_cache_split, as [j, l] of the split data
  bars,   \* source worker -> barrier actors created, [cnt, gen, size]
  cur,    \* source worker -> index in bars of self.barrier_actor (0: None)
  chan,   \* <<src, dst>> -> piece posted by col.send, not yet received
  gpu,    \* destination worker -> position -> layer -> pieces written
  cache,  \* source worker -> request metadata in _seq_group_metadata_cache
  mout,   \* source worker -> request in migrating_out_seq_group_metadata
  staged  \* destination worker -> request in migrating_in_seq_group_metadata

vars == <<cfg, dw, th, ev, split, bars, cur, chan, gpu, cache, mout, staged>>

(***************************************************************************)
(* Fan-out geometry of MigrationWorker.migrate_cache.                      *)
(***************************************************************************)
AddTp == cfg.dtp % cfg.stp = 0
Chunk == IF AddTp THEN cfg.dtp \div cfg.stp ELSE cfg.stp \div cfg.dtp
SrcOf(d) == IF AddTp THEN {d \div Chunk}
            ELSE {d * Chunk + i : i \in 0 .. Chunk - 1}
RankOf(d) == IF AddTp THEN d % Chunk ELSE 0
CallChunk == IF AddTp THEN Chunk ELSE 1
DW == 0 .. cfg.dtp - 1
SW == 0 .. cfg.stp - 1

(* The `for start_idx in range(0, tot_blocks, num_migration_buffer_blocks)` *)
(* loop: iteration j covers positions Start(j)+1 .. Start(j)+Off(j).       *)
Start(j) == j * BufBlocks
Off(j) == IF BufBlocks < cfg.n - Start(j) THEN BufBlocks ELSE cfg.n - Start(j)
Range(j) == Start(j) + 1 .. Start(j) + Off(j)
LastComm(j) == cfg.n - Start(j) <= BufBlocks
SendMeta(j) == cfg.spmd /\ cfg.last /\ LastComm(j)

Piece(s, c) == [j |-> split[s].j, l |-> split[s].l, s |-> s, c |-> c]
Posted(s, c, t) == [j |-> split[s].j, l |-> split[s].l, s |-> s, c |-> c, from |-> t]
LayersOf(x) == IF x.l = 0 THEN 1 .. Layers ELSE {x.l}

(* do_recv of `payload` into the blocks of iteration rb, layers ls: the   *)
(* copy raises when the payload holds a different number of blocks.  A     *)
(* written value records the source position, worker, slice and layer.    *)
Fits(payload, rb) == \A x \in payload : Off(x.j) = Off(rb)
Recv(g, payload, rb, ls) ==
  [p \in DOMAIN g |->
     IF p \notin Range(rb) THEN g[p]
     ELSE [l \in 1 .. Layers |->
             IF l \notin ls THEN g[p][l]
             ELSE {<<p - Start(rb) + Start(x.j), x.s, x.c,
                     IF x.l = 0 THEN l ELSE x.l>> : x \in payload}]]

Idle == [pc |-> "idle", c |-> 0, cs |-> 1, meta |-> FALSE, l |-> 0,
         res |-> {}, bar |-> 0, gen |-> 0]

(* A do_send call issued by dst worker d at iteration j to src worker s.   *)
NewCall(c, cs, meta) ==
  [Idle EXCEPT !.pc = IF c = 0 THEN "create" ELSE "wait",
               !.c = c, !.cs = cs, !.meta = meta, !.l = 1]
Issue(d, j, c, cs) ==
  th' = [t \in DOMAIN th |->
           IF t[1] = d /\ t[3] = j /\ t[2] \in SrcOf(d)
           THEN NewCall(c, cs, SendMeta(j)) ELSE th[t]]

Finished(t) == th[t].pc \in {"done", "raised"}
CallsOf(d, j) == {<<d, s, j>> : s \in SrcOf(d)}

Init ==
  /\ \E g \in Stages : \E n \in 0 .. g.maxn, last \in LastModes, spmd \in SpmdModes :
       cfg = [backend |-> g.backend, n |-> n, last |-> last, spmd |-> spmd,
              stp |-> g.stp, dtp |-> g.dtp]
  /\ dw = [d \in W |-> [pc |-> "loop", j |-> 0, cache |-> {}, rb |-> Undef,
                        md |-> FALSE, l |-> 1]]
  /\ th = [t \in W \X W \X Iters |-> Idle]
  /\ ev = [s \in W |-> FALSE]
  /\ split = [s \in W |-> [j |-> Undef, l |-> 0]]
  /\ bars = [s \in W |-> <<>>]
  /\ cur = [s \in W |-> 0]
  /\ chan = [e \in W \X W |-> {}]
  /\ gpu = [d \in W |-> [p \in 1 .. MaxBlocks |-> [l \in 1 .. Layers |-> {}]]]
  /\ cache = [s \in W |-> TRUE]
  /\ mout = [s \in W |-> FALSE]
  /\ staged = [d \in W |-> FALSE]

-----------------------------------------------------------------------------
(***************************************************************************)
(* Destination side.                                                       *)
(***************************************************************************)
SetDw(d, f) == dw' = [dw EXCEPT ![d] = f]
SrcFields == <<cfg, ev, split, bars, cur, cache, mout>>
Raise(d) == dw' = [dw EXCEPT ![d].pc = "raised"]

(* Loop exit of the RayRpc loops: the trailing                             *)
(* `self.do_recv(rpc_numpy_cache, recv_blocks)`; recv_blocks is unbound    *)
(* when the loop never ran.  Then the staged metadata callback.            *)
RpcExit(d) ==
  LET f == dw[d] IN
  /\ Start(f.j) >= cfg.n
  /\ IF f.rb = Undef \/ ~Fits(f.cache, f.rb)
     THEN Raise(d) /\ UNCHANGED <<gpu, staged>>
     ELSE /\ gpu' = [gpu EXCEPT ![d] = Recv(gpu[d], f.cache, f.rb, 1 .. Layers)]
          /\ staged' = [staged EXCEPT ![d] = staged[d] \/ f.md]
          /\ SetDw(d, [f EXCEPT !.pc = "done"])
  /\ UNCHANGED <<th, chan>>

(* RayRpcMigrationBackend.migrate_cache, loop body up to ray.get: issue    *)
(* do_send for this iteration, receive the previous one, then advance      *)
(* recv_blocks.                                                            *)
RpcLoop(d) ==
  LET f == dw[d] IN
  /\ cfg.backend = "rayrpc" /\ AddTp /\ f.pc = "loop"
  /\ \/ /\ Start(f.j) < cfg.n
        /\ Issue(d, f.j, RankOf(d), CallChunk)
        /\ IF f.cache # {} /\ ~Fits(f.cache, f.rb)
           THEN Raise(d) /\ UNCHANGED gpu
           ELSE /\ gpu' = IF f.cache = {} THEN gpu
                          ELSE [gpu EXCEPT ![d] = Recv(gpu[d], f.cache, f.rb, 1 .. Layers)]
                /\ SetDw(d, [f EXCEPT !.rb = f.j, !.pc = "get"])
        /\ UNCHANGED <<staged, chan>>
     \/ RpcExit(d)
  /\ UNCHANGED SrcFields

(* ray.get(ray_obj): the payload (and metadata) of this iteration.         *)
RpcGet(d) ==
  LET f == dw[d]  t == <<d, CHOOSE s \in SrcOf(d) : TRUE, f.j>> IN
  /\ cfg.backend = "rayrpc" /\ AddTp /\ f.pc = "get" /\ Finished(t)
  /\ IF th[t].pc = "raised" THEN Raise(d)
     ELSE SetDw(d, [f EXCEPT !.cache = th[t].res, !.md = f.md \/ th[t].meta,
                             !.j = f.j + 1, !.pc = "loop"])
  /\ UNCHANGED <<th, chan, gpu, staged>> /\ UNCHANGED SrcFields

(* RayRpcMigrationBackend.migrate_cache_subtract_tp, loop head.            *)
RpcSubLoop(d) ==
  LET f == dw[d] IN
  /\ cfg.backend = "rayrpc" /\ ~AddTp /\ dw[d].pc = "loop"
  /\ \/ /\ Start(f.j) < cfg.n
        /\ Issue(d, f.j, 0, 1)
        /\ SetDw(d, [f EXCEPT !.pc = "get"])
        /\ UNCHANGED <<gpu, staged, chan>>
     \/ RpcExit(d)
  /\ UNCHANGED SrcFields

(* ray.get(tasks), receive the previous iteration, advance recv_blocks,    *)
(* then `ray_objs[:,0]` on the list of results when metadata is sent.      *)
RpcSubGet(d) ==
  LET f == dw[d] IN
  /\ cfg.backend = "rayrpc" /\ ~AddTp /\ f.pc = "get"
  /\ \A t \in CallsOf(d, f.j) : Finished(t)
  /\ IF \/ \E t \in CallsOf(d, f.j) : th[t].pc = "raised"
        \/ f.cache # {} /\ ~Fits(f.cache, f.rb)
     THEN Raise(d) /\ UNCHANGED gpu
     ELSE /\ gpu' = IF f.cache = {} THEN gpu
                    ELSE [gpu EXCEPT ![d] = Recv(gpu[d], f.cache, f.rb, 1 .. Layers)]
          /\ IF SendMeta(f.j) THEN Raise(d)
             ELSE SetDw(d, [f EXCEPT !.rb = f.j, !.j = f.j + 1, !.pc = "loop",
                            !.cache = UNION {th[t].res : t \in CallsOf(d, f.j)}])
  /\ UNCHANGED <<th, chan, staged>> /\ UNCHANGED SrcFields

(* RayColMigrationBackend.migrate_cache / _subtract_tp, loop head: issue   *)
(* the do_send call(s), then do_recv; on exit stage the metadata.          *)
ColLoop(d) ==
  LET f == dw[d] IN
  /\ cfg.backend = "raycol" /\ f.pc = "loop"
  /\ IF Start(f.j) < cfg.n
     THEN /\ Issue(d, f.j, RankOf(d), CallChunk)
          /\ SetDw(d, [f EXCEPT !.l = 1, !.pc = "recv"])
          /\ UNCHANGED staged
     ELSE /\ staged' = [staged EXCEPT ![d] = staged[d] \/ f.md]
          /\ SetDw(d, [f EXCEPT !.pc = "done"])
          /\ UNCHANGED th
  /\ UNCHANGED <<gpu, chan>> /\ UNCHANGED SrcFields

(* RayColMigrationBackend.do_recv, one layer: col.recv from every source  *)
(* (one thread each when fanning in), concatenated, copied to the GPU.     *)
ColRecv(d) ==
  LET f == dw[d]
      got == UNION {chan[<<s, d>>] : s \in SrcOf(d)} IN
  /\ cfg.backend = "raycol" /\ f.pc = "recv"
  /\ \A s \in SrcOf(d) : chan[<<s, d>>] # {}
  /\ chan' = [e \in DOMAIN chan |-> IF e[2] = d THEN {} ELSE chan[e]]
  /\ th' = [t \in DOMAIN th |->
             IF \E x \in got : x.from = t THEN [th[t] EXCEPT !.pc = "arrive"]
             ELSE th[t]]
  /\ IF ~Fits(got, f.j)
     THEN Raise(d) /\ UNCHANGED gpu
     ELSE /\ gpu' = [gpu EXCEPT ![d] = Recv(gpu[d], got, f.j, {f.l})]
          /\ SetDw(d, IF f.l < Layers THEN [f EXCEPT !.l = f.l + 1]
                      ELSE IF SendMeta(f.j) THEN [f EXCEPT !.pc = "get"]
                      ELSE [f EXCEPT !.j = f.j + 1, !.pc = "loop"])
  /\ UNCHANGED staged /\ UNCHANGED SrcFields

(* `if send_worker_metadata: ray.get(...)`; fanning in it indexes the list *)
(* of results with `ray_objs[:,0]`.                                        *)
ColGet(d) ==
  LET f == dw[d] IN
  /\ cfg.backend = "raycol" /\ f.pc = "get"
  /\ \A t \in CallsOf(d, f.j) : Finished(t)
  /\ IF (\E t \in CallsOf(d, f.j) : th[t].pc = "raised") \/ ~AddTp
     THEN Raise(d)
     ELSE SetDw(d, [f EXCEPT !.md = TRUE, !.j = f.j + 1, !.pc = "loop"])
  /\ UNCHANGED <<th, chan, gpu, staged>> /\ UNCHANGED SrcFields

-----------------------------------------------------------------------------
(***************************************************************************)
(* Source side: one do_send call t = <<d, s, j>> on a thread of worker s.  *)
(* Rank 0 creates the per-call barrier actor, copies and splits the        *)
(* blocks and sets the event; the other ranks wait on the event; every     *)
(* rank publishes its slice and arrives at the barrier; rank 0 clears the  *)
(* event.  RayCol repeats the split..clear part per layer.                 *)
(***************************************************************************)
SetTh(t, f) == th' = [th EXCEPT ![t] = f]
DstFields == <<cfg, dw, gpu, staged>>
Publish == IF cfg.backend = "rayrpc" THEN "arrive" ELSE "send"

(* Mutant: the field is pointed at a new actor that is never created.     *)
CreateNoActor(t) ==
  LET s == t[2] IN
  /\ th[t].pc = "create"
  /\ cur' = [cur EXCEPT ![s] = Len(bars[s]) + 1]
  /\ SetTh(t, [th[t] EXCEPT !.pc = "split"])
  /\ UNCHANGED <<bars, ev, split, chan, cache, mout>> /\ UNCHANGED DstFields

(* self.barrier_actor = BarrierActor.options().remote(chunk_size)          *)
Create(t) ==
  LET s == t[2] IN
  /\ th[t].pc = "create"
  /\ bars' = [bars EXCEPT ![s] = Append(@, [cnt |-> 0, gen |-> 0, size |-> th[t].cs])]
  /\ cur' = [cur EXCEPT ![s] = Len(bars[s]) + 1]
  /\ SetTh(t, [th[t] EXCEPT !.pc = "split"])
  /\ UNCHANGED <<ev, split, chan, cache, mout>> /\ UNCHANGED DstFields

(* Rank 0: swap_blocks into the staging buffer, torch.chunk, and          *)
(* `if chunk_size > 1: self.wait_for_split_event.set()`.                   *)
Split(t) ==
  LET s == t[2] IN
  /\ th[t].pc = "split"
  /\ split' = [split EXCEPT ![s] = [j |-> t[3],
                                    l |-> IF cfg.backend = "rayrpc" THEN 0 ELSE th[t].l]]
  /\ ev' = IF th[t].cs > 1 THEN [ev EXCEPT ![s] = TRUE] ELSE ev
  /\ SetTh(t, [th[t] EXCEPT !.pc = Publish])
  /\ UNCHANGED <<bars, cur, chan, cache, mout>> /\ UNCHANGED DstFields

(* Other ranks: self.wait_for_split_event.wait()                           *)
Wait(t) ==
  /\ th[t].pc = "wait" /\ ev[t[2]]
  /\ SetTh(t, [th[t] EXCEPT !.pc = Publish])
  /\ UNCHANGED <<ev, split, bars, cur, chan, cache, mout>> /\ UNCHANGED DstFields

(* RayCol: col.send(self.send_cache_split[chunk_rank], ...); the thread    *)
(* blocks until the destination receives it (ColRecv releases it).         *)
Send(t) ==
  LET s == t[2]  d == t[1] IN
  /\ th[t].pc = "send" /\ chan[<<s, d>>] = {}
  /\ chan' = [chan EXCEPT ![<<s, d>>] = {Posted(s, th[t].c, t)}]
  /\ SetTh(t, [th[t] EXCEPT !.pc = "sent"])
  /\ UNCHANGED <<ev, split, bars, cur, cache, mout>> /\ UNCHANGED DstFields

(* ray.get(self.barrier_actor.arrive.remote()) on the actor the field      *)
(* holds at that moment; the actor releases its waiters once `size`       *)
(* arrivals are in.                                                        *)
Arrive(t) ==
  LET s == t[2]  b == cur[s]  B == bars[s][b] IN
  /\ th[t].pc = "arrive" /\ b # 0
  /\ bars' = [bars EXCEPT ![s][b] =
                IF B.cnt + 1 = B.size THEN [B EXCEPT !.cnt = 0, !.gen = B.gen + 1]
                ELSE [B EXCEPT !.cnt = B.cnt + 1]]
  /\ SetTh(t, [th[t] EXCEPT !.bar = b, !.gen = B.gen, !.pc = "await"])
  /\ UNCHANGED <<ev, split, cur, chan, cache, mout>> /\ UNCHANGED DstFields

(* After the barrier: RayCol goes on with the next layer, RayRpc returns.  *)
Resume(f) ==
  IF cfg.backend = "raycol" /\ f.l < Layers
  THEN [f EXCEPT !.l = f.l + 1, !.pc = IF f.c = 0 THEN "split" ELSE "wait"]
  ELSE [f EXCEPT !.pc = "ret"]

Await(t) ==
  LET f == th[t] IN
  /\ f.pc = "await" /\ bars[t[2]][f.bar].gen > f.gen
  /\ SetTh(t, IF f.c = 0 /\ f.cs > 1 THEN [f EXCEPT !.pc = "clear"] ELSE Resume(f))
  /\ UNCHANGED <<ev, split, bars, cur, chan, cache, mout>> /\ UNCHANGED DstFields

(* `if chunk_rank == 0 and chunk_size > 1: self.wait_for_split_event.clear()` *)
Clear(t) ==
  /\ th[t].pc = "clear"
  /\ ev' = [ev EXCEPT ![t[2]] = FALSE]
  /\ SetTh(t, Resume(th[t]))
  /\ UNCHANGED <<split, bars, cur, chan, cache, mout>> /\ UNCHANGED DstFields

(* Mutant: RayRpc do_send returns slice 0 whatever its chunk_rank.        *)
RetSliceZero(t) ==
  LET s == t[2]  f == th[t]
      res == IF cfg.backend = "rayrpc" THEN {Piece(s, 0)} ELSE {} IN
  /\ f.pc = "ret"
  /\ IF f.meta /\ ~cache[s]
     THEN SetTh(t, [f EXCEPT !.pc = "raised"]) /\ UNCHANGED <<cache, mout>>
     ELSE /\ SetTh(t, [f EXCEPT !.res = res, !.pc = "done"])
          /\ cache' = IF f.meta THEN [cache EXCEPT ![s] = FALSE] ELSE cache
          /\ mout' = IF f.meta THEN [mout EXCEPT ![s] = TRUE] ELSE mout
  /\ UNCHANGED <<ev, split, bars, cur, chan>> /\ UNCHANGED DstFields

(* Return of do_send (RayRpc: the slice of self.send_cache_split read now) *)
(* and MigrationWorker.do_send's _get_seq_group_metadata, which asserts    *)
(* the request is in the cache and moves it to migrating_out.              *)
Ret(t) ==
  LET s == t[2]  f == th[t]
      res == IF cfg.backend = "rayrpc" THEN {Piece(s, f.c)} ELSE {} IN
  /\ f.pc = "ret"
  /\ IF f.meta /\ ~cache[s]
     THEN SetTh(t, [f EXCEPT !.pc = "raised"]) /\ UNCHANGED <<cache, mout>>
     ELSE /\ SetTh(t, [f EXCEPT !.res = res, !.pc = "done"])
          /\ cache' = IF f.meta THEN [cache EXCEPT ![s] = FALSE] ELSE cache
          /\ mout' = IF f.meta THEN [mout EXCEPT ![s] = TRUE] ELSE mout
  /\ UNCHANGED <<ev, split, bars, cur, chan>> /\ UNCHANGED DstFields

-----------------------------------------------------------------------------
Threads == {t \in DOMAIN th : t[1] \in DW /\ t[2] \in SW}
Terminated == \A d \in DW : dw[d].pc \in {"done", "raised"}

Next ==
  \/ \E d \in DW : RpcLoop(d)
  \/ \E d \in DW : RpcGet(d)
  \/ \E d \in DW : RpcSubLoop(d)
  \/ \E d \in DW : RpcSubGet(d)
  \/ \E d \in DW : ColLoop(d)
  \/ \E d \in DW : ColRecv(d)
  \/ \E d \in DW : ColGet(d)
  \/ \E t \in Threads : Create(t)
  \/ \E t \in Threads : Split(t)
  \/ \E t \in Threads : Wait(t)
  \/ \E t \in Threads : Send(t)
  \/ \E t \in Threads : Arrive(t)
  \/ \E t \in Threads : Await(t)
  \/ \E t \in Threads : Clear(t)
  \/ \E t \in Threads : Ret(t)
  \/ Terminated /\ UNCHANGED vars

(* Every do_send thread runs on its ProxyActor and every ray.get returns   *)
(* once its task finished: a step that can happen eventually happens.      *)
Spec == Init /\ [][Next]_vars /\ WF_vars(Next)

-----------------------------------------------------------------------------
TypeOK ==
  /\ dw \in [W -> [pc : {"loop", "get", "recv", "done", "raised"}, j : Iters,
                    cache : SUBSET [j : Iters \cup {Undef}, l : 0 .. Layers, s : W, c : W],
                    rb : Iters \cup {Undef}, md : BOOLEAN, l : 1 .. Layers]]
  /\ ev \in [W -> BOOLEAN] /\ cache \in [W -> BOOLEAN]
  /\ mout \in [W -> BOOLEAN] /\ staged \in [W -> BOOLEAN]
  /\ \A s \in W : cur[s] \in 0 .. Len(bars[s])

(* What a destination worker must hold after the stage: at every position *)
(* and layer, the heads slice(s) of the same source position that its     *)
(* chunk geometry assigns to it (spec 4.1/4.2: fan-out sends slice         *)
(* chunk_rank, fan-in concatenates all source slices).                     *)
Want(d, p, l) == {<<p, s, RankOf(d), l>> : s \in SrcOf(d)}

(* A destination worker whose migrate_cache returned normally holds, for   *)
(* every block of the stage and every layer, exactly the data of the       *)
(* matching source block and heads slice: the pipelined receive of the     *)
(* previous iteration and the do_send split/event/barrier protocol never   *)
(* deliver another iteration's or another layer's data.                    *)
TransferDelivers ==
  \A d \in DW : dw[d].pc = "done" =>
     \A p \in 1 .. cfg.n, l \in 1 .. Layers : gpu[d][p][l] = Want(d, p, l)

(* Spec 4.1 and 8: a stage between live peers completes on every           *)
(* destination worker (a stage of 0 blocks included, as a no-op), and a    *)
(* last stage of SPMD workers leaves the request's metadata staged in      *)
(* migrating_in_seq_group_metadata (the commit asserts it is there).       *)
StageSucceeds ==
  \A d \in DW : /\ dw[d].pc # "raised"
                /\ dw[d].pc = "done" /\ cfg.last /\ cfg.spmd => staged[d]

====
