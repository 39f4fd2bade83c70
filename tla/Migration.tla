------------------------------ MODULE Migration ------------------------------
(***************************************************************************)
(* Live migration of running requests from a source instance to a          *)
(* destination instance.  Each instance is a BackendVLLM                   *)
(* (backends/vllm/llm_engine.py) whose asyncio step loop drains the        *)
(* step-boundary removal queue and then runs one engine step; with async   *)
(* output processing the outputs of a step are processed during the next  *)
(* one, and _process_model_outputs sets the queued output-proc events.     *)
(* The migration driver (spec section 4.5; its code is not in this         *)
(* repository) runs as another coroutine of the source's event loop: it    *)
(* sends stages, takes the request off the running queue at a step         *)
(* boundary for the last stage, and commits it on the destination.         *)
(*                                                                         *)
(* Data is abstracted: a request's KV cache is its block count, one block  *)
(* per token after a one-block prompt; a token is its position.  The      *)
(* vLLM step itself (outside the repository) is abstracted to: schedule    *)
(* the running queue, process the outputs of the previous batch (skipping  *)
(* requests already finished), remove finished requests.  With SPMD      *)
(* workers, each instance's worker keeps the sequence-group metadata of    *)
(* its running requests (backends/vllm/worker.py); the last stage carries  *)
(* the request's metadata along.  Engine crashes are not modelled here.    *)
(***************************************************************************)
EXTENDS Naturals, Sequences, FiniteSets

CONSTANTS
  Reqs,                \* requests running on the source at the start
  MaxTok,              \* a request finishes with its MaxTok-th token
  Blocking,            \* requests with blocking_migration set
  LastStageMaxBlocks,  \* migration_last_stage_max_blocks
  DstBlockModes,       \* free blocks the destination may have
  MaxAttempts,         \* bound on migrations the driver starts
  AsyncModes,          \* values of ~disable_async_output_proc
  SpmdWorker           \* use_ray_spmd_worker

ASSUME LastStageMaxBlocks >= 1

Inst == {"src", "dst"}

VARIABLES
  asyncOut,  \* ~disable_async_output_proc (llm_engine.py 371-377)
  cap,       \* free blocks of the destination when migration starts
  epc,       \* position of _start_engine_step_loop: "top" or "step"
  q,         \* the scheduler's running queue of each instance
  tok,       \* tokens appended to each instance's copy of a request
  pend,      \* the batch of the last step whose outputs are unprocessed
  out,       \* request outputs put to the server: <<position, instance>>
  rmq,       \* _step_done_event_queue of each instance
  ret,       \* _remove_running_request_ret
  outq,      \* the driver's event is in _output_proc_done_event_queue
  status,    \* "RUNNING" or "RUNNING_MIGRATING"
  mlast,     \* the source's migrating-out last-stage requests
  pa,        \* blocks the destination pre-allocated for the driver's request
  used,      \* destination blocks of committed requests
  moved,     \* requests committed on the destination
  drv,       \* the migration driver
  tries,     \* migrations started
  chan,      \* instance -> batches put to the server, not yet taken by the client
  open,      \* requests with a stream in the client's request_streams
  last,      \* request_streams_last_completion_tokens (0 when absent)
  wcache,    \* instance -> requests in its worker's _seq_group_metadata_cache
  wmout,     \* the source worker's migrating_out_seq_group_metadata
  wmin,      \* the destination worker's migrating_in_seq_group_metadata
  popq       \* pop_migrating_out_seq_group_metadata tasks not yet run

vars == <<asyncOut, cap, epc, q, tok, pend, out, rmq, ret, outq, status, mlast,
          pa, used, moved, drv, tries, chan, open, last, wcache, wmout, wmin, popq>>
cvars == <<chan, open, last>>
wvars == <<wcache, wmout, wmin, popq>>

NBlocks(t) == 1 + t
(* Mutant: the free count forgets the blocks pre-allocated in flight.      *)
FreeIgnoringReserved == cap - used
Free == cap - used - pa
Idle == [pc |-> "idle", r |-> CHOOSE r \in Reqs : TRUE, pre |-> 0, n |-> 0,
         found |-> FALSE]

Init ==
  /\ asyncOut \in AsyncModes
  /\ cap \in DstBlockModes
  /\ epc = [i \in Inst |-> "top"]
  /\ q = [i \in Inst |-> IF i = "src" THEN Reqs ELSE {}]
  /\ tok = [i \in Inst |-> [r \in Reqs |-> 0]]
  \* the requests were scheduled by the step before: with async output
  \* processing that batch's outputs are still to be processed
  /\ pend = [i \in Inst |-> IF i = "src" /\ asyncOut THEN Reqs ELSE {}]
  /\ out = [r \in Reqs |-> <<>>]
  /\ rmq = [i \in Inst |-> {}]
  /\ ret = [r \in Reqs |-> FALSE]
  /\ outq = FALSE
  /\ status = [r \in Reqs |-> "RUNNING"]
  /\ mlast = {}
  /\ pa = 0
  /\ used = 0
  /\ moved = {}
  /\ drv = Idle
  /\ tries = 0
  /\ chan = [i \in Inst |-> <<>>]
  /\ open = Reqs
  /\ last = [r \in Reqs |-> 0]
  \* the running requests were scheduled before: their metadata is cached
  /\ wcache = [i \in Inst |-> IF i = "src" /\ SpmdWorker THEN Reqs ELSE {}]
  /\ wmout = {} /\ wmin = {} /\ popq = {}

-----------------------------------------------------------------------------
(***************************************************************************)
(* The engine step loop of instance i.                                     *)
(***************************************************************************)

(* Mutant: the drain removes the requests but sets no step_done_event.     *)
DrainNoWake(i) ==
  /\ epc[i] = "top"
  /\ ret' = [r \in Reqs |-> IF r \in rmq[i] THEN r \in q[i] ELSE ret[r]]
  /\ q' = [q EXCEPT ![i] = @ \ rmq[i]]
  /\ rmq' = [rmq EXCEPT ![i] = {}]
  /\ epc' = [epc EXCEPT ![i] = "step"]
  /\ UNCHANGED <<asyncOut, cap, tok, pend, out, outq, status, mlast, pa, used,
                 moved, tries, drv>>
  /\ UNCHANGED <<cvars, wvars>>

(* Lines 393-397: remove each queued request from the running queue, keep  *)
(* the result, set its step_done_event, then yield.                        *)
Drain(i) ==
  /\ epc[i] = "top"
  /\ ret' = [r \in Reqs |-> IF r \in rmq[i] THEN r \in q[i] ELSE ret[r]]
  /\ q' = [q EXCEPT ![i] = @ \ rmq[i]]
  /\ rmq' = [rmq EXCEPT ![i] = {}]
  /\ drv' = IF i = "src" /\ drv.pc = "rm_wait" /\ drv.r \in rmq[i]
            THEN [drv EXCEPT !.pc = "rm_woken"] ELSE drv
  /\ epc' = [epc EXCEPT ![i] = "step"]
  /\ UNCHANGED <<asyncOut, cap, tok, pend, out, outq, status, mlast, pa, used,
                 moved, tries>>
  /\ UNCHANGED <<cvars, wvars>>

(* Lines 398-401 with step_async (283-287), _process_model_outputs         *)
(* (176-231) and _process_request_outputs (233-281): the batch is the      *)
(* running queue; the outputs processed are the previous batch's (async)   *)
(* or this batch's (sync); each appends a token and is put to the server;  *)
(* a request reaching MaxTok leaves the running queue; with async output   *)
(* processing and a non-empty output queue the queued events are set.      *)
(* A non-empty batch of outputs is put to put_queue_args_queue (276-277);  *)
(* the put-queue thread and the instance's AsyncPutQueueActor forward the  *)
(* batches in order to the server's queue (310-328): chan[i].              *)
(* The waiting driver runs before this step (asyncio runs the woken        *)
(* driver before the loop's sleep(0) returns).                             *)
Step(i) ==
  LET batch == q[i]
      proc  == IF asyncOut THEN pend[i] ELSE batch
      gen   == {r \in proc : tok[i][r] < MaxTok}
      tok1  == [r \in Reqs |-> IF r \in gen THEN tok[i][r] + 1 ELSE tok[i][r]]
  IN
  /\ epc[i] = "step"
  /\ drv.pc # "rm_woken"
  /\ tok' = [tok EXCEPT ![i] = tok1]
  /\ out' = [r \in Reqs |-> IF r \in gen THEN Append(out[r], <<tok1[r], i>>)
                            ELSE out[r]]
  /\ q' = [q EXCEPT ![i] = {r \in @ : tok1[r] < MaxTok}]
  /\ pend' = [pend EXCEPT ![i] = IF asyncOut THEN batch ELSE {}]
  /\ chan' = IF gen = {} THEN chan
             ELSE [chan EXCEPT ![i] = Append(@, {<<r, tok1[r]>> : r \in gen})]
  /\ IF i = "src" /\ asyncOut /\ proc # {} /\ outq
     THEN outq' = FALSE /\ drv' = [drv EXCEPT !.pc = "last"]
     ELSE UNCHANGED <<outq, drv>>
  /\ epc' = [epc EXCEPT ![i] = "top"]
  /\ UNCHANGED <<asyncOut, cap, rmq, ret, status, mlast, pa, used, moved, tries,
                 open, last>>
  /\ UNCHANGED wvars

-----------------------------------------------------------------------------
(***************************************************************************)
(* The migration driver on the source (spec section 4.5).                  *)
(***************************************************************************)

(* ABORTED_SRC / ABORTED_DST: the request's status is reset and the        *)
(* destination frees the pre-allocation (free_dst_pre_alloc_cache with the *)
(* request id, lines 541-547).                                             *)
Abort ==
  /\ status' = [status EXCEPT ![drv.r] = "RUNNING"]
  /\ pa' = 0
  /\ drv' = Idle

(* is_last_stage of get_request_incremental_blocks, line 485.             *)
IsLastStage(r, incr) == incr <= LastStageMaxBlocks \/ r \in Blocking

(* Mutant: the last stage is sent without remove_running_request.         *)
StageFromNoRemove(r, pre) ==
  LET incr == NBlocks(tok["src"][r]) - pre IN
  IF IsLastStage(r, incr)
  THEN /\ drv' = [pc |-> "last", r |-> r, pre |-> pre, n |-> incr, found |-> TRUE]
       /\ UNCHANGED <<pa, rmq>>
  ELSE /\ Free >= incr
       /\ pa' = pa + incr
       /\ drv' = [pc |-> "send", r |-> r, pre |-> pre, n |-> incr,
                  found |-> FALSE]
       /\ UNCHANGED rmq

(* One stage up to its first await: get_request_incremental_blocks         *)
(* (482-486) gives the blocks and whether this is the last stage.  A      *)
(* non-last stage pre-allocates on the destination and sends; the last    *)
(* stage first asks for the request's removal at the step boundary        *)
(* (489-492).                                                              *)
StageFrom(r, pre) ==
  LET incr == NBlocks(tok["src"][r]) - pre IN
  IF IsLastStage(r, incr)
  THEN /\ rmq' = [rmq EXCEPT !["src"] = @ \cup {r}]
       /\ drv' = [pc |-> "rm_wait", r |-> r, pre |-> pre, n |-> incr,
                  found |-> FALSE]
       /\ UNCHANGED pa
  ELSE /\ Free >= incr
       /\ pa' = pa + incr
       /\ drv' = [pc |-> "send", r |-> r, pre |-> pre, n |-> incr,
                  found |-> FALSE]
       /\ UNCHANGED rmq

(* A stage the destination cannot pre-allocate: ABORTED_DST.               *)
StageRefused(r, pre) ==
  /\ ~IsLastStage(r, NBlocks(tok["src"][r]) - pre)
  /\ Free < NBlocks(tok["src"][r]) - pre
  /\ status' = [status EXCEPT ![r] = "RUNNING"]
  /\ pa' = 0
  /\ UNCHANGED rmq

(* Select a running request, mark it RUNNING_MIGRATING, run its first      *)
(* stage.                                                                  *)
Select(r) ==
  /\ drv.pc = "idle" /\ tries < MaxAttempts
  /\ r \in q["src"] /\ status[r] = "RUNNING"
  /\ tries' = tries + 1
  /\ \/ /\ StageFrom(r, 0)
        /\ status' = [status EXCEPT ![r] = "RUNNING_MIGRATING"]
     \/ /\ StageRefused(r, 0)
        /\ drv' = Idle
  /\ UNCHANGED <<asyncOut, cap, epc, q, tok, pend, out, ret, outq, mlast, used,
                 moved>>
  /\ UNCHANGED <<cvars, wvars>>

(* send_blocks of a non-last stage returns; should_abort_migration (the    *)
(* request finished) aborts, otherwise the next stage starts at once.      *)
SendDone ==
  LET r == drv.r  pre == drv.pre + drv.n IN
  /\ drv.pc = "send"
  /\ \/ r \notin q["src"] /\ Abort /\ UNCHANGED rmq
     \/ /\ r \in q["src"]
        /\ \/ StageFrom(r, pre) /\ UNCHANGED status
           \/ StageRefused(r, pre) /\ drv' = Idle
  /\ UNCHANGED <<asyncOut, cap, epc, q, tok, pend, out, ret, outq, mlast, used,
                 moved, tries>>
  /\ UNCHANGED <<cvars, wvars>>

(* Mutant: the removal returns without waiting for the output processing. *)
RmResumeNoOutputWait ==
  /\ drv.pc = "rm_woken"
  /\ drv' = [drv EXCEPT !.found = ret[drv.r], !.pc = "last"]
  /\ outq' = FALSE
  /\ UNCHANGED <<asyncOut, cap, epc, q, tok, pend, out, rmq, ret, status, mlast,
                 pa, used, moved, tries>>
  /\ UNCHANGED <<cvars, wvars>>

(* remove_running_request after its step_done_event (493-498): pop the     *)
(* result; with async output processing queue an output-proc event and     *)
(* wait for it.                                                            *)
RmResume ==
  /\ drv.pc = "rm_woken"
  /\ drv' = [drv EXCEPT !.found = ret[drv.r],
                        !.pc = IF asyncOut THEN "out_wait" ELSE "last"]
  /\ outq' = asyncOut
  /\ UNCHANGED <<asyncOut, cap, epc, q, tok, pend, out, rmq, ret, status, mlast,
                 pa, used, moved, tries>>
  /\ UNCHANGED <<cvars, wvars>>

(* The last stage's do_send with send_worker_metadata (worker.py 176-190, *)
(* 187-189): the source worker pops the request's metadata from its cache *)
(* into migrating_out_seq_group_metadata, and the destination worker      *)
(* stages it in migrating_in_seq_group_metadata.  Only running requests   *)
(* have worker metadata.                                                  *)
SendMetadata(r) ==
  IF SpmdWorker /\ status[r] = "RUNNING_MIGRATING"
  THEN /\ wcache' = [wcache EXCEPT !["src"] = @ \ {r}]
       /\ wmout' = wmout \cup {r}
       /\ wmin' = wmin \cup {r}
       /\ UNCHANGED popq
  ELSE UNCHANGED wvars

(* Mutant: commit_seq_group_metadata is started as a task, not awaited.   *)
CommitMetadataNoAwait(r) == UNCHANGED <<wcache, wmin>>

(* commit_dst_request awaits commit_seq_group_metadata (424-425; worker.py *)
(* 192-195) before add_running_request: the staged metadata moves into    *)
(* the destination worker's cache.                                        *)
CommitMetadata(r) ==
  IF SpmdWorker /\ status[r] = "RUNNING_MIGRATING"
  THEN /\ wcache' = [wcache EXCEPT !["dst"] = @ \cup {r}]
       /\ wmin' = wmin \ {r}
  ELSE UNCHANGED <<wcache, wmin>>

(* Mutant: the pop checks the status after it was reset to RUNNING.       *)
PopLastStageAfterReset(r) == UNCHANGED <<popq, wmout>>

(* pop_migrating_out_request_last_stage (509-516): the source object is    *)
(* still RUNNING_MIGRATING, so the worker pop is started as a task the     *)
(* driver does not await.                                                  *)
PopLastStage(r) ==
  IF SpmdWorker /\ status[r] = "RUNNING_MIGRATING"
  THEN popq' = popq \cup {r} /\ UNCHANGED wmout
  ELSE UNCHANGED <<popq, wmout>>

(* The pop task runs on the source worker                                 *)
(* (pop_migrating_out_seq_group_metadata, worker.py 201-204).             *)
WorkerPop(r) ==
  /\ r \in popq
  /\ popq' = popq \ {r}
  /\ wmout' = wmout \ {r}
  /\ UNCHANGED <<asyncOut, cap, epc, q, tok, pend, out, rmq, ret, outq, status,
                 mlast, pa, used, moved, drv, tries, wcache, wmin>>
  /\ UNCHANGED cvars

(* Mutant: a refused last stage aborts without add_running_request.       *)
ReinstateSkipped(r) == UNCHANGED q

(* add_running_request: the request goes back on the source's running     *)
(* queue.                                                                  *)
Reinstate(r) == q' = [q EXCEPT !["src"] = @ \cup {r}]

(* Last stage (spec 4.5 steps 5-6): the destination pre-allocates; a       *)
(* request that finished meanwhile aborts (ABORTED_SRC); a refused         *)
(* pre-allocation puts the request back on the running queue               *)
(* (add_running_request, 532-533) and aborts; otherwise it is recorded as  *)
(* migrating out at the last stage (506-507) and sent.                     *)
Last ==
  LET r == drv.r IN
  /\ drv.pc = "last"
  /\ \/ ~drv.found /\ Abort /\ UNCHANGED <<q, mlast, wvars>>
     \/ /\ drv.found /\ Free < drv.n
        /\ Reinstate(r)
        /\ Abort /\ UNCHANGED <<mlast, wvars>>
     \/ /\ drv.found /\ Free >= drv.n
        /\ pa' = pa + drv.n
        /\ mlast' = mlast \cup {r}
        /\ drv' = [drv EXCEPT !.pc = "commit"]
        /\ SendMetadata(r)
        /\ UNCHANGED <<q, status>>
  /\ UNCHANGED <<asyncOut, cap, epc, tok, pend, out, rmq, ret, outq, used, moved,
                 tries>>
  /\ UNCHANGED cvars

(* The last send returns; commit_dst_request (423-443) installs the        *)
(* pre-allocated blocks and adds the request, with the tokens its object   *)
(* carries, to the destination's running queue; the source then frees it   *)
(* (free_src_request, 549-550) and pops it from the last-stage set         *)
(* (pop_migrating_out_request_last_stage, 509-516).                        *)
Commit ==
  LET r == drv.r IN
  /\ drv.pc = "commit"
  /\ q' = [q EXCEPT !["dst"] = @ \cup {r}]
  /\ tok' = [tok EXCEPT !["dst"][r] = tok["src"][r]]
  /\ used' = used + pa
  /\ pa' = 0
  /\ status' = [status EXCEPT ![r] = "RUNNING"]
  /\ moved' = moved \cup {r}
  /\ mlast' = mlast \ {r}
  /\ drv' = Idle
  /\ CommitMetadata(r)
  /\ PopLastStage(r)
  /\ UNCHANGED <<asyncOut, cap, epc, pend, out, rmq, ret, outq, tries>>
  /\ UNCHANGED cvars

-----------------------------------------------------------------------------
(***************************************************************************)
(* The API server's client (entrypoints/vllm/client.py).  An output is     *)
(* <<request, completion tokens>>; its outputs[-1].token_ids are          *)
(* cumulative, so its count is its position, and it is the finished one    *)
(* when that is MaxTok.                                                    *)
(***************************************************************************)

(* process_output_order (150-181) behind the `request_id not in            *)
(* request_streams` skip (139-140): an output whose count is not above     *)
(* the last one accepted is out of order and dropped.                      *)
Accept(r, n) == r \in open /\ n > last[r]

(* get_request_outputs_loop (132-148): take the next batch from either     *)
(* instance; put every accepted output to its stream and record its      *)
(* count; a finished one finishes the stream, deletes it and pops the      *)
(* recorded count.                                                         *)
Get(i) ==
  LET b == Head(chan[i])
      acc == {x \in b : Accept(x[1], x[2])}
      fin == {x[1] : x \in {x \in acc : x[2] = MaxTok}} IN
  /\ chan[i] # <<>>
  /\ last' = [r \in Reqs |-> IF r \in fin THEN 0
                            ELSE IF \E x \in acc : x[1] = r
                                 THEN (CHOOSE x \in acc : x[1] = r)[2]
                                 ELSE last[r]]
  /\ open' = open \ fin
  /\ chan' = [chan EXCEPT ![i] = Tail(@)]
  /\ UNCHANGED <<asyncOut, cap, epc, q, tok, pend, out, rmq, ret, outq, status,
                 mlast, pa, used, moved, drv, tries>>
  /\ UNCHANGED wvars

-----------------------------------------------------------------------------
Next ==
  \/ \E i \in Inst : Drain(i)
  \/ \E i \in Inst : Step(i)
  \/ \E r \in Reqs : Select(r)
  \/ SendDone
  \/ RmResume
  \/ Last
  \/ Commit
  \/ \E i \in Inst : Get(i)
  \/ \E r \in Reqs : WorkerPop(r)

(* The step loop never blocks for long (it sleeps at most                  *)
(* NO_OUTPUTS_STEP_INTERVAL) and every await of the driver is answered;    *)
(* when the driver starts a migration is the manager's choice.  The put-   *)
(* queue thread and the client's output loop run forever.                  *)
Fairness ==
  /\ \A i \in Inst : WF_vars(Drain(i)) /\ WF_vars(Step(i))
  /\ WF_vars(SendDone) /\ WF_vars(RmResume) /\ WF_vars(Last) /\ WF_vars(Commit)
  /\ \A i \in Inst : WF_vars(Get(i))
  /\ \A r \in Reqs : WF_vars(WorkerPop(r))

Spec == Init /\ [][Next]_vars /\ Fairness

-----------------------------------------------------------------------------
Owner(r) == IF r \in moved THEN "dst" ELSE "src"

TypeOK ==
  /\ asyncOut \in BOOLEAN
  /\ epc \in [Inst -> {"top", "step"}]
  /\ q \in [Inst -> SUBSET Reqs] /\ pend \in [Inst -> SUBSET Reqs]
  /\ tok \in [Inst -> [Reqs -> 0 .. MaxTok]]
  /\ \A r \in Reqs : Len(out[r]) <= MaxTok
  /\ rmq \in [Inst -> SUBSET Reqs] /\ ret \in [Reqs -> BOOLEAN]
  /\ outq \in BOOLEAN
  /\ status \in [Reqs -> {"RUNNING", "RUNNING_MIGRATING"}]
  /\ mlast \subseteq Reqs /\ moved \subseteq Reqs
  /\ cap \in DstBlockModes /\ pa \in 0 .. cap /\ used \in 0 .. cap
  /\ drv.pc \in {"idle", "send", "rm_wait", "rm_woken", "out_wait", "last",
                 "commit"}
  /\ tries \in 0 .. MaxAttempts
  /\ chan \in [Inst -> Seq(SUBSET (Reqs \X (1 .. MaxTok)))]
  /\ open \subseteq Reqs /\ last \in [Reqs -> 0 .. MaxTok]
  /\ wcache \in [Inst -> SUBSET Reqs]
  /\ wmout \subseteq Reqs /\ wmin \subseteq Reqs /\ popq \subseteq Reqs

(* The client-visible promise of migration: under the mapping stream =     *)
(* what the engines put to the server, owner = where the request is        *)
(* committed, this module implements MigrationAbs.  It fails if the        *)
(* source emits a token of a request after the destination took it over,   *)
(* or the destination restarts from a stale token count (the removal at    *)
(* the step boundary and the output-proc wait, llm_engine.py 393-396 and   *)
(* 489-498, are what prevent both).                                        *)
Abs == INSTANCE MigrationAbs WITH stream <- out, owner <- [r \in Reqs |-> Owner(r)]
MigrationRefinesAbs == Abs!Spec

(* With disable_async_output_proc set, a migration the driver starts      *)
(* ends, committed or aborted: the step_done_event of                      *)
(* remove_running_request (489-492) is always set by the next drain.  With *)
(* async output processing it need not end: a request put back on the      *)
(* running queue by an aborted last stage and selected again before the    *)
(* source steps leaves no output to process, so _process_model_outputs     *)
(* returns at line 179 and the output-proc event (494-497) is never set.   *)
MigrationEnds == ~asyncOut => (drv.pc # "idle" ~> drv.pc = "idle")

(* Spec section 3: a request is in exactly one running queue of one        *)
(* instance, except while the driver holds it between the step-boundary    *)
(* removal (393-397) and the commit (423-443) or the add_running_request   *)
(* of a refused last stage (532-533).  It fails if an abort path forgets  *)
(* to put the removed request back, or a commit leaves it on the source.   *)
RequestPlaced ==
  \A r \in Reqs :
    /\ ~(r \in q["src"] /\ r \in q["dst"])
    /\ tok[Owner(r)][r] < MaxTok /\ ~(drv.pc # "idle" /\ drv.r = r)
         => r \in q[Owner(r)]

(* With disable_async_output_proc set, every request's stream in the API   *)
(* server is finished: the finishing output is generated on the request's  *)
(* owner, travels through that instance's put queue, and is not dropped as *)
(* out of order by process_output_order (client.py 169) although the two   *)
(* instances' outputs reach the client interleaved.                        *)
ClientFinishes == ~asyncOut => \A r \in Reqs : <>(r \notin open)

(* With SPMD workers the engine's next step sends every running request   *)
(* as a metadata delta that the worker applies to its cached metadata:     *)
(* every request on an instance's running queue has its metadata in that   *)
(* instance's worker cache.  This is why commit_dst_request (424-425)      *)
(* awaits commit_seq_group_metadata before add_running_request, and why   *)
(* the last stage's metadata leaves the source (worker.py 181-185) only    *)
(* after remove_running_request.                                           *)
MetadataFollowsRequest ==
  SpmdWorker => \A i \in Inst : q[i] \subseteq wcache[i]

(* Every migrated request's metadata leaves migrating_in and               *)
(* migrating_out: the commit moves it into the destination cache and the   *)
(* un-awaited pop task of pop_migrating_out_request_last_stage (509-516)   *)
(* eventually removes the source copy.                                     *)
MetadataReleased ==
  \A r \in Reqs : r \in wmout \cup wmin ~> r \notin wmout \cup wmin

=============================================================================
