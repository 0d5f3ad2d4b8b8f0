----------------------------- MODULE DPScheduler -----------------------------
(***************************************************************************)
(* The data-parallel scheduler: one vLLM scheduler per rank, each in a     *)
(* process of its own, driven over a pair of pipes by the engine's loop.   *)
(* A call sends a command to some ranks, then blocks for their results in  *)
(* rank order; the workers run in the meantime.  Source:                   *)
(* tpu_inference/core/sched/dp_scheduler.py, and for the order of the      *)
(* calls the engine loop that owns the scheduler (vllm/v1/engine/core.py). *)
(*                                                                         *)
(* Data is abstracted: a request is its identity, the number of tokens it  *)
(* has produced and the state its client sees; a batch is the requests     *)
(* scheduled on each rank.  The token budget of a rank always covers its   *)
(* running requests.  Calls that always go together are one call: "load"   *)
(* is GET_TOKEN_COUNT and PROBE_COMPUTED_BLOCKS, "pending" is              *)
(* GET_NUM_UNFINISHED_REQUESTS and HAS_FINISHED_REQUESTS.                  *)
(***************************************************************************)
EXTENDS Filtering, FiniteSetsExt, SequencesExt

CONSTANTS
    DpSize,           \* total_dp_size
    MaxNumSeqs,       \* scheduler_config.max_num_seqs, of each rank
    Reqs,
    BatchQueueSize,   \* 1: EngineCore.step, more: step_with_batch_queue
    MaxTokens,        \* bound: the tokens a request may produce
    PrefixCaching,    \* a prefix hit may decide the rank
    Events            \* of {"crash", "reset_error", "pause"}: what may happen

ASSUME SchedulerAssumption ==
    /\ IsFiniteSet(Reqs)
    /\ DpSize \in Nat \ {0}
    /\ MaxNumSeqs \in Nat \ {0}
    /\ BatchQueueSize \in Nat \ {0}
    /\ MaxTokens \in Nat \ {0}
    /\ PrefixCaching \in BOOLEAN
    /\ Events \subseteq {"crash", "reset_error", "pause"}

Ranks == 0 .. DpSize - 1

VARIABLES
    assigned,   \* assigned_dp_rank, a function on the requests it knows
    queue,      \* the scheduled batches whose output is due, oldest first
    nextId,     \* the next batch's identity (only the properties look at it)
    phase,      \* what the engine loop does next
    call,       \* the call in progress
    inbox,      \* input_conns: commands on their way to each worker
    outbox,     \* output_conns: results on their way back
    worker,     \* each worker's scheduler and _cached_scheduler_outputs
    alive,      \* which worker processes run
    ntok,       \* the tokens each request has produced
    client,     \* each client's request: new, sent, answered or cancelled
    closing     \* a shutdown was requested: the loop ends when no work is left

vars == <<assigned, queue, nextId, phase, call, inbox, outbox, worker, alive,
          ntok, client, closing>>

NoCall == [cmd |-> "none"]
Done == "done"

\* d[x] = v, for a dictionary d.
Put(d, x, v) == [y \in DOMAIN d \cup {x} |-> IF y = x THEN v ELSE d[y]]

Idle == [running |-> {}, waiting |-> <<>>, finished |-> {}, outputs |-> <<>>]
Live(w) == w.running \cup ToSet(w.waiting)

Init ==
    /\ assigned = <<>>
    /\ queue = <<>>
    /\ nextId = 0
    /\ phase = "input"
    /\ call = NoCall
    /\ inbox = [k \in Ranks |-> <<>>]
    /\ outbox = [k \in Ranks |-> <<>>]
    /\ worker = [k \in Ranks |-> Idle]
    /\ alive = [k \in Ranks |-> TRUE]
    /\ ntok = [r \in Reqs |-> 0]
    /\ client = [r \in Reqs |-> "new"]
    /\ closing = FALSE

-----------------------------------------------------------------------------
(* Calls *)

\* An exception leaves the call, with the results of later ranks unread.  The
\* engine survives it inside a utility call and dies of it anywhere else.
Raise(utility) ==
    /\ call' = NoCall
    /\ phase' = IF utility THEN "input" ELSE "failed"

\* _send_command to each of the ranks, in order; a send to a dead process raises.
\* back is the phase the engine returns to when the call is through.
Invoke(cmd, arg, ranks, back, utility) ==
    LET dead == {k \in ranks : ~alive[k]}
        sent == {k \in ranks : \A d \in dead : k < d}
    IN /\ inbox' = [k \in Ranks |->
                      IF k \in sent
                      THEN Append(inbox[k], [cmd |-> cmd, arg |-> arg[k]])
                      ELSE inbox[k]]
       /\ IF dead = {}
          THEN /\ call' = [cmd |-> cmd, arg |-> arg, due |-> ranks, res |-> <<>>,
                           back |-> back, utility |-> utility]
               /\ phase' = "call"
          ELSE Raise(utility)

\* A plausible bug: the loop over the ranks returns with the first result.
ReceiveFirst ==
    /\ phase = "call"
    /\ call.due # {}
    /\ LET k == Min(call.due)
           m == Head(outbox[k])
       IN /\ outbox[k] # <<>>
          /\ outbox' = [outbox EXCEPT ![k] = Tail(@)]
          /\ call' = [call EXCEPT !.due = IF call.cmd = "pending" THEN {} ELSE @ \ {k},
                                  !.res = Put(@, k, m)]
    /\ UNCHANGED <<assigned, queue, nextId, phase, inbox, worker, alive, ntok, client>>

\* _get_result from the next rank.  A SchedulerWorkerError is raised; so does
\* what schedule() and update_from_output() do with a result of another command.
Receive ==
    /\ phase = "call"
    /\ call.due # {}
    /\ LET k == Min(call.due)
           m == Head(outbox[k])
       IN /\ outbox[k] # <<>>
          /\ outbox' = [outbox EXCEPT ![k] = Tail(@)]
          /\ IF \/ ~m.ok
                \/ m.cmd # call.cmd /\ call.cmd \in {"schedule", "update"}
             THEN Raise(call.utility)
             ELSE /\ call' = [call EXCEPT !.due = @ \ {k}, !.res = Put(@, k, m)]
                  /\ UNCHANGED phase
    /\ UNCHANGED <<assigned, queue, nextId, inbox, worker, alive, ntok, client>>

\* _get_result from a rank whose process has ended: end of file.
ReceiveEof ==
    /\ phase = "call"
    /\ call.due # {}
    /\ outbox[Min(call.due)] = <<>>
    /\ ~alive[Min(call.due)]
    /\ Raise(call.utility)
    /\ UNCHANGED <<assigned, queue, nextId, inbox, outbox, worker, alive, ntok, client>>

Returned(cmd) == phase = "call" /\ call.cmd = cmd /\ call.due = {}
Mixed == \E k \in DOMAIN call.res : call.res[k].cmd # call.cmd

-----------------------------------------------------------------------------
(* add_request *)

\* A client's new request: _get_rank_token_counts asks every rank for its load.
AddRequest(r) ==
    /\ phase = "input" /\ ~closing
    /\ client[r] = "new"
    /\ client' = [client EXCEPT ![r] = "sent"]
    /\ Invoke("load", [k \in Ranks |-> r], Ranks, "input", FALSE)
    /\ UNCHANGED <<assigned, queue, nextId, outbox, worker, alive, ntok>>

\* _find_best_rank_for_request: a prefix hit, else the least loaded rank, the
\* first of several.
BestRanks(load) ==
    IF PrefixCaching THEN Ranks
    ELSE {Min({k \in Ranks : \A j \in Ranks : load[k] <= load[j]})}

AssignRequest ==
    /\ Returned("load")
    /\ LET r == call.arg[0]
           load == [k \in Ranks |-> call.res[k].val]
       IN \E k \in IF Mixed THEN Ranks ELSE BestRanks(load) :
            /\ assigned' = Put(assigned, r, k)
            /\ Invoke("add", [j \in Ranks |-> r], {k}, "input", FALSE)
    /\ UNCHANGED <<queue, nextId, outbox, worker, alive, ntok, client>>

\* A call whose results need no more work.
CallReturns ==
    /\ \E cmd \in {"add", "reset"} : Returned(cmd)
    /\ call' = NoCall
    /\ phase' = call.back
    /\ UNCHANGED <<assigned, queue, nextId, inbox, outbox, worker, alive, ntok, client>>

-----------------------------------------------------------------------------
(* One engine step: schedule, execute, update *)

\* has_requests
Step ==
    /\ phase = "input"
    /\ Invoke("pending", [k \in Ranks |-> Done], Ranks, "input", FALSE)
    /\ UNCHANGED <<assigned, queue, nextId, outbox, worker, alive, ntok, client, closing>>

\* With nothing to schedule the engine waits for the oldest batch, if there is
\* one, and a loop that is closing ends with SystemExit.
StepDecides ==
    /\ Returned("pending")
    /\ \E any \in IF Mixed THEN BOOLEAN
                  ELSE {\E k \in Ranks : call.res[k].val} :
         IF any
         THEN Invoke("schedule", [k \in Ranks |-> nextId], Ranks, "input", FALSE)
         ELSE /\ call' = NoCall
              /\ phase' = CASE queue # <<>> -> "execute"
                            [] queue = <<>> /\ closing -> "stopping"
                            [] OTHER -> "input"
              /\ UNCHANGED inbox
    /\ UNCHANGED <<assigned, queue, nextId, outbox, worker, alive, ntok, client>>

\* _combine_scheduler_outputs looks every scheduled request up in assigned_dp_rank.
\* The engine goes on to the oldest batch unless the queue has room, this batch
\* is not empty and the oldest is still executing.
BatchScheduled ==
    /\ Returned("schedule")
    /\ LET out == [k \in Ranks |-> call.res[k].val]
           batch == [id |-> nextId,
                     reqs |-> [k \in Ranks |-> out[k].reqs],
                     finished |-> UNION {out[k].finished : k \in Ranks}]
           all == UNION {out[k].reqs : k \in Ranks}
       IN IF all \subseteq DOMAIN assigned
          THEN /\ queue' = Append(queue, batch)
               /\ nextId' = (nextId + 1) % (BatchQueueSize + 1)
               /\ call' = NoCall
               /\ phase' \in IF all # {} /\ Len(queue') < BatchQueueSize
                             THEN {"input", "execute"} ELSE {"execute"}
          ELSE Raise(FALSE) /\ UNCHANGED <<queue, nextId>>
    /\ UNCHANGED <<assigned, inbox, outbox, worker, alive, ntok, client>>

\* update_from_output of the oldest batch: _split_model_output_by_rank.
Update ==
    /\ phase = "execute"
    /\ LET batch == Head(queue)
       IN Invoke("update",
                 [k \in Ranks |-> [id |-> batch.id, reqs |-> batch.reqs[k]]],
                 Ranks, "input", FALSE)
    /\ UNCHANGED <<assigned, queue, nextId, outbox, worker, alive, ntok, client>>

\* A plausible bug: a request is forgotten when it stops, before its rank has
\* reported it finished.
UpdateReturnsEarly ==
    /\ Returned("update")
    /\ LET stopped == UNION {call.res[k].val : k \in Ranks}
       IN /\ assigned' = [r \in DOMAIN assigned \ stopped |-> assigned[r]]
          /\ client' = [r \in Reqs |-> IF r \in stopped THEN "answered" ELSE client[r]]
    /\ queue' = Tail(queue)
    /\ call' = NoCall
    /\ phase' = call.back
    /\ UNCHANGED <<nextId, inbox, outbox, worker, alive, ntok>>

\* _cleanup_finished_requests forgets the requests the batch reported finished;
\* the outputs of the requests that stopped now go to their clients.
UpdateReturns ==
    /\ Returned("update")
    /\ LET stopped == UNION {call.res[k].val : k \in Ranks}
           keep == DOMAIN assigned \ Head(queue).finished
       IN /\ assigned' = [r \in keep |-> assigned[r]]
          /\ client' = [r \in Reqs |-> IF r \in stopped THEN "answered" ELSE client[r]]
    /\ queue' = Tail(queue)
    /\ call' = NoCall
    /\ phase' = call.back
    /\ UNCHANGED <<nextId, inbox, outbox, worker, alive, ntok>>

-----------------------------------------------------------------------------
(* finish_requests, rank after rank, and reset_prefix_cache *)

\* The ranks that still have to hear of the requests in s.
FinishOn(s, back, utility) ==
    LET known == s \cap DOMAIN assigned
        k == Min({assigned[r] : r \in known})
    IN IF known = {}
       THEN call' = NoCall /\ phase' = back /\ UNCHANGED inbox
       ELSE Invoke("finish", [j \in Ranks |-> known], {k}, back, utility)

\* A client gives its request up, between two steps or while a batch executes.
Abort(r) ==
    /\ phase \in {"input", "execute"}
    /\ client[r] = "sent"
    /\ client' = [client EXCEPT ![r] = "cancelled"]
    /\ FinishOn({r}, phase, FALSE)
    /\ UNCHANGED <<assigned, queue, nextId, outbox, worker, alive, ntok>>

\* pause_scheduler(mode="abort") finishes every request (request_ids is None).
AbortAll ==
    /\ "pause" \in Events
    /\ phase = "input" /\ ~closing
    /\ \E r \in Reqs : client[r] = "sent"
    /\ FinishOn(DOMAIN assigned, phase, TRUE)
    /\ UNCHANGED <<assigned, queue, nextId, outbox, worker, alive, ntok, client>>

\* finish_requests returns None, so the engine has no aborted request to report
\* to its client.
FinishReturns ==
    /\ Returned("finish")
    /\ LET k == CHOOSE j \in DOMAIN call.res : TRUE
       IN FinishOn({r \in call.arg[0] : assigned[r] > k}, call.back, call.utility)
    /\ UNCHANGED <<assigned, queue, nextId, outbox, worker, alive, ntok, client>>

\* A utility call.  The bookkeeping with which vLLM's asynchronous scheduler
\* survives it is not modelled, so the call is left to the synchronous engine.
\* Bound: no second reset while results of one that raised are unread.
ResetPrefixCache ==
    /\ phase = "input" /\ ~closing
    /\ BatchQueueSize = 1
    /\ \A k \in Ranks : inbox[k] = <<>> /\ outbox[k] = <<>>
    /\ \E r \in Reqs : client[r] = "sent"
    /\ Invoke("reset", [k \in Ranks |-> Done], Ranks, "input", TRUE)
    /\ UNCHANGED <<assigned, queue, nextId, outbox, worker, alive, ntok, client>>

-----------------------------------------------------------------------------
(* _scheduler_worker_process *)

\* Worker k takes a command cmd and answers val.
Take(k, cmd) == alive[k] /\ inbox[k] # <<>> /\ Head(inbox[k]).cmd = cmd
Answer(k, cmd, val) ==
    /\ inbox' = [inbox EXCEPT ![k] = Tail(@)]
    /\ outbox' = [outbox EXCEPT ![k] = Append(@, [cmd |-> cmd, ok |-> TRUE, val |-> val])]
    /\ UNCHANGED <<assigned, queue, nextId, phase, call, client>>

\* An exception in the worker's scheduler is caught and sent back.
AnswerError(k, cmd) ==
    /\ inbox' = [inbox EXCEPT ![k] = Tail(@)]
    /\ outbox' = [outbox EXCEPT ![k] = Append(@, [cmd |-> cmd, ok |-> FALSE, val |-> Done])]
    /\ UNCHANGED <<assigned, queue, nextId, phase, call, client>>

\* The tokens of the running and waiting requests, a prompt counted as one.
Tokens(w) == Cardinality({x \in Live(w) \X (0 .. MaxTokens) : x[2] <= ntok[x[1]]})

WorkerLoad(k) ==
    /\ Take(k, "load")
    /\ Answer(k, "load", Tokens(worker[k]))
    /\ UNCHANGED <<worker, alive, ntok>>

\* A plausible bug: the handler forgets to signal completion.
WorkerAddSilent(k) ==
    /\ Take(k, "add")
    /\ worker' = [worker EXCEPT ![k].waiting = Append(@, Head(inbox[k]).arg)]
    /\ inbox' = [inbox EXCEPT ![k] = Tail(@)]
    /\ UNCHANGED <<assigned, queue, nextId, phase, call, outbox, alive, ntok, client>>

WorkerAdd(k) ==
    /\ Take(k, "add")
    /\ worker' = [worker EXCEPT ![k].waiting = Append(@, Head(inbox[k]).arg)]
    /\ Answer(k, "add", Done)
    /\ UNCHANGED <<alive, ntok>>

\* A plausible bug: finished requests do not keep the engine stepping.
WorkerPendingUnfinished(k) ==
    /\ Take(k, "pending")
    /\ Answer(k, "pending", Live(worker[k]) # {})
    /\ UNCHANGED <<worker, alive, ntok>>

WorkerPending(k) ==
    /\ Take(k, "pending")
    /\ Answer(k, "pending", Live(worker[k]) # {} \/ worker[k].finished # {})
    /\ UNCHANGED <<worker, alive, ntok>>

\* The rank's scheduler admits waiting requests in order while it has room and
\* schedules every running request with a token left to produce; a request of
\* an earlier batch again only if scheduling is asynchronous.
InFlight(w, r) == Cardinality({i \in DOMAIN w.outputs : r \in w.outputs[i].reqs})
Schedulable(w, r) ==
    /\ ntok[r] + InFlight(w, r) < MaxTokens
    /\ BatchQueueSize > 1 \/ InFlight(w, r) = 0

WorkerSchedule(k) ==
    /\ Take(k, "schedule")
    /\ LET w == worker[k]
           n == Min({Len(w.waiting), MaxNumSeqs - Cardinality(w.running)})
           running == w.running \cup {w.waiting[i] : i \in 1 .. n}
           reqs == {r \in running : Schedulable(w, r)}
       IN /\ worker' = [worker EXCEPT ![k] =
                [running |-> running,
                 waiting |-> SubSeq(w.waiting, n + 1, Len(w.waiting)),
                 finished |-> {},
                 outputs |-> Append(w.outputs, [id |-> Head(inbox[k]).arg, reqs |-> reqs])]]
          /\ Answer(k, "schedule", [reqs |-> reqs, finished |-> w.finished])
    /\ UNCHANGED <<alive, ntok>>

\* A plausible bug: the newest cached batch is taken.
WorkerUpdateNewest(k) ==
    /\ Take(k, "update")
    /\ LET w == worker[k]
           got == Last(w.outputs).reqs \cap Live(w)
       IN /\ ntok' = [r \in Reqs |-> IF r \in got THEN ntok[r] + 1 ELSE ntok[r]]
          /\ worker' = [worker EXCEPT ![k] =
                [w EXCEPT !.running = @ \ got, !.finished = @ \cup got, !.outputs = Front(@)]]
          /\ Answer(k, "update", got)
    /\ UNCHANGED alive

\* The output is applied to the oldest cached batch; a request that has left in
\* the meantime is skipped, and one that stops (at its last token at the latest)
\* is freed and reported finished by the next schedule.
WorkerUpdate(k) ==
    /\ Take(k, "update")
    /\ LET w == worker[k]
           got == Head(w.outputs).reqs \cap Live(w)
           last == {r \in got : ntok[r] + 1 = MaxTokens}
       IN /\ ntok' = [r \in Reqs |-> IF r \in got THEN ntok[r] + 1 ELSE ntok[r]]
          /\ \E stop \in {s \in SUBSET got : last \subseteq s} :
               /\ worker' = [worker EXCEPT ![k] =
                     [running |-> w.running \ stop,
                      waiting |-> RemoveAll(w.waiting, stop),
                      finished |-> w.finished \cup stop,
                      outputs |-> Tail(w.outputs)]]
               /\ Answer(k, "update", stop)
    /\ UNCHANGED alive

WorkerFinish(k) ==
    /\ Take(k, "finish")
    /\ LET w == worker[k]
           gone == Head(inbox[k]).arg \cap Live(w)
       IN worker' = [worker EXCEPT ![k] =
             [running |-> w.running \ gone,
              waiting |-> RemoveAll(w.waiting, gone),
              finished |-> w.finished \cup gone,
              outputs |-> w.outputs]]
    /\ Answer(k, "finish", Done)
    /\ UNCHANGED <<alive, ntok>>

\* A plausible bug: the preempted requests are not put back.
WorkerResetDrops(k) ==
    /\ Take(k, "reset")
    /\ worker' = [worker EXCEPT ![k].running = {}]
    /\ Answer(k, "reset", Done)
    /\ UNCHANGED <<alive, ntok>>

\* Running requests go back to the head of the waiting queue; the scheduler then
\* raises if some block is still held.
WorkerReset(k) ==
    /\ Take(k, "reset")
    /\ LET w == worker[k]
       IN \E back \in SetToSeqs(w.running) :
            worker' = [worker EXCEPT ![k] =
               [running |-> {}, waiting |-> back \o w.waiting,
                finished |-> w.finished, outputs |-> w.outputs]]
    /\ \/ Answer(k, "reset", Done)
       \/ "reset_error" \in Events /\ AnswerError(k, "reset")
    /\ UNCHANGED <<alive, ntok>>

WorkerShutdown(k) ==
    /\ Take(k, "shutdown")
    /\ alive' = [alive EXCEPT ![k] = FALSE]
    /\ Answer(k, "shutdown", Done)
    /\ UNCHANGED <<worker, ntok>>

\* A worker process dies; what it already answered can still be read.
Crash(k) ==
    /\ "crash" \in Events
    /\ alive[k]
    /\ alive' = [alive EXCEPT ![k] = FALSE]
    /\ inbox' = [inbox EXCEPT ![k] = <<>>]
    /\ UNCHANGED <<assigned, queue, nextId, phase, call, outbox, worker, ntok, client, closing>>

-----------------------------------------------------------------------------
(* shutdown *)

\* _handle_shutdown, with no time to drain: every request is finished, and the
\* loop goes on until the schedulers have reported them.
Stop ==
    /\ phase = "input" /\ ~closing
    /\ closing' = TRUE
    /\ FinishOn(DOMAIN assigned, phase, FALSE)
    /\ UNCHANGED <<assigned, queue, nextId, outbox, worker, alive, ntok, client>>

\* First pass: is_alive, then, as a step of its own, the send.
ShutdownBegin ==
    /\ phase \in {"failed", "stopping"}
    /\ phase' = "shutdown"
    /\ call' = [cmd |-> "shutdown", todo |-> Ranks, sending |-> FALSE, due |-> Ranks]
    /\ UNCHANGED <<assigned, queue, nextId, inbox, outbox, worker, alive, ntok, client>>

\* A plausible bug: the living are skipped instead of the dead.
ShutdownCheckInverted ==
    /\ phase = "shutdown" /\ call.todo # {} /\ ~call.sending
    /\ call' = IF alive[Min(call.todo)] THEN [call EXCEPT !.todo = @ \ {Min(@)}]
               ELSE [call EXCEPT !.sending = TRUE]
    /\ UNCHANGED <<assigned, queue, nextId, phase, inbox, outbox, worker, alive, ntok, client>>

ShutdownCheck ==
    /\ phase = "shutdown" /\ call.todo # {} /\ ~call.sending
    /\ call' = IF alive[Min(call.todo)] THEN [call EXCEPT !.sending = TRUE]
               ELSE [call EXCEPT !.todo = @ \ {Min(@)}]
    /\ UNCHANGED <<assigned, queue, nextId, phase, inbox, outbox, worker, alive, ntok, client>>

\* A send to a process that has died since raises out of shutdown(): the exit
\* handler is already unregistered, and the interpreter waits for the children.
ShutdownSend ==
    /\ phase = "shutdown" /\ call.todo # {} /\ call.sending
    /\ LET k == Min(call.todo)
       IN IF alive[k]
          THEN /\ inbox' = [inbox EXCEPT ![k] = Append(@, [cmd |-> "shutdown", arg |-> Done])]
               /\ call' = [call EXCEPT !.todo = @ \ {k}, !.sending = FALSE]
               /\ UNCHANGED phase
          ELSE /\ phase' = "raised"
               /\ UNCHANGED <<inbox, call>>
    /\ UNCHANGED <<assigned, queue, nextId, outbox, worker, alive, ntok, client>>

\* Second pass: an acknowledgment of each rank that still runs.  A RuntimeError
\* or OSError is only logged; a SchedulerWorkerError is neither.
ShutdownAck ==
    /\ phase = "shutdown" /\ call.todo = {} /\ call.due # {}
    /\ LET k == Min(call.due)
       IN /\ ~alive[k] \/ outbox[k] # <<>>
          /\ IF alive[k] /\ ~Head(outbox[k]).ok
             THEN phase' = "raised" /\ UNCHANGED <<call, outbox>>
             ELSE /\ call' = [call EXCEPT !.due = @ \ {k}]
                  /\ outbox' = [outbox EXCEPT ![k] = IF @ = <<>> THEN @ ELSE Tail(@)]
                  /\ UNCHANGED phase
    /\ UNCHANGED <<assigned, queue, nextId, inbox, worker, alive, ntok, client>>

\* Third pass: join with a timeout, then SIGKILL; the pipes are closed.
ShutdownJoin ==
    /\ phase = "shutdown" /\ call.todo = {} /\ call.due = {}
    /\ phase' = "exited"
    /\ call' = NoCall
    /\ alive' = [k \in Ranks |-> FALSE]
    /\ inbox' = [k \in Ranks |-> <<>>]
    /\ outbox' = [k \in Ranks |-> <<>>]
    /\ UNCHANGED <<assigned, queue, nextId, worker, ntok, client>>

-----------------------------------------------------------------------------

Engine ==
    /\ \/ Receive \/ ReceiveEof \/ AssignRequest \/ CallReturns
       \/ StepDecides \/ BatchScheduled \/ Update \/ UpdateReturns \/ FinishReturns
       \/ ShutdownBegin \/ ShutdownCheck \/ ShutdownSend \/ ShutdownAck \/ ShutdownJoin
    /\ UNCHANGED closing

Worker(k) ==
    /\ \/ WorkerLoad(k) \/ WorkerAdd(k) \/ WorkerPending(k) \/ WorkerSchedule(k)
       \/ WorkerUpdate(k) \/ WorkerFinish(k) \/ WorkerReset(k) \/ WorkerShutdown(k)
    /\ UNCHANGED closing

Client ==
    /\ (\E r \in Reqs : AddRequest(r) \/ Abort(r)) \/ AbortAll \/ ResetPrefixCache
    /\ UNCHANGED closing

Next ==
    \/ Engine
    \/ Step
    \/ Client
    \/ Stop
    \/ \E k \in Ranks : Worker(k)
    \/ \E k \in Ranks : Crash(k)

\* The processes keep running and the engine's loop keeps stepping; clients and
\* failures owe nothing.
Fairness ==
    /\ WF_vars(Engine)
    /\ SF_vars(Step)
    /\ \A k \in Ranks : WF_vars(Worker(k))

Spec == Init /\ [][Next]_vars /\ Fairness

-----------------------------------------------------------------------------
(* Properties *)

Phases == {"input", "call", "execute", "failed", "stopping", "shutdown", "raised", "exited"}
Down == phase \in {"failed", "stopping", "shutdown", "raised", "exited"}

\* Assignments name ranks, and the batch queue and each rank's running requests
\* stay within batch_queue_size and the per-rank max_num_seqs.
TypeOK ==
    /\ DOMAIN assigned \subseteq Reqs
    /\ \A r \in DOMAIN assigned : assigned[r] \in Ranks
    /\ Len(queue) <= BatchQueueSize
    /\ phase \in Phases
    /\ \A k \in Ranks : /\ Live(worker[k]) \subseteq Reqs
                        /\ Cardinality(worker[k].running) <= MaxNumSeqs
    /\ alive \in [Ranks -> BOOLEAN]
    /\ ntok \in [Reqs -> 0 .. MaxTokens]
    /\ client \in [Reqs -> {"new", "sent", "answered", "cancelled"}]

\* Between calls the pipes are empty, and during one each rank still to answer
\* has exactly one message, a command or a result of this call: the result
\* _get_result returns is the "response to" the command it waits for.
PipesInStep ==
    ~Down => \A k \in Ranks :
        LET pipe == inbox[k] \o outbox[k]
        IN IF phase = "call" /\ k \in call.due
           THEN Len(pipe) = 1 /\ Head(pipe).cmd = call.cmd
           ELSE pipe = <<>>

\* Every worker applies a model output to the batch the output was computed for,
\* though it only pops the oldest output it has cached and up to BatchQueueSize
\* batches, with aborts between them, are under way.
BatchesPaired ==
    \A k \in Ranks : (inbox[k] # <<>> /\ Head(inbox[k]).cmd = "update") =>
        /\ worker[k].outputs # <<>>
        /\ Head(worker[k].outputs) = Head(inbox[k]).arg

\* A request lives on one rank, the one assigned_dp_rank names, until it has
\* finished there and its end has been reported: no lookup of a scheduled or
\* aborted request misses, and nothing in the loop has raised.
LivesWhereAssigned ==
    /\ phase # "failed"
    /\ \A k \in Ranks : \A r \in Live(worker[k]) \cup worker[k].finished :
         r \in DOMAIN assigned /\ assigned[r] = k

\* No call blocks the engine for ever, whichever worker dies or raises.
CallsReturn == (phase = "call") ~> (phase # "call")

\* Every client of a running engine gets its last output or gives its request up.
ClientsAnswered ==
    \A r \in Reqs : client[r] = "sent" ~> (client[r] # "sent" \/ closing \/ Down)

\* The rank table forgets every request that has ended: the engine steps once
\* more for finished requests, and that batch carries their names.
AssignmentsReclaimed ==
    \A r \in Reqs : client[r] \in {"answered", "cancelled"} ~> (r \notin DOMAIN assigned \/ Down)

\* Once the loop is closing or has failed, shutdown() is reached and leaves no
\* worker process behind.
WorkersGone == (closing \/ Down) ~> (\A k \in Ranks : ~alive[k])
=============================================================================
