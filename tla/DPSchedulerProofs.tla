-------------------------- MODULE DPSchedulerProofs --------------------------
(***************************************************************************)
(* The data-parallel scheduler without process failures: the pipes stay in *)
(* step with the calls, every model output meets the batch it was computed *)
(* for, and a request lives where assigned_dp_rank says.                   *)
(***************************************************************************)
EXTENDS DPScheduler, Lemmas

\* No worker process dies and no reset_prefix_cache raises.
NoFaults == Events \subseteq {"pause"}

Up == phase \in {"input", "execute", "call"}
Calling(cmd) == phase = "call" /\ call.cmd = cmd

\* What worker k has answered to the call in progress.
Val(k) == IF k \in call.due THEN Head(outbox[k]).val ELSE call.res[k].val

BatchType  == [id : Nat, reqs : [Ranks -> SUBSET Reqs], finished : SUBSET Reqs]
OutputType == [id : Nat, reqs : SUBSET Reqs]
WorkerType == [running : SUBSET Reqs, waiting : Seq(Reqs), finished : SUBSET Reqs,
               outputs : Seq(OutputType)]

Types ==
    /\ phase \in {"input", "execute", "call", "stopping", "shutdown", "raised", "exited"}
    /\ DOMAIN assigned \in SUBSET Reqs
    /\ \A r \in DOMAIN assigned : assigned[r] \in Ranks
    /\ queue \in Seq(BatchType)
    /\ nextId \in Nat
    /\ worker \in [Ranks -> WorkerType]
    /\ \A k \in Ranks : Cardinality(worker[k].running) <= MaxNumSeqs
    /\ client \in [Reqs -> {"new", "sent", "answered", "cancelled"}]

\* A call of one message and one result per rank.
Pipe(k) ==
    IF phase = "call" /\ k \in call.due
    THEN \/ inbox[k] = <<[cmd |-> call.cmd, arg |-> call.arg[k]]>> /\ outbox[k] = <<>>
         \/ /\ inbox[k] = <<>>
            /\ outbox[k] = <<[cmd |-> call.cmd, ok |-> TRUE, val |-> Val(k)]>>
    ELSE inbox[k] = <<>> /\ outbox[k] = <<>>

Stopping == [cmd |-> "shutdown", arg |-> Done]
Pipes ==
    /\ DOMAIN inbox = Ranks /\ DOMAIN outbox = Ranks
    /\ Up => \A k \in Ranks : alive[k] /\ Pipe(k)
    /\ ~Up => \A k \in Ranks : inbox[k] \in Seq({Stopping})

\* The call in progress, and what its commands may rely on.
CallOK ==
    /\ call = [cmd |-> call.cmd, arg |-> call.arg, due |-> call.due, res |-> call.res,
               back |-> call.back, utility |-> call.utility]
    /\ call.due \in SUBSET Ranks
    /\ DOMAIN call.res \in SUBSET Ranks /\ DOMAIN call.res \cap call.due = {}
    /\ \A k \in DOMAIN call.res : call.res[k].cmd = call.cmd /\ call.res[k].ok
    /\ call.cmd \in {"load", "add", "pending", "schedule", "update", "finish", "reset"}
    /\ call.back \in {"input", "execute"}
    /\ call.back = "execute" => call.cmd = "finish" /\ queue # <<>>
    /\ call.cmd \in {"load", "pending", "schedule", "update", "reset"}
         => DOMAIN call.res = Ranks \ call.due

Queued(k) == [i \in 1 .. Len(queue) |-> [id |-> queue[i].id, reqs |-> queue[i].reqs[k]]]

\* The batches worker k has cached: those of the engine's queue, with the one
\* just scheduled and without the one just updated.
Cached(k) ==
    IF Calling("schedule") /\ inbox[k] = <<>>
    THEN Append(Queued(k), [id |-> nextId, reqs |-> Val(k).reqs])
    ELSE IF Calling("update") /\ inbox[k] = <<>> THEN Tail(Queued(k)) ELSE Queued(k)

\* The requests whose end has been reported but not yet taken note of.
Fresh(k) == IF Calling("schedule") /\ inbox[k] = <<>> THEN Val(k).finished ELSE {}
Gone == (UNION {queue[i].finished : i \in DOMAIN queue}) \cup (UNION {Fresh(k) : k \in Ranks})

Present(k) == Live(worker[k]) \cup worker[k].finished

Loads ==
    /\ Calling("load") =>
         /\ call.arg[0] \in Reqs \ (DOMAIN assigned \cup Gone) /\ client[call.arg[0]] # "new"
         /\ \A k \in Ranks : inbox[k] = <<>> => Val(k) \in Nat
    /\ Calling("add") => \A k \in call.due :
         /\ call.arg[k] \in DOMAIN assigned /\ assigned[call.arg[k]] = k
         /\ inbox[k] # <<>> => call.arg[k] \notin Gone /\ call.arg[k] \notin Present(k)
    /\ Calling("finish") => call.arg[0] \in SUBSET DOMAIN assigned
    /\ Calling("schedule") => \A k \in Ranks :
         /\ inbox[k] # <<>> => call.arg[k] = nextId
         /\ inbox[k] = <<>> => Val(k) \in [reqs : SUBSET DOMAIN assigned, finished : SUBSET Reqs]
    /\ Calling("update") =>
         /\ queue # <<>>
         /\ \A k \in Ranks : inbox[k] # <<>> =>
              call.arg[k] = [id |-> Head(queue).id, reqs |-> Head(queue).reqs[k]]
    /\ phase = "execute" => queue # <<>>

\* Where each request is.
Places ==
    /\ \A k \in Ranks : \A r \in Present(k) : r \in DOMAIN assigned /\ assigned[r] = k
    /\ \A k \in Ranks : Present(k) \cap Gone = {}
    /\ \A k \in Ranks : Live(worker[k]) \cap worker[k].finished = {}
    /\ \A r \in Reqs : client[r] = "new" => r \notin DOMAIN assigned /\ r \notin Gone

Caches == Up => \A k \in Ranks : worker[k].outputs = Cached(k)

SchedulerInv ==
    /\ Types /\ Pipes /\ (phase = "call" => CallOK) /\ Loads /\ Places /\ Caches

-----------------------------------------------------------------------------
(* Calls *)

\* The engine is between two calls, or has all the results of one.
Quiet == phase \in {"input", "execute"} \/ (phase = "call" /\ call.due = {})

LEMMA MinRank ==
    ASSUME NEW S \in SUBSET Ranks, S # {}
    PROVE  Min(S) \in S
  <1>1. S \in SUBSET Nat
    BY SchedulerAssumption DEF Ranks
  <1>2. \E m \in S : \A n \in S : m <= n
    BY <1>1, LeastNat
  <1> QED
    BY <1>2 DEF Min

\* Between two calls nothing is under way.
LEMMA QuietPipes ==
    ASSUME SchedulerInv, Quiet
    PROVE  /\ Up /\ DOMAIN inbox = Ranks /\ DOMAIN outbox = Ranks
           /\ \A k \in Ranks : alive[k] /\ inbox[k] = <<>> /\ outbox[k] = <<>>
  BY DEF SchedulerInv, Quiet, Pipes, Pipe, Up

\* What a call may be.
Allowed(cmd, ranks, back) ==
    /\ cmd \in {"load", "add", "pending", "schedule", "update", "finish", "reset"}
    /\ ranks \in SUBSET Ranks
    /\ back \in {"input", "execute"}
    /\ back = "execute" => cmd = "finish" /\ queue # <<>>
    /\ cmd \in {"load", "pending", "schedule", "update", "reset"} => ranks = Ranks

\* A command to some ranks, in a call that has no result yet.
LEMMA InvokeCall ==
    ASSUME SchedulerInv, Quiet, ~Calling("schedule"), ~Calling("update"),
           NEW cmd, NEW arg, NEW ranks, NEW back, NEW utility, Allowed(cmd, ranks, back),
           Invoke(cmd, arg, ranks, back, utility),
           UNCHANGED <<queue, nextId, outbox, worker, alive>>
    PROVE  /\ phase' = "call" /\ Up'
           /\ call'.cmd = cmd /\ call'.arg = arg /\ call'.due = ranks /\ call'.back = back
           /\ \A k \in Ranks : inbox'[k] = IF k \in ranks
                                          THEN <<[cmd |-> cmd, arg |-> arg[k]]>> ELSE <<>>
           /\ Pipes' /\ CallOK' /\ Caches' /\ Gone' = Gone
  <1>0. ranks \in SUBSET Ranks /\ Allowed(cmd, ranks, back)
    BY DEF Allowed
  <1>1. /\ DOMAIN inbox = Ranks /\ DOMAIN outbox = Ranks
        /\ \A k \in Ranks : alive[k] /\ inbox[k] = <<>> /\ outbox[k] = <<>>
    BY QuietPipes
  <1>2. {k \in ranks : ~alive[k]} = {}
    BY <1>0, <1>1
  <1>3. /\ phase' = "call"
        /\ call' = [cmd |-> cmd, arg |-> arg, due |-> ranks, res |-> <<>>,
                    back |-> back, utility |-> utility]
    BY <1>2 DEF Invoke
  <1>4. DOMAIN inbox' = Ranks
        /\ \A k \in Ranks : inbox'[k] = IF k \in ranks THEN <<[cmd |-> cmd, arg |-> arg[k]]>> ELSE <<>>
    <2>1. inbox' = [k \in Ranks |-> IF k \in ranks
                                    THEN Append(inbox[k], [cmd |-> cmd, arg |-> arg[k]])
                                    ELSE inbox[k]]
      BY <1>2 DEF Invoke
    <2>2. \A k \in Ranks : Append(inbox[k], [cmd |-> cmd, arg |-> arg[k]])
                             = <<[cmd |-> cmd, arg |-> arg[k]]>>
      <3>1. ASSUME NEW x
            PROVE  Append(<<>>, x) = <<x>>
        OBVIOUS
      <3> QED
        BY <1>1, <3>1
    <2> QED
      BY <1>0, <1>1, <2>1, <2>2
  <1>5. call'.cmd = cmd /\ call'.arg = arg /\ call'.due = ranks /\ call'.res = <<>>
        /\ call'.back = back /\ call'.utility = utility /\ DOMAIN call'.res = {}
    BY <1>3
  <1>6. Up'
    BY <1>3 DEF Up
  <1>7. Pipes'
    <2>1. \A k \in Ranks : Pipe(k)'
      BY <1>0, <1>1, <1>3, <1>4, <1>5 DEF Pipe
    <2> QED
      BY <1>1, <1>4, <1>6, <2>1 DEF Pipes
  <1>8. CallOK'
    BY <1>3, <1>5 DEF CallOK, Allowed
  <1>9. \A k \in Ranks : Calling("schedule")' \/ Calling("update")' => inbox'[k] # <<>>
    BY <1>3, <1>4, <1>5 DEF Calling, Allowed
  <1>10. Caches'
    <2>1. \A k \in Ranks : Cached(k) = Queued(k) /\ Cached(k)' = Queued(k)'
      BY <1>9 DEF Cached
    <2>2. \A k \in Ranks : worker[k].outputs = Cached(k)
      BY QuietPipes DEF SchedulerInv, Caches
    <2>3. \A k \in Ranks : Queued(k)' = Queued(k)
      BY DEF Queued
    <2> QED
      BY <2>1, <2>2, <2>3 DEF Caches
  <1>11. Gone' = Gone
    <2>1. \A k \in Ranks : Fresh(k) = {} /\ Fresh(k)' = {}
      BY <1>9 DEF Fresh
    <2> QED
      BY <2>1 DEF Gone
  <1> QED
    BY <1>3, <1>4, <1>5, <1>6, <1>7, <1>8, <1>10, <1>11

\* A command to every rank.
LEMMA InvokeAll ==
    ASSUME SchedulerInv, Quiet, ~Calling("schedule"), ~Calling("update"),
           NEW cmd \in {"load", "pending", "schedule", "update", "reset"}, NEW arg, NEW utility,
           Invoke(cmd, arg, Ranks, "input", utility),
           UNCHANGED <<queue, nextId, outbox, worker, alive>>
    PROVE  /\ phase' = "call" /\ call'.cmd = cmd /\ call'.arg = arg
           /\ \A k \in Ranks : inbox'[k] # <<>>
           /\ Pipes' /\ CallOK' /\ Caches' /\ Gone' = Gone
  <1>1. Allowed(cmd, Ranks, "input")
    BY DEF Allowed
  <1>2. /\ phase' = "call" /\ call'.cmd = cmd /\ call'.arg = arg
        /\ \A k \in Ranks : inbox'[k] = IF k \in Ranks THEN <<[cmd |-> cmd, arg |-> arg[k]]>> ELSE <<>>
        /\ Pipes' /\ CallOK' /\ Caches' /\ Gone' = Gone
    BY <1>1, InvokeCall, Zenon
  <1>3. ASSUME NEW x
        PROVE  <<x>> # <<>>
    OBVIOUS
  <1> QED
    BY <1>2, <1>3

\* A command to one rank.
LEMMA InvokeOne ==
    ASSUME SchedulerInv, Quiet, ~Calling("schedule"), ~Calling("update"),
           NEW cmd \in {"add", "finish"}, NEW arg, NEW q \in Ranks,
           NEW back \in {"input", "execute"}, NEW utility,
           back = "execute" => cmd = "finish" /\ queue # <<>>,
           Invoke(cmd, arg, {q}, back, utility),
           UNCHANGED <<queue, nextId, outbox, worker, alive>>
    PROVE  /\ phase' = "call" /\ call'.cmd = cmd /\ call'.arg = arg /\ call'.due = {q}
           /\ Pipes' /\ CallOK' /\ Caches' /\ Gone' = Gone
  <1>1. Allowed(cmd, {q}, back)
    BY DEF Allowed
  <1> QED
    BY <1>1, InvokeCall, Zenon

\* The engine goes on without another call.
LEMMA CallOver ==
    ASSUME SchedulerInv, Quiet, ~Calling("schedule"), ~Calling("update"),
           phase' \in {"input", "execute"},
           UNCHANGED <<queue, nextId, inbox, outbox, worker, alive>>
    PROVE  Pipes' /\ Caches' /\ Gone' = Gone
  <1>1. /\ DOMAIN inbox = Ranks /\ DOMAIN outbox = Ranks
        /\ \A k \in Ranks : alive[k] /\ inbox[k] = <<>> /\ outbox[k] = <<>>
    BY QuietPipes
  <1>2. Up' /\ ~Calling("schedule")' /\ ~Calling("update")'
    BY DEF Up, Calling
  <1>3. Pipes'
    BY <1>1, <1>2 DEF Pipes, Pipe
  <1>4. Caches'
    <2>1. \A k \in Ranks : Cached(k) = Queued(k) /\ Cached(k)' = Queued(k)'
      BY <1>2 DEF Cached
    <2>2. \A k \in Ranks : worker[k].outputs = Cached(k)
      BY QuietPipes DEF SchedulerInv, Caches
    <2>3. \A k \in Ranks : Queued(k)' = Queued(k)
      BY DEF Queued
    <2> QED
      BY <2>1, <2>2, <2>3 DEF Caches
  <1>5. Gone' = Gone
    BY <1>2 DEF Gone, Fresh
  <1> QED
    BY <1>3, <1>4, <1>5

\* What stays where it is when no request moves.
LEMMA PlacesFrame ==
    ASSUME Places, Gone' = Gone, UNCHANGED <<assigned, worker>>,
           \A r \in Reqs : client'[r] = "new" => client[r] = "new"
    PROVE  Places'
  BY DEF Places, Present

LEMMA StepInv ==
    ASSUME SchedulerInv, Step
    PROVE  SchedulerInv'
  <1>1. Quiet /\ ~Calling("schedule") /\ ~Calling("update")
    BY DEF Step, Quiet, Calling
  <1>2. /\ phase' = "call" /\ call'.cmd = "pending" /\ Pipes' /\ CallOK' /\ Caches' /\ Gone' = Gone
    <2> DEFINE arg == [k \in Ranks |-> Done]
    <2>1. Invoke("pending", arg, Ranks, "input", FALSE)
          /\ UNCHANGED <<queue, nextId, outbox, worker, alive>>
      BY DEF Step
    <2>2. "pending" \in {"load", "pending", "schedule", "update", "reset"}
      OBVIOUS
    <2> HIDE DEF arg
    <2> QED
      BY <1>1, <2>1, <2>2, InvokeAll, Zenon
  <1>3. Types'
    BY <1>2 DEF SchedulerInv, Types, Step
  <1>4. Loads'
    BY <1>2 DEF Loads, Calling
  <1>5. Places'
    BY <1>2, PlacesFrame DEF SchedulerInv, Step
  <1> QED
    BY <1>2, <1>3, <1>4, <1>5 DEF SchedulerInv

LEMMA AddRequestInv ==
    ASSUME SchedulerInv, NEW r \in Reqs, AddRequest(r)
    PROVE  SchedulerInv'
  <1>1. Quiet /\ ~Calling("schedule") /\ ~Calling("update")
    BY DEF AddRequest, Quiet, Calling
  <1>2. /\ phase' = "call" /\ call'.cmd = "load" /\ call'.arg = [k \in Ranks |-> r]
        /\ Pipes' /\ CallOK' /\ Caches' /\ Gone' = Gone
        /\ \A k \in Ranks : inbox'[k] # <<>>
    <2> DEFINE arg == [k \in Ranks |-> r]
    <2>1. Invoke("load", arg, Ranks, "input", FALSE)
          /\ UNCHANGED <<queue, nextId, outbox, worker, alive>>
      BY DEF AddRequest
    <2>2. "load" \in {"load", "pending", "schedule", "update", "reset"}
          /\ arg = [k \in Ranks |-> r]
      OBVIOUS
    <2> HIDE DEF arg
    <2> QED
      BY <1>1, <2>1, <2>2, InvokeAll, Zenon
  <1>3. client[r] = "new" /\ client' = [client EXCEPT ![r] = "sent"] /\ UNCHANGED <<assigned, queue, nextId, worker>>
    BY DEF AddRequest
  <1>4. Types'
    BY <1>2, <1>3 DEF SchedulerInv, Types
  <1>5. client'[r] = "sent" /\ \A s \in Reqs : client'[s] = "new" => client[s] = "new"
    BY <1>3 DEF SchedulerInv, Types
  <1>6. Loads'
    <2>1. 0 \in Ranks
      BY SchedulerAssumption DEF Ranks
    <2>2. call'.arg[0] = r /\ r \notin DOMAIN assigned /\ r \notin Gone
      BY <1>2, <1>3, <2>1 DEF SchedulerInv, Places
    <2> QED
      BY <1>2, <1>3, <1>5, <2>2 DEF Loads, Calling
  <1>7. Places'
    BY <1>2, <1>3, <1>5, PlacesFrame DEF SchedulerInv
  <1> QED
    BY <1>2, <1>4, <1>6, <1>7 DEF SchedulerInv

\* _find_best_rank_for_request always finds a rank.
LEMMA BestRank ==
    ASSUME NEW load \in [Ranks -> Nat]
    PROVE  BestRanks(load) \subseteq Ranks
  <1> DEFINE least == {k \in Ranks : \A j \in Ranks : load[k] <= load[j]}
             vals == {load[k] : k \in Ranks}
  <1>1. 0 \in Ranks
    BY SchedulerAssumption DEF Ranks
  <1>2. vals \in SUBSET Nat /\ vals # {}
    BY <1>1
  <1>3. \E m \in vals : \A n \in vals : m <= n
    <2> HIDE DEF vals
    <2> QED
      BY <1>2, LeastNat
  <1>4. least \in SUBSET Ranks /\ least # {}
    BY <1>3
  <1>5. Min(least) \in Ranks
    <2> HIDE DEF least
    <2> QED
      BY <1>4, MinRank
  <1> QED
    BY <1>5 DEF BestRanks

LEMMA AssignRequestInv ==
    ASSUME SchedulerInv, AssignRequest
    PROVE  SchedulerInv'
  <1> DEFINE load == [k \in Ranks |-> call.res[k].val]
  <1>1. /\ phase = "call" /\ call.cmd = "load" /\ call.due = {} /\ Quiet
        /\ ~Calling("schedule") /\ ~Calling("update")
    BY DEF AssignRequest, Returned, Quiet, Calling
  <1>2. load \in [Ranks -> Nat]
    <2>1. \A k \in Ranks : inbox[k] = <<>>
      BY <1>1, QuietPipes
    <2>2. \A k \in Ranks : Val(k) \in Nat /\ Val(k) = call.res[k].val
      BY <1>1, <2>1 DEF SchedulerInv, Loads, Calling, Val
    <2> QED
      BY <2>2
  <1>3. PICK k \in Ranks, r \in {call.arg[0]} :
          /\ assigned' = Put(assigned, r, k)
          /\ Invoke("add", [j \in Ranks |-> r], {k}, "input", FALSE)
    <2>1. BestRanks(load) \subseteq Ranks
      <3> HIDE DEF load
      <3> QED
        BY <1>2, BestRank
    <2>2. PICK k \in IF Mixed THEN Ranks ELSE BestRanks(load) :
            /\ assigned' = Put(assigned, call.arg[0], k)
            /\ Invoke("add", [j \in Ranks |-> call.arg[0]], {k}, "input", FALSE)
      BY Zenon DEF AssignRequest
    <2>3. k \in Ranks
      BY <2>1, <2>2
    <2> QED
      BY <2>2, <2>3, Zenon
  <1>4. r \in Reqs /\ r \notin DOMAIN assigned /\ r \notin Gone /\ client[r] # "new"
    BY <1>1, <1>3 DEF SchedulerInv, Loads, Calling
  <1>5. /\ phase' = "call" /\ call'.cmd = "add" /\ call'.arg[k] = r /\ call'.due = {k}
        /\ Pipes' /\ CallOK' /\ Caches' /\ Gone' = Gone
    <2> DEFINE arg == [j \in Ranks |-> r]
    <2>0. arg[k] = r
      OBVIOUS
    <2>1. Invoke("add", arg, {k}, "input", FALSE)
          /\ UNCHANGED <<queue, nextId, outbox, worker, alive>>
      BY <1>3, Zenon DEF AssignRequest
    <2> HIDE DEF arg
    <2>2. "add" \in {"add", "finish"} /\ "input" \in {"input", "execute"} /\ "input" # "execute"
      OBVIOUS
    <2>3. /\ phase' = "call" /\ call'.cmd = "add" /\ call'.arg = arg /\ call'.due = {k}
          /\ Pipes' /\ CallOK' /\ Caches' /\ Gone' = Gone
      BY <1>1, <2>1, <2>2, InvokeOne, Zenon
    <2> QED
      BY <2>0, <2>3
  <1>6. /\ DOMAIN assigned' = DOMAIN assigned \cup {r} /\ assigned'[r] = k
        /\ \A s \in DOMAIN assigned : assigned'[s] = assigned[s]
    BY <1>3, <1>4 DEF Put
  <1>7. UNCHANGED <<queue, nextId, worker, client>>
    BY DEF AssignRequest
  <1>8. Types'
    BY <1>4, <1>5, <1>6, <1>7 DEF SchedulerInv, Types
  <1>9. Loads'
    <2>1. r \notin Present(k)' /\ Present(k)' = Present(k)
      BY <1>4, <1>7 DEF SchedulerInv, Places, Present
    <2> HIDE DEF Present
    <2> QED
      BY <1>4, <1>5, <1>6, <2>1 DEF Loads, Calling
  <1>10. Places'
    BY <1>4, <1>5, <1>6, <1>7 DEF SchedulerInv, Places, Present
  <1> QED
    BY <1>5, <1>8, <1>9, <1>10 DEF SchedulerInv

LEMMA CallReturnsInv ==
    ASSUME SchedulerInv, CallReturns
    PROVE  SchedulerInv'
  <1>1. /\ phase = "call" /\ call.cmd \in {"add", "reset"} /\ call.due = {} /\ Quiet
        /\ ~Calling("schedule") /\ ~Calling("update")
    BY DEF CallReturns, Returned, Quiet, Calling
  <1>2. phase' = "input"
    BY <1>1 DEF CallReturns, SchedulerInv, CallOK
  <1>3. Pipes' /\ Caches' /\ Gone' = Gone
    BY <1>1, <1>2, CallOver DEF CallReturns
  <1>4. Types'
    BY <1>2 DEF SchedulerInv, Types, CallReturns
  <1>5. Loads'
    BY <1>2 DEF Loads, Calling
  <1>6. Places'
    BY <1>3, PlacesFrame DEF SchedulerInv, CallReturns
  <1> QED
    BY <1>2, <1>3, <1>4, <1>5, <1>6 DEF SchedulerInv

LEMMA StepDecidesInv ==
    ASSUME SchedulerInv, StepDecides
    PROVE  SchedulerInv'
  <1>1. /\ phase = "call" /\ call.cmd = "pending" /\ call.due = {} /\ Quiet
        /\ ~Calling("schedule") /\ ~Calling("update")
    BY DEF StepDecides, Returned, Quiet, Calling
  <1>2. UNCHANGED <<assigned, queue, nextId, outbox, worker, alive, client>>
    BY DEF StepDecides
  <1>3. CASE Invoke("schedule", [k \in Ranks |-> nextId], Ranks, "input", FALSE)
    <2> DEFINE arg == [k \in Ranks |-> nextId]
    <2>0. \A k \in Ranks : arg[k] = nextId
      OBVIOUS
    <2>1. Invoke("schedule", arg, Ranks, "input", FALSE)
      BY <1>3
    <2> HIDE DEF arg
    <2>2. UNCHANGED <<queue, nextId, outbox, worker, alive>>
      BY <1>2
    <2>3. "schedule" \in {"load", "pending", "schedule", "update", "reset"}
      OBVIOUS
    <2>4. /\ phase' = "call" /\ call'.cmd = "schedule" /\ call'.arg = arg
          /\ Pipes' /\ CallOK' /\ Caches' /\ Gone' = Gone
          /\ \A k \in Ranks : inbox'[k] # <<>>
      BY <1>1, <2>1, <2>2, <2>3, InvokeAll, Zenon
    <2>5. Types'
      BY <1>2, <2>4 DEF SchedulerInv, Types
    <2>6. Loads'
      BY <1>2, <2>0, <2>4 DEF Loads, Calling
    <2>7. Places'
      BY <1>2, <2>4, PlacesFrame DEF SchedulerInv
    <2> QED
      BY <2>4, <2>5, <2>6, <2>7 DEF SchedulerInv
  <1>4. CASE /\ phase' \in {"input", "execute"} /\ (phase' = "execute" => queue # <<>>)
             /\ UNCHANGED inbox
    <2>1. Pipes' /\ Caches' /\ Gone' = Gone
      BY <1>1, <1>2, <1>4, CallOver
    <2>2. Types'
      BY <1>2, <1>4 DEF SchedulerInv, Types
    <2>3. Loads'
      BY <1>2, <1>4 DEF Loads, Calling
    <2>4. Places'
      BY <1>2, <2>1, PlacesFrame DEF SchedulerInv
    <2> QED
      BY <1>4, <2>1, <2>2, <2>3, <2>4 DEF SchedulerInv
  <1>5. CASE phase' = "stopping" /\ UNCHANGED inbox
    <2>1. ~Up' /\ ~Calling("schedule")'
      BY <1>5 DEF Up, Calling
    <2>2. Pipes' /\ Caches'
      <3>1. DOMAIN inbox = Ranks /\ DOMAIN outbox = Ranks /\ \A k \in Ranks : inbox[k] = <<>>
        BY <1>1, QuietPipes
      <3> QED
        BY <1>2, <1>5, <2>1, <3>1, <<>> \in Seq({Stopping}) DEF Pipes, Caches
    <2>3. Gone' = Gone
      BY <1>1, <1>2, <2>1 DEF Gone, Fresh
    <2>4. Types'
      BY <1>2, <1>5 DEF SchedulerInv, Types
    <2>5. Loads'
      BY <1>5 DEF Loads, Calling
    <2>6. Places'
      BY <1>2, <2>3, PlacesFrame DEF SchedulerInv
    <2> QED
      BY <1>5, <2>2, <2>4, <2>5, <2>6 DEF SchedulerInv
  <1> QED
    BY <1>3, <1>4, <1>5 DEF StepDecides

LEMMA UpdateInv ==
    ASSUME SchedulerInv, Update
    PROVE  SchedulerInv'
  <1> DEFINE arg == [k \in Ranks |-> [id |-> Head(queue).id, reqs |-> Head(queue).reqs[k]]]
  <1>1. phase = "execute" /\ Quiet /\ ~Calling("schedule") /\ ~Calling("update") /\ queue # <<>>
    BY DEF Update, Quiet, Calling, SchedulerInv, Loads
  <1>2. Invoke("update", arg, Ranks, "input", FALSE)
        /\ UNCHANGED <<queue, nextId, outbox, worker, alive>>
    BY DEF Update
  <1>3. \A k \in Ranks : arg[k] = [id |-> Head(queue).id, reqs |-> Head(queue).reqs[k]]
    OBVIOUS
  <1> HIDE DEF arg
  <1>4. /\ phase' = "call" /\ call'.cmd = "update" /\ call'.arg = arg
        /\ Pipes' /\ CallOK' /\ Caches' /\ Gone' = Gone
    <2>1. "update" \in {"load", "pending", "schedule", "update", "reset"}
      OBVIOUS
    <2> QED
      BY <1>1, <1>2, <2>1, InvokeAll, Zenon
  <1>5. Types'
    BY <1>4 DEF SchedulerInv, Types, Update
  <1>6. Loads'
    BY <1>1, <1>2, <1>3, <1>4 DEF Loads, Calling
  <1>7. Places'
    BY <1>4, PlacesFrame DEF SchedulerInv, Update
  <1> QED
    BY <1>4, <1>5, <1>6, <1>7 DEF SchedulerInv

\* finish_requests: to the first of the ranks that hold one of the requests.
LEMMA FinishOnInv ==
    ASSUME SchedulerInv, Quiet, ~Calling("schedule"), ~Calling("update"),
           NEW s, NEW back \in {"input", "execute"}, NEW utility,
           back = "execute" => queue # <<>>,
           FinishOn(s, back, utility),
           UNCHANGED <<assigned, queue, nextId, outbox, worker, alive>>,
           client' \in [Reqs -> {"new", "sent", "answered", "cancelled"}],
           \A r \in Reqs : client'[r] = "new" => client[r] = "new"
    PROVE  SchedulerInv'
  <1> DEFINE known == s \cap DOMAIN assigned
             ranks == {assigned[r] : r \in known}
             arg == [j \in Ranks |-> known]
  <1>1. CASE known = {}
    <2>1. phase' = back /\ UNCHANGED inbox
      BY <1>1 DEF FinishOn
    <2>2. Pipes' /\ Caches' /\ Gone' = Gone
      BY <2>1, CallOver
    <2>3. Types'
      BY <2>1 DEF SchedulerInv, Types
    <2>4. Loads'
      BY <2>1 DEF Loads, Calling
    <2>5. Places'
      BY <2>2, PlacesFrame DEF SchedulerInv
    <2> QED
      BY <2>1, <2>2, <2>3, <2>4, <2>5 DEF SchedulerInv
  <1>2. CASE known # {}
    <2>1. PICK q \in Ranks : q = Min(ranks)
      <3>1. ranks \in SUBSET Ranks /\ ranks # {}
        BY <1>2 DEF SchedulerInv, Types
      <3> HIDE DEF ranks
      <3> QED
        BY <3>1, MinRank
    <2>2. Invoke("finish", arg, {q}, back, utility)
      BY <1>2, <2>1 DEF FinishOn
    <2>3. arg[0] = known /\ known \in SUBSET DOMAIN assigned
      BY SchedulerAssumption DEF Ranks
    <2> HIDE DEF arg, known
    <2>4. /\ phase' = "call" /\ call'.cmd = "finish" /\ call'.arg = arg /\ call'.due = {q}
          /\ Pipes' /\ CallOK' /\ Caches' /\ Gone' = Gone
      <3>1. "finish" \in {"add", "finish"} /\ (back = "execute" => "finish" = "finish" /\ queue # <<>>)
        OBVIOUS
      <3> QED
        BY <2>2, <3>1, InvokeOne, Zenon
    <2>5. Types'
      BY <2>4 DEF SchedulerInv, Types
    <2>6. Loads'
      BY <2>3, <2>4 DEF Loads, Calling
    <2>7. Places'
      BY <2>4, PlacesFrame DEF SchedulerInv
    <2> QED
      BY <2>4, <2>5, <2>6, <2>7 DEF SchedulerInv
  <1> QED
    BY <1>1, <1>2

LEMMA AbortInv ==
    ASSUME SchedulerInv, NEW r \in Reqs, Abort(r)
    PROVE  SchedulerInv'
  <1>1. /\ phase \in {"input", "execute"} /\ Quiet /\ ~Calling("schedule") /\ ~Calling("update")
        /\ phase = "execute" => queue # <<>>
    BY DEF Abort, Quiet, Calling, SchedulerInv, Loads
  <1>2. /\ client' \in [Reqs -> {"new", "sent", "answered", "cancelled"}]
        /\ \A t \in Reqs : client'[t] = "new" => client[t] = "new"
    BY DEF Abort, SchedulerInv, Types
  <1>3. PICK b \in {"input", "execute"}, u \in {FALSE} : b = phase /\ FinishOn({r}, b, u)
    BY <1>1, Zenon DEF Abort
  <1>4. UNCHANGED <<assigned, queue, nextId, outbox, worker, alive>>
    BY DEF Abort
  <1> QED
    BY <1>1, <1>2, <1>3, <1>4, FinishOnInv

LEMMA AbortAllInv ==
    ASSUME SchedulerInv, AbortAll
    PROVE  SchedulerInv'
  <1>1. phase = "input" /\ Quiet /\ ~Calling("schedule") /\ ~Calling("update")
    BY DEF AbortAll, Quiet, Calling
  <1>2. /\ client' \in [Reqs -> {"new", "sent", "answered", "cancelled"}]
        /\ \A t \in Reqs : client'[t] = "new" => client[t] = "new"
    BY DEF AbortAll, SchedulerInv, Types
  <1>3. PICK u \in {TRUE} : FinishOn(DOMAIN assigned, "input", u)
    BY <1>1, Zenon DEF AbortAll
  <1>4. UNCHANGED <<assigned, queue, nextId, outbox, worker, alive>>
    BY DEF AbortAll
  <1> QED
    BY <1>1, <1>2, <1>3, <1>4, FinishOnInv

LEMMA StopInv ==
    ASSUME SchedulerInv, Stop
    PROVE  SchedulerInv'
  <1>1. phase = "input" /\ Quiet /\ ~Calling("schedule") /\ ~Calling("update")
    BY DEF Stop, Quiet, Calling
  <1>2. /\ client' \in [Reqs -> {"new", "sent", "answered", "cancelled"}]
        /\ \A t \in Reqs : client'[t] = "new" => client[t] = "new"
    BY DEF Stop, SchedulerInv, Types
  <1>3. PICK u \in {FALSE} : FinishOn(DOMAIN assigned, "input", u)
    BY <1>1, Zenon DEF Stop
  <1>4. UNCHANGED <<assigned, queue, nextId, outbox, worker, alive>>
    BY DEF Stop
  <1> QED
    BY <1>1, <1>2, <1>3, <1>4, FinishOnInv

LEMMA FinishReturnsInv ==
    ASSUME SchedulerInv, FinishReturns
    PROVE  SchedulerInv'
  <1>1. /\ phase = "call" /\ call.cmd = "finish" /\ Quiet /\ ~Calling("schedule") /\ ~Calling("update")
        /\ call.back \in {"input", "execute"} /\ (call.back = "execute" => queue # <<>>)
    BY DEF FinishReturns, Returned, Quiet, Calling, SchedulerInv, CallOK
  <1>2. /\ client' \in [Reqs -> {"new", "sent", "answered", "cancelled"}]
        /\ \A t \in Reqs : client'[t] = "new" => client[t] = "new"
    BY DEF FinishReturns, SchedulerInv, Types
  <1>3. PICK s, b, u : b = call.back /\ FinishOn(s, b, u)
    BY Zenon DEF FinishReturns
  <1>4. b \in {"input", "execute"} /\ (b = "execute" => queue # <<>>)
    BY <1>1, <1>3
  <1>5. UNCHANGED <<assigned, queue, nextId, outbox, worker, alive>>
    BY DEF FinishReturns
  <1> QED
    BY <1>1, <1>2, <1>3, <1>4, <1>5, FinishOnInv

LEMMA ResetPrefixCacheInv ==
    ASSUME SchedulerInv, ResetPrefixCache
    PROVE  SchedulerInv'
  <1>1. Quiet /\ ~Calling("schedule") /\ ~Calling("update")
    BY DEF ResetPrefixCache, Quiet, Calling
  <1>2. /\ phase' = "call" /\ call'.cmd = "reset" /\ Pipes' /\ CallOK' /\ Caches' /\ Gone' = Gone
    <2> DEFINE arg == [k \in Ranks |-> Done]
    <2>1. Invoke("reset", arg, Ranks, "input", TRUE)
          /\ UNCHANGED <<queue, nextId, outbox, worker, alive>>
      BY DEF ResetPrefixCache
    <2>2. "reset" \in {"load", "pending", "schedule", "update", "reset"}
      OBVIOUS
    <2> HIDE DEF arg
    <2> QED
      BY <1>1, <2>1, <2>2, InvokeAll, Zenon
  <1>3. Types'
    BY <1>2 DEF SchedulerInv, Types, ResetPrefixCache
  <1>4. Loads'
    BY <1>2 DEF Loads, Calling
  <1>5. Places'
    BY <1>2, PlacesFrame DEF SchedulerInv, ResetPrefixCache
  <1> QED
    BY <1>2, <1>3, <1>4, <1>5 DEF SchedulerInv

LEMMA ReceiveInv ==
    ASSUME SchedulerInv, Receive
    PROVE  SchedulerInv'
  <1>1. phase = "call" /\ Up /\ CallOK /\ Pipes
    BY DEF Receive, SchedulerInv, Up
  <1>2. PICK k \in call.due : k = Min(call.due)
    BY <1>1, MinRank DEF Receive, CallOK
  <1>3. k \in Ranks /\ DOMAIN outbox = Ranks
    BY <1>1 DEF CallOK, Pipes
  <1>4. PICK m : m = Head(outbox[k])
    OBVIOUS
  <1>5. /\ inbox[k] = <<>> /\ m = [cmd |-> call.cmd, ok |-> TRUE, val |-> Val(k)]
        /\ outbox[k] = <<m>>
    <2>1. outbox[k] # <<>>
      BY <1>2 DEF Receive
    <2>2. inbox[k] = <<>> /\ outbox[k] = <<[cmd |-> call.cmd, ok |-> TRUE, val |-> Val(k)]>>
      BY <1>1, <1>2, <1>3, <2>1 DEF Pipes, Pipe
    <2>3. ASSUME NEW x
          PROVE  Head(<<x>>) = x
      OBVIOUS
    <2> QED
      BY <1>4, <2>2, <2>3
  <1>6. /\ outbox' = [outbox EXCEPT ![k] = Tail(@)]
        /\ call' = [call EXCEPT !.due = @ \ {k}, !.res = Put(@, k, m)]
        /\ phase' = phase
    <2>1. m.ok /\ m.cmd = call.cmd
      BY <1>5
    <2> QED
      BY <1>2, <1>4, <2>1 DEF Receive
  <1>7. /\ call'.cmd = call.cmd /\ call'.arg = call.arg /\ call'.due = call.due \ {k}
        /\ call'.res = Put(call.res, k, m) /\ call'.back = call.back
        /\ call'.utility = call.utility
        /\ call' = [cmd |-> call'.cmd, arg |-> call'.arg, due |-> call'.due, res |-> call'.res,
                    back |-> call'.back, utility |-> call'.utility]
    <2>1. /\ call = [cmd |-> call.cmd, arg |-> call.arg, due |-> call.due, res |-> call.res,
                     back |-> call.back, utility |-> call.utility]
      BY <1>1 DEF CallOK
    <2> QED
      BY <1>6, <2>1
  <1>8. /\ DOMAIN call'.res = DOMAIN call.res \cup {k} /\ call'.res[k] = m
        /\ \A j \in DOMAIN call.res : j # k /\ call'.res[j] = call.res[j]
    BY <1>1, <1>2, <1>7 DEF Put, CallOK
  <1>9. UNCHANGED <<assigned, queue, nextId, inbox, worker, alive, client>>
    BY DEF Receive
  <1>10. /\ DOMAIN outbox' = Ranks /\ outbox'[k] = <<>>
         /\ \A j \in Ranks \ {k} : outbox'[j] = outbox[j]
    <2>1. ASSUME NEW x
          PROVE  Tail(<<x>>) = <<>>
      OBVIOUS
    <2> QED
      BY <1>3, <1>5, <1>6, <2>1
  <1>11. \A j \in call.due \cup DOMAIN call.res : Val(j)' = Val(j)
    <2>1. ASSUME NEW j \in call.due \ {k}
          PROVE  Val(j)' = Val(j)
      BY <1>1, <1>7, <1>10 DEF Val, CallOK
    <2>2. ASSUME NEW j \in DOMAIN call.res
          PROVE  Val(j)' = Val(j)
      BY <1>1, <1>2, <1>7, <1>8 DEF Val, CallOK
    <2>3. Val(k)' = m.val
      BY <1>7, <1>8 DEF Val
    <2> QED
      BY <1>5, <2>1, <2>2, <2>3
  <1>12. call.cmd \in {"load", "pending", "schedule", "update", "reset"} =>
           \A j \in Ranks : Val(j)' = Val(j)
    BY <1>1, <1>11 DEF CallOK
  <1>13. Pipes'
    <2>1. \A j \in Ranks : Pipe(j)'
      <3>1. Pipe(k)'
        BY <1>5, <1>7, <1>9, <1>10 DEF Pipe
      <3>2. ASSUME NEW j \in Ranks \ {k}, j \in call.due
            PROVE  Pipe(j)'
        <4>1. Val(j)' = Val(j)
          BY <1>11, <3>2
        <4> HIDE DEF Val
        <4>2. Pipe(j)
          BY <1>1 DEF Pipes
        <4> QED
          BY <1>1, <1>6, <1>7, <1>9, <1>10, <3>2, <4>1, <4>2 DEF Pipe
      <3>3. ASSUME NEW j \in Ranks \ {k}, j \notin call.due
            PROVE  Pipe(j)'
        <4>1. Pipe(j)
          BY <1>1 DEF Pipes
        <4> QED
          BY <1>1, <1>6, <1>7, <1>9, <1>10, <3>3, <4>1 DEF Pipe
      <3> QED
        BY <3>1, <3>2, <3>3
    <2>2. Up'
      BY <1>1, <1>6 DEF Up
    <2> QED
      BY <1>1, <1>9, <1>10, <2>1, <2>2 DEF Pipes
  <1>14. CallOK'
    <2>1. DOMAIN call'.res \cap call'.due = {} /\ DOMAIN call'.res \in SUBSET Ranks
      BY <1>1, <1>3, <1>7, <1>8 DEF CallOK
    <2>2. \A j \in DOMAIN call'.res : call'.res[j].cmd = call'.cmd /\ call'.res[j].ok
      <3>1. m.cmd = call.cmd /\ m.ok
        BY <1>5
      <3> QED
        BY <1>1, <1>7, <1>8, <3>1 DEF CallOK
    <2>3. Ranks \ call'.due = (Ranks \ call.due) \cup {k}
      BY <1>3, <1>7
    <2> QED
      BY <1>1, <1>3, <1>7, <1>8, <1>9, <2>1, <2>2, <2>3 DEF CallOK
  <1>15. Types'
    BY <1>6, <1>9 DEF SchedulerInv, Types
  <1>16. Gone' = Gone
    <2>1. \A j \in Ranks : Fresh(j)' = Fresh(j)
      BY <1>6, <1>7, <1>9, <1>12 DEF Fresh, Calling
    <2> QED
      BY <1>9, <2>1 DEF Gone
  <1>17. Caches'
    <2>1. \A j \in Ranks : Queued(j)' = Queued(j)
      BY <1>9 DEF Queued
    <2>2. \A j \in Ranks : Cached(j)' = Cached(j)
      BY <1>6, <1>7, <1>9, <1>12, <2>1 DEF Cached, Calling
    <2> QED
      BY <1>1, <1>9, <2>2 DEF Caches, SchedulerInv
  <1>18. Places'
    BY <1>9, <1>16, PlacesFrame DEF SchedulerInv
  <1>19. Loads'
    <2> HIDE DEF Val
    <2>1. \A c : Calling(c)' <=> Calling(c)
      BY <1>6, <1>7 DEF Calling
    <2>2. \A j \in Ranks : Present(j)' = Present(j)
      BY <1>9 DEF Present
    <2>3. call.due \in SUBSET Ranks
      BY <1>1 DEF CallOK
    <2> HIDE DEF Present
    <2> QED
      BY <1>1, <1>7, <1>9, <1>12, <1>16, <2>1, <2>2, <2>3 DEF SchedulerInv, Loads, Calling
  <1> QED
    BY <1>1, <1>6, <1>13, <1>14, <1>15, <1>17, <1>18, <1>19 DEF SchedulerInv

LEMMA AppendElements ==
    ASSUME NEW T, NEW s \in Seq(T), NEW x \in T
    PROVE  Append(s, x) = [i \in 1 .. Len(s) + 1 |-> IF i = Len(s) + 1 THEN x ELSE s[i]]
  <1> DEFINE t == Append(s, x)
  <1>1. /\ t \in Seq(T) /\ Len(s) \in Nat /\ Len(t) = Len(s) + 1
        /\ \A i \in 1 .. Len(s) + 1 : t[i] = IF i = Len(s) + 1 THEN x ELSE s[i]
    OBVIOUS
  <1> HIDE DEF t
  <1>2. t = [i \in 1 .. Len(s) + 1 |-> t[i]]
    BY <1>1
  <1>3. t = [i \in 1 .. Len(s) + 1 |-> IF i = Len(s) + 1 THEN x ELSE s[i]]
    BY <1>1, <1>2
  <1> QED
    BY <1>3 DEF t

LEMMA QueuedType ==
    ASSUME Types, NEW k \in Ranks
    PROVE  Queued(k) \in Seq(OutputType) /\ Len(Queued(k)) = Len(queue)
  <1>1. queue \in Seq(BatchType) /\ Len(queue) \in Nat
    BY DEF Types
  <1>2. \A i \in 1 .. Len(queue) :
          [id |-> queue[i].id, reqs |-> queue[i].reqs[k]] \in OutputType
    <2>1. \A b \in BatchType : b.id \in Nat /\ b.reqs[k] \in SUBSET Reqs
      BY DEF BatchType
    <2>2. \A i \in 1 .. Len(queue) : queue[i] \in BatchType
      BY <1>1
    <2> QED
      BY <2>1, <2>2 DEF OutputType
  <1> QED
    BY <1>1, <1>2 DEF Queued

LEMMA BatchScheduledInv ==
    ASSUME SchedulerInv, BatchScheduled
    PROVE  SchedulerInv'
  <1> DEFINE out == [k \in Ranks |-> call.res[k].val]
             reqs == [k \in Ranks |-> out[k].reqs]
             finished == UNION {out[k].finished : k \in Ranks}
             batch == [id |-> nextId, reqs |-> reqs, finished |-> finished]
             all == UNION {out[k].reqs : k \in Ranks}
  <1>1. phase = "call" /\ call.cmd = "schedule" /\ call.due = {} /\ Quiet
    BY DEF BatchScheduled, Returned, Quiet
  <1>2. /\ Up /\ DOMAIN inbox = Ranks /\ DOMAIN outbox = Ranks
        /\ \A k \in Ranks : alive[k] /\ inbox[k] = <<>> /\ outbox[k] = <<>>
    BY <1>1, QuietPipes
  <1>3. \A k \in Ranks : Val(k) = out[k]
    BY <1>1 DEF Val
  <1>4. \A k \in Ranks : /\ out[k] \in [reqs : SUBSET DOMAIN assigned, finished : SUBSET Reqs]
                         /\ out[k].reqs \in SUBSET Reqs /\ out[k].finished \in SUBSET Reqs
    <2>1. \A k \in Ranks : Val(k) \in [reqs : SUBSET DOMAIN assigned, finished : SUBSET Reqs]
      BY <1>1, <1>2 DEF SchedulerInv, Loads, Calling
    <2> HIDE DEF out
    <2> QED
      BY <1>3, <2>1 DEF SchedulerInv, Types
  <1>5. all \subseteq DOMAIN assigned
    BY <1>4
  <1>6. /\ queue' = Append(queue, batch) /\ nextId' = (nextId + 1) % (BatchQueueSize + 1)
        /\ phase' \in {"input", "execute"}
        /\ UNCHANGED <<assigned, inbox, outbox, worker, alive, client>>
    BY <1>5 DEF BatchScheduled
  <1>7. batch \in BatchType
    <2> HIDE DEF out
    <2> QED
      BY <1>4 DEF BatchType, SchedulerInv, Types
  <1>8. /\ queue \in Seq(BatchType) /\ Len(queue) \in Nat /\ queue' \in Seq(BatchType)
        /\ queue' # <<>> /\ Len(queue') = Len(queue) + 1
        /\ \A i \in 1 .. Len(queue) : queue'[i] = queue[i]
        /\ queue'[Len(queue) + 1] = batch
    <2>1. queue \in Seq(BatchType)
      BY DEF SchedulerInv, Types
    <2> HIDE DEF batch
    <2> QED
      BY <1>6, <1>7, <2>1
  <1>9. nextId' \in Nat
    <2>1. PICK n \in Nat, d \in Nat \ {0} : n = nextId + 1 /\ d = BatchQueueSize + 1
      BY SchedulerAssumption DEF SchedulerInv, Types
    <2>2. n % d \in Nat
      <3>1. n % d \in 0 .. d - 1
        BY DivMod
      <3> QED
        BY <3>1
    <2> QED
      BY <1>6, <2>1, <2>2
  <1>10. Types'
    BY <1>6, <1>8, <1>9 DEF SchedulerInv, Types
  <1>11. ~Calling("schedule")' /\ ~Calling("update")' /\ Up'
    BY <1>6 DEF Calling, Up
  <1>12. Pipes'
    BY <1>2, <1>6, <1>11 DEF Pipes, Pipe
  <1>13. Loads'
    BY <1>6, <1>8 DEF Loads, Calling
  <1>14. Gone' = Gone
    <2>1. UNION {Fresh(k) : k \in Ranks} = finished
      <3>1. \A k \in Ranks : Fresh(k) = out[k].finished
        BY <1>1, <1>2, <1>3 DEF Fresh, Calling
      <3> HIDE DEF out
      <3> QED
        BY <3>1
    <2>2. \A k \in Ranks : Fresh(k)' = {}
      BY <1>11 DEF Fresh
    <2>3. DOMAIN queue' = DOMAIN queue \cup {Len(queue) + 1} /\ DOMAIN queue = 1 .. Len(queue)
      BY <1>8
    <2>4. queue'[Len(queue) + 1].finished = finished
      BY <1>8
    <2> HIDE DEF finished, batch, Fresh
    <2>5. UNION {queue'[i].finished : i \in DOMAIN queue'}
            = (UNION {queue[i].finished : i \in DOMAIN queue}) \cup finished
      <3>1. \A i \in DOMAIN queue : queue'[i] = queue[i] /\ i \in DOMAIN queue'
        BY <1>8, <2>3
      <3>2. Len(queue) + 1 \in DOMAIN queue'
        BY <2>3
      <3>3. ASSUME NEW x
            PROVE  (\E i \in DOMAIN queue' : x \in queue'[i].finished)
                     <=> (\E i \in DOMAIN queue : x \in queue[i].finished) \/ x \in finished
        BY <2>3, <2>4, <3>1, <3>2
      <3> DEFINE A == {queue'[i].finished : i \in DOMAIN queue'}
                 B == {queue[i].finished : i \in DOMAIN queue}
      <3>4. \A x : /\ x \in UNION A <=> \E i \in DOMAIN queue' : x \in queue'[i].finished
                   /\ x \in UNION B <=> \E i \in DOMAIN queue : x \in queue[i].finished
        OBVIOUS
      <3> HIDE DEF A, B
      <3>5. UNION A = (UNION B) \cup finished
        BY <3>3, <3>4
      <3> QED
        BY <3>5 DEF A, B
    <2>6. UNION {Fresh(k)' : k \in Ranks} = {}
      BY <2>2
    <2> QED
      BY <2>1, <2>5, <2>6 DEF Gone
  <1>15. Places'
    BY <1>6, <1>14, PlacesFrame DEF SchedulerInv
  <1>16. Caches'
    <2>1. ASSUME NEW k \in Ranks
          PROVE  worker'[k].outputs = Cached(k)'
      <3>1. worker[k].outputs = Append(Queued(k), [id |-> nextId, reqs |-> out[k].reqs])
        BY <1>1, <1>2, <1>3 DEF SchedulerInv, Caches, Cached, Calling
      <3>2. Cached(k)' = Queued(k)'
        BY <1>11 DEF Cached
      <3> DEFINE x == [id |-> nextId, reqs |-> out[k].reqs]
      <3>3. queue'[Len(queue) + 1].id = nextId /\ queue'[Len(queue) + 1].reqs[k] = out[k].reqs
        BY <1>8
      <3>4. Queued(k)' = Append(Queued(k), x)
        <4>1. Queued(k) = [i \in 1 .. Len(queue) |-> [id |-> queue[i].id, reqs |-> queue[i].reqs[k]]]
          BY DEF Queued
        <4>2. Queued(k)' = [i \in 1 .. Len(queue) + 1 |-> [id |-> queue'[i].id, reqs |-> queue'[i].reqs[k]]]
          BY <1>8 DEF Queued
        <4>3. Len(Queued(k)) = Len(queue)
          BY <1>8, <4>1
        <4>4. Append(Queued(k), x) = [i \in 1 .. Len(queue) + 1 |-> IF i = Len(queue) + 1 THEN x ELSE Queued(k)[i]]
          <5> HIDE DEF x
          <5>1. Queued(k) \in Seq(OutputType)
            BY QueuedType DEF SchedulerInv
          <5>2. x \in OutputType
            BY <1>4 DEF x, OutputType, SchedulerInv, Types
          <5> QED
            BY <4>3, <5>1, <5>2, AppendElements
        <4>5. \A i \in 1 .. Len(queue) + 1 : i \in 1 .. Len(queue) \/ i = Len(queue) + 1
          BY <1>8
        <4>6. \A i \in 1 .. Len(queue) : i # Len(queue) + 1
                  /\ [id |-> queue'[i].id, reqs |-> queue'[i].reqs[k]] = Queued(k)[i]
          BY <1>8, <4>1
        <4>7. [id |-> queue'[Len(queue) + 1].id, reqs |-> queue'[Len(queue) + 1].reqs[k]] = x
          BY <3>3
        <4> HIDE DEF x, Queued
        <4> QED
          BY <4>2, <4>4, <4>5, <4>6, <4>7
      <3> QED
        BY <1>6, <3>1, <3>2, <3>4
    <2> QED
      BY <2>1 DEF Caches
  <1> QED
    BY <1>6, <1>10, <1>12, <1>13, <1>15, <1>16 DEF SchedulerInv

LEMMA TailElements ==
    ASSUME NEW T, NEW s \in Seq(T), s # <<>>
    PROVE  /\ Len(s) \in Nat /\ Len(s) > 0 /\ Tail(s) \in Seq(T)
           /\ Tail(s) = [i \in 1 .. Len(s) - 1 |-> s[i + 1]]
           /\ Len(Tail(s)) = Len(s) - 1 /\ Head(s) = s[1] /\ Head(s) \in T
  <1> DEFINE t == Tail(s)
  <1>1. /\ t \in Seq(T) /\ Len(s) \in Nat /\ Len(s) > 0 /\ Len(t) = Len(s) - 1
        /\ \A i \in 1 .. Len(s) - 1 : t[i] = s[i + 1]
        /\ Head(s) = s[1] /\ Head(s) \in T
    OBVIOUS
  <1> HIDE DEF t
  <1>2. t = [i \in 1 .. Len(s) - 1 |-> t[i]]
    BY <1>1
  <1>3. t = [i \in 1 .. Len(s) - 1 |-> s[i + 1]]
    BY <1>1, <1>2
  <1> QED
    BY <1>1, <1>3 DEF t

LEMMA UpdateReturnsInv ==
    ASSUME SchedulerInv, UpdateReturns
    PROVE  SchedulerInv'
  <1> DEFINE keep == DOMAIN assigned \ Head(queue).finished
  <1>1. phase = "call" /\ call.cmd = "update" /\ call.due = {} /\ Quiet
    BY DEF UpdateReturns, Returned, Quiet
  <1>2. /\ Up /\ DOMAIN inbox = Ranks /\ DOMAIN outbox = Ranks
        /\ \A k \in Ranks : alive[k] /\ inbox[k] = <<>> /\ outbox[k] = <<>>
    BY <1>1, QuietPipes
  <1>3. queue # <<>> /\ queue \in Seq(BatchType)
    BY <1>1 DEF SchedulerInv, Loads, Calling, Types
  <1>4. phase' = "input"
    BY <1>1 DEF UpdateReturns, SchedulerInv, CallOK
  <1>5. /\ assigned' = [r \in keep |-> assigned[r]] /\ queue' = Tail(queue)
        /\ UNCHANGED <<nextId, inbox, outbox, worker, alive>>
    BY DEF UpdateReturns
  <1>6. PICK stopped : client' = [r \in Reqs |-> IF r \in stopped THEN "answered" ELSE client[r]]
    BY DEF UpdateReturns
  <1>7. DOMAIN assigned' = keep /\ \A r \in keep : assigned'[r] = assigned[r]
    BY <1>5
  <1>8. /\ Len(queue) \in Nat /\ Len(queue) > 0 /\ queue' \in Seq(BatchType)
        /\ Len(queue') = Len(queue) - 1 /\ Head(queue) = queue[1]
        /\ \A i \in 1 .. Len(queue) - 1 : queue'[i] = queue[i + 1]
    <2> HIDE DEF BatchType
    <2>1. queue' = [i \in 1 .. Len(queue) - 1 |-> queue[i + 1]]
      BY <1>3, <1>5, TailElements
    <2>2. /\ Len(queue) \in Nat /\ Len(queue) > 0 /\ queue' \in Seq(BatchType)
          /\ Len(queue') = Len(queue) - 1 /\ Head(queue) = queue[1]
      BY <1>3, <1>5, TailElements
    <2> QED
      BY <2>1, <2>2
  <1>9. ~Calling("schedule") /\ ~Calling("schedule")' /\ ~Calling("update")' /\ Up'
    BY <1>1, <1>4 DEF Calling, Up
  <1>10. client' \in [Reqs -> {"new", "sent", "answered", "cancelled"}]
         /\ \A r \in Reqs : client'[r] = "new" => client[r] = "new"
    BY <1>6 DEF SchedulerInv, Types
  <1>11. Types'
    BY <1>4, <1>5, <1>7, <1>8, <1>10 DEF SchedulerInv, Types
  <1>12. Pipes'
    BY <1>2, <1>4, <1>5, <1>9 DEF Pipes, Pipe
  <1>13. Loads'
    BY <1>4 DEF Loads, Calling
  <1>14. Gone' \subseteq Gone /\ Head(queue).finished \subseteq Gone
    <2>1. \A k \in Ranks : Fresh(k) = {} /\ Fresh(k)' = {}
      BY <1>9 DEF Fresh
    <2>2. \A x : x \in Gone <=> \E i \in DOMAIN queue : x \in queue[i].finished
      BY <2>1 DEF Gone
    <2>3. \A x : x \in Gone' <=> \E i \in DOMAIN queue' : x \in queue'[i].finished
      BY <2>1 DEF Gone
    <2>4. \A i \in DOMAIN queue' : i + 1 \in DOMAIN queue /\ queue'[i] = queue[i + 1]
      BY <1>3, <1>8
    <2>5. 1 \in DOMAIN queue
      BY <1>3, <1>8
    <2> QED
      BY <1>8, <2>2, <2>3, <2>4, <2>5
  <1>15. Places'
    <2>1. \A k \in Ranks : Present(k)' = Present(k)
      BY <1>5 DEF Present
    <2>2. \A k \in Ranks : \A r \in Present(k) : r \in DOMAIN assigned /\ assigned[r] = k /\ r \notin Gone
      BY DEF SchedulerInv, Places
    <2>3. \A r \in Reqs : client[r] = "new" => r \notin DOMAIN assigned /\ r \notin Gone
      BY DEF SchedulerInv, Places
    <2>4. \A k \in Ranks : Live(worker[k])' \cap worker'[k].finished = {}
      BY <1>5 DEF SchedulerInv, Places
    <2> QED
      BY <1>7, <1>10, <1>14, <2>1, <2>2, <2>3, <2>4 DEF Places
  <1>16. Caches'
    <2>1. ASSUME NEW k \in Ranks
          PROVE  worker'[k].outputs = Cached(k)'
      <3>1. worker[k].outputs = Tail(Queued(k))
        BY <1>1, <1>2 DEF SchedulerInv, Caches, Cached, Calling
      <3>2. Cached(k)' = Queued(k)'
        BY <1>9 DEF Cached
      <3>3. Queued(k) \in Seq(OutputType) /\ Len(Queued(k)) = Len(queue) /\ Queued(k) # <<>>
        <4>1. Queued(k) \in Seq(OutputType) /\ Len(Queued(k)) = Len(queue)
          BY QueuedType DEF SchedulerInv
        <4> QED
          BY <1>8, <4>1
      <3>4. Tail(Queued(k)) = [i \in 1 .. Len(queue) - 1 |-> Queued(k)[i + 1]]
        <4> HIDE DEF OutputType
        <4> QED
          BY <3>3, TailElements
      <3>5. \A i \in 1 .. Len(queue) - 1 : Queued(k)[i + 1] = [id |-> queue'[i].id, reqs |-> queue'[i].reqs[k]]
        BY <1>8 DEF Queued
      <3>6. Queued(k)' = [i \in 1 .. Len(queue) - 1 |-> [id |-> queue'[i].id, reqs |-> queue'[i].reqs[k]]]
        BY <1>8 DEF Queued
      <3> HIDE DEF Queued
      <3> QED
        BY <1>5, <3>1, <3>2, <3>4, <3>5, <3>6
    <2> QED
      BY <2>1 DEF Caches
  <1> QED
    BY <1>4, <1>11, <1>12, <1>13, <1>15, <1>16 DEF SchedulerInv

-----------------------------------------------------------------------------
(* Shutdown *)

\* Once the loop has ended nothing but shutdown messages is on its way.
LEMMA DownInv ==
    ASSUME SchedulerInv, ~Up, ~Up', phase' \in {"stopping", "shutdown", "raised", "exited"},
           DOMAIN inbox' = Ranks, DOMAIN outbox' = Ranks,
           \A k \in Ranks : inbox'[k] \in Seq({Stopping}),
           UNCHANGED <<assigned, queue, nextId, worker, client>>
    PROVE  SchedulerInv'
  <1>1. \A c : ~Calling(c) /\ ~Calling(c)'
    BY DEF Up, Calling
  <1>2. Types'
    BY DEF SchedulerInv, Types
  <1>3. Pipes'
    BY DEF Pipes
  <1>4. Loads'
    BY <1>1 DEF Loads, Up
  <1>5. Gone' = Gone
    BY <1>1 DEF Gone, Fresh
  <1>6. Places'
    BY <1>5, PlacesFrame DEF SchedulerInv
  <1>7. Caches'
    BY DEF Caches
  <1> QED
    BY <1>2, <1>3, <1>4, <1>6, <1>7 DEF SchedulerInv

LEMMA ShutdownInv ==
    ASSUME SchedulerInv,
           ShutdownBegin \/ ShutdownCheck \/ ShutdownSend \/ ShutdownAck \/ ShutdownJoin
    PROVE  SchedulerInv'
  <1>1. phase \in {"stopping", "shutdown"} /\ ~Up
    BY DEF ShutdownBegin, ShutdownCheck, ShutdownSend, ShutdownAck, ShutdownJoin, Up,
           SchedulerInv, Types
  <1>2. phase' \in {"shutdown", "raised", "exited"} /\ ~Up'
    BY DEF ShutdownBegin, ShutdownCheck, ShutdownSend, ShutdownAck, ShutdownJoin, Up
  <1>3. UNCHANGED <<assigned, queue, nextId, worker, client>>
    BY DEF ShutdownBegin, ShutdownCheck, ShutdownSend, ShutdownAck, ShutdownJoin
  <1>4. DOMAIN inbox = Ranks /\ DOMAIN outbox = Ranks /\ \A k \in Ranks : inbox[k] \in Seq({Stopping})
    BY <1>1 DEF SchedulerInv, Pipes
  <1>5. DOMAIN outbox' = Ranks
    BY <1>4 DEF ShutdownBegin, ShutdownCheck, ShutdownSend, ShutdownAck, ShutdownJoin
  <1>6. DOMAIN inbox' = Ranks /\ \A k \in Ranks : inbox'[k] \in Seq({Stopping})
    <2>1. CASE ShutdownJoin
      BY <2>1 DEF ShutdownJoin
    <2>2. CASE inbox' = inbox
      BY <1>4, <2>2
    <2>3. CASE \E k : inbox' = [inbox EXCEPT ![k] = Append(@, Stopping)]
      BY <1>4, <2>3, Stopping \in {Stopping}
    <2> QED
      BY <2>1, <2>2, <2>3 DEF ShutdownBegin, ShutdownCheck, ShutdownSend, ShutdownAck, Stopping
  <1> QED
    BY <1>1, <1>2, <1>3, <1>4, <1>5, <1>6, DownInv

-----------------------------------------------------------------------------
(* The workers *)

\* A command worker k takes is the one of the call in progress.
LEMMA TakeCall ==
    ASSUME SchedulerInv, NEW k \in Ranks, NEW c, c # "shutdown", Take(k, c)
    PROVE  /\ Up /\ phase = "call" /\ call.cmd = c /\ k \in call.due
           /\ inbox[k] = <<[cmd |-> c, arg |-> call.arg[k]]>> /\ outbox[k] = <<>>
           /\ Head(inbox[k]).arg = call.arg[k] /\ inbox[k] # <<>>
           /\ worker[k].outputs = Queued(k)
  <1>1. inbox[k] # <<>> /\ Head(inbox[k]).cmd = c
    BY DEF Take
  <1>2. Up
    <2>1. SUFFICES ASSUME ~Up PROVE FALSE
      OBVIOUS
    <2>2. inbox[k] \in Seq({Stopping})
      BY <2>1 DEF SchedulerInv, Pipes
    <2>3. Head(inbox[k]) = Stopping
      BY <1>1, <2>2
    <2> QED
      BY <1>1, <2>3 DEF Stopping
  <1>3. Pipe(k)
    BY <1>2 DEF SchedulerInv, Pipes
  <1>4. /\ phase = "call" /\ k \in call.due /\ outbox[k] = <<>>
        /\ inbox[k] = <<[cmd |-> call.cmd, arg |-> call.arg[k]]>>
    BY <1>1, <1>3 DEF Pipe
  <1>5. call.cmd = c /\ Head(inbox[k]).arg = call.arg[k]
    BY <1>1, <1>4
  <1>6. worker[k].outputs = Queued(k)
    BY <1>1, <1>2 DEF SchedulerInv, Caches, Cached
  <1> QED
    BY <1>1, <1>2, <1>4, <1>5, <1>6

\* What an answer changes of the call.
LEMMA AnswerCall ==
    ASSUME SchedulerInv, NEW k \in Ranks, NEW c, c # "shutdown", Take(k, c),
           NEW val, Answer(k, c, val), UNCHANGED alive
    PROVE  /\ Pipes' /\ CallOK' /\ phase' = "call" /\ call' = call
           /\ inbox'[k] = <<>> /\ Val(k)' = val
           /\ \A j \in Ranks \ {k} : inbox'[j] = inbox[j] /\ Val(j)' = Val(j)
           /\ UNCHANGED <<assigned, queue, nextId, client>>
  <1>1. /\ Up /\ phase = "call" /\ call.cmd = c /\ k \in call.due
        /\ inbox[k] = <<[cmd |-> c, arg |-> call.arg[k]]>> /\ outbox[k] = <<>>
    BY TakeCall
  <1>2. UNCHANGED <<assigned, queue, nextId, phase, call, client>>
    BY DEF Answer
  <1>3. DOMAIN inbox = Ranks /\ DOMAIN outbox = Ranks /\ \A j \in Ranks : alive[j] /\ Pipe(j)
    BY <1>1 DEF SchedulerInv, Pipes
  <1>4. /\ DOMAIN inbox' = Ranks /\ inbox'[k] = <<>>
        /\ \A j \in Ranks \ {k} : inbox'[j] = inbox[j]
    <2>1. ASSUME NEW x
          PROVE  Tail(<<x>>) = <<>>
      OBVIOUS
    <2>2. inbox' = [inbox EXCEPT ![k] = Tail(@)]
      BY DEF Answer
    <2> QED
      BY <1>1, <1>3, <2>1, <2>2
  <1>5. /\ DOMAIN outbox' = Ranks /\ outbox'[k] = <<[cmd |-> c, ok |-> TRUE, val |-> val]>>
        /\ \A j \in Ranks \ {k} : outbox'[j] = outbox[j]
    <2>1. ASSUME NEW x
          PROVE  Append(<<>>, x) = <<x>>
      OBVIOUS
    <2>2. PICK m : m = [cmd |-> c, ok |-> TRUE, val |-> val]
      OBVIOUS
    <2>3. outbox' = [outbox EXCEPT ![k] = Append(@, m)]
      BY <2>2 DEF Answer
    <2> QED
      BY <1>1, <1>3, <2>1, <2>2, <2>3
  <1>6. Val(k)' = val
    BY <1>1, <1>2, <1>5 DEF Val
  <1>7. \A j \in Ranks \ {k} : Val(j)' = Val(j)
    BY <1>2, <1>5 DEF Val
  <1>8. Pipes'
    <2>1. Pipe(k)'
      BY <1>1, <1>2, <1>4, <1>5, <1>6 DEF Pipe
    <2>2. ASSUME NEW j \in Ranks \ {k}
          PROVE  Pipe(j)'
      <3> HIDE DEF Val
      <3> QED
        BY <1>2, <1>3, <1>4, <1>5, <1>7 DEF Pipe
    <2>3. Up'
      BY <1>1, <1>2 DEF Up
    <2> QED
      BY <1>3, <1>4, <1>5, <2>1, <2>2, <2>3 DEF Pipes
  <1>9. CallOK'
    BY <1>1, <1>2 DEF SchedulerInv, CallOK
  <1> QED
    BY <1>1, <1>2, <1>4, <1>6, <1>7, <1>8, <1>9

\* What may become of worker k when it answers val to command c: what it holds
\* is still its own, it has reported what it has dropped, and its cache is as
\* the engine's queue.
Effect(k, c, val, w) ==
    /\ w \in WorkerType /\ Cardinality(w.running) <= MaxNumSeqs
    /\ Live(w) \cap w.finished = {}
    /\ \A r \in Live(w) \cup w.finished :
         r \in Present(k) \/ (c = "add" /\ r = call.arg[k])
    /\ c = "load" => val \in Nat
    /\ c = "schedule" => /\ val \in [reqs : SUBSET DOMAIN assigned, finished : SUBSET Reqs]
                         /\ val.finished = worker[k].finished /\ w.finished = {}
                         /\ Live(w) \subseteq Live(worker[k])
                         /\ w.outputs = Append(Queued(k), [id |-> nextId, reqs |-> val.reqs])
    /\ c = "update" => w.outputs = Tail(Queued(k))
    /\ c \notin {"schedule", "update"} => w.outputs = Queued(k)

LEMMA AnswerInv ==
    ASSUME SchedulerInv, NEW k \in Ranks, NEW c, c # "shutdown", Take(k, c),
           NEW val, Answer(k, c, val), UNCHANGED alive,
           NEW w, worker' = [worker EXCEPT ![k] = w], Effect(k, c, val, w)
    PROVE  SchedulerInv'
  <1>1. /\ Up /\ phase = "call" /\ call.cmd = c /\ k \in call.due
        /\ inbox[k] # <<>> /\ worker[k].outputs = Queued(k)
    BY TakeCall
  <1>2. /\ Pipes' /\ CallOK' /\ phase' = "call" /\ call' = call
        /\ inbox'[k] = <<>> /\ Val(k)' = val
        /\ \A j \in Ranks \ {k} : inbox'[j] = inbox[j] /\ Val(j)' = Val(j)
        /\ UNCHANGED <<assigned, queue, nextId, client>>
    BY AnswerCall
  <1>3. worker'[k] = w /\ \A j \in Ranks \ {k} : worker'[j] = worker[j]
    BY DEF SchedulerInv, Types
  <1>4. Types'
    BY <1>2, <1>3 DEF SchedulerInv, Types, Effect
  <1>5. \A x : Calling(x)' <=> Calling(x)
    BY <1>1, <1>2 DEF Calling
  <1>6. Calling(c) /\ \A x : Calling(x) => x = c
    BY <1>1 DEF Calling
  <1>7. /\ \A j \in Ranks \ {k} : Fresh(j)' = Fresh(j)
        /\ Fresh(k) = {}
        /\ c = "schedule" => Fresh(k)' = worker[k].finished
        /\ c # "schedule" => Fresh(k)' = {}
    <2> HIDE DEF Val
    <2> QED
      BY <1>1, <1>2, <1>5, <1>6 DEF Fresh, Effect
  <1>8. /\ c = "schedule" => Gone' = Gone \cup worker[k].finished
        /\ c # "schedule" => Gone' = Gone
    <2>1. \A x : /\ x \in Gone <=> \/ \E i \in DOMAIN queue : x \in queue[i].finished
                                   \/ \E j \in Ranks : x \in Fresh(j)
                 /\ x \in Gone' <=> \/ \E i \in DOMAIN queue : x \in queue[i].finished
                                    \/ \E j \in Ranks : x \in Fresh(j)'
      BY <1>2 DEF Gone
    <2> HIDE DEF Gone, Fresh
    <2>2. \A x : (\E j \in Ranks : x \in Fresh(j)') <=>
                   (\E j \in Ranks : x \in Fresh(j)) \/ x \in Fresh(k)'
      BY <1>7
    <2>3. \A x : x \in Gone' <=> x \in Gone \/ x \in Fresh(k)'
      BY <2>1, <2>2
    <2> QED
      BY <1>7, <2>3
  <1>9. Caches'
    <2>1. \A j \in Ranks : Queued(j)' = Queued(j)
      BY <1>2 DEF Queued
    <2>2. \A j \in Ranks \ {k} : Cached(j)' = Cached(j)
      <3> HIDE DEF Val, Queued
      <3> QED
        BY <1>2, <1>5, <2>1 DEF Cached
    <2>3. w.outputs = Cached(k)'
      <3> HIDE DEF Val, Queued
      <3> QED
        BY <1>2, <1>5, <1>6, <2>1 DEF Cached, Effect
    <2> QED
      BY <1>1, <1>3, <2>2, <2>3 DEF SchedulerInv, Caches
  <1>10. /\ \A j \in Ranks \ {k} : Present(j)' = Present(j)
         /\ Present(k)' = Live(w) \cup w.finished
    BY <1>3 DEF Present
  <1>11. c = "add" => /\ call.arg[k] \in DOMAIN assigned /\ assigned[call.arg[k]] = k
                      /\ call.arg[k] \notin Gone
    BY <1>1, <1>6 DEF SchedulerInv, Loads
  <1>12. /\ \A j \in Ranks : \A r \in Present(j) :
                 r \in DOMAIN assigned /\ assigned[r] = j /\ r \notin Gone
         /\ worker[k].finished \subseteq Present(k)
         /\ \A r \in Reqs : client[r] = "new" => r \notin DOMAIN assigned /\ r \notin Gone
         /\ \A j \in Ranks : Live(worker[j]) \cap worker[j].finished = {}
    BY DEF SchedulerInv, Places, Present
  <1>13. Places'
    <2> HIDE DEF Present, Live, Gone
    <2>1. \A j \in Ranks : \A r \in Present(j)' : r \in DOMAIN assigned /\ assigned[r] = j
      BY <1>10, <1>11, <1>12 DEF Effect
    <2>2. ASSUME c = "schedule"
          PROVE  \A r \in Present(k)' : r \notin worker[k].finished
      <3>1. \A r \in Present(k)' : r \in Live(worker[k])
        BY <1>10, <2>2 DEF Effect
      <3> QED
        BY <1>12, <3>1
    <2>3. \A j \in Ranks : Present(j)' \cap Gone' = {}
      BY <1>8, <1>10, <1>11, <1>12, <2>1, <2>2 DEF Effect
    <2>4. \A j \in Ranks : Live(worker[j])' \cap worker'[j].finished = {}
      BY <1>3, <1>12 DEF Effect
    <2>5. \A r \in Reqs : client'[r] = "new" => r \notin DOMAIN assigned' /\ r \notin Gone'
      BY <1>2, <1>8, <1>12
    <2> QED
      BY <1>2, <2>1, <2>3, <2>4, <2>5 DEF Places
  <1>14. Loads'
    <2> HIDE DEF Present, Gone, Val
    <2>1. Loads
      BY DEF SchedulerInv
    <2>2. Calling("add")' => \A j \in call'.due :
             /\ call'.arg[j] \in DOMAIN assigned' /\ assigned'[call'.arg[j]] = j
             /\ inbox'[j] # <<>> => call'.arg[j] \notin Gone' /\ call'.arg[j] \notin Present(j)'
      <3>1. call.due \in SUBSET Ranks
        BY <1>1 DEF SchedulerInv, CallOK
      <3> QED
        BY <1>2, <1>5, <1>6, <1>8, <1>10, <2>1, <3>1 DEF Loads
    <2>3. Calling("schedule")' => \A j \in Ranks :
             /\ inbox'[j] # <<>> => call'.arg[j] = nextId'
             /\ inbox'[j] = <<>> => Val(j)' \in [reqs : SUBSET DOMAIN assigned', finished : SUBSET Reqs]
      BY <1>2, <1>5, <1>6, <2>1 DEF Loads, Effect
    <2>4. Calling("load")' =>
             /\ call'.arg[0] \in Reqs \ (DOMAIN assigned' \cup Gone') /\ client'[call'.arg[0]] # "new"
             /\ \A j \in Ranks : inbox'[j] = <<>> => Val(j)' \in Nat
      BY <1>2, <1>5, <1>6, <1>8, <2>1 DEF Loads, Effect
    <2>5. Calling("update")' =>
             /\ queue' # <<>>
             /\ \A j \in Ranks : inbox'[j] # <<>> =>
                  call'.arg[j] = [id |-> Head(queue').id, reqs |-> Head(queue').reqs[j]]
      BY <1>2, <1>5, <2>1 DEF Loads
    <2>6. Calling("finish")' => call'.arg[0] \in SUBSET DOMAIN assigned'
      BY <1>2, <1>5, <2>1 DEF Loads
    <2> QED
      BY <1>2, <2>2, <2>3, <2>4, <2>5, <2>6 DEF Loads
  <1> QED
    BY <1>2, <1>4, <1>9, <1>13, <1>14 DEF SchedulerInv

\* A worker that answers without a change of its scheduler.
LEMMA AnswerSame ==
    ASSUME SchedulerInv, NEW k \in Ranks, NEW c, c \in {"load", "pending"}, Take(k, c),
           NEW val, Answer(k, c, val), UNCHANGED <<alive, worker>>, c = "load" => val \in Nat
    PROVE  SchedulerInv'
  <1>1. PICK w : w = worker[k]
    OBVIOUS
  <1>2. w \in WorkerType /\ worker' = [worker EXCEPT ![k] = w] /\ Cardinality(w.running) <= MaxNumSeqs
    BY <1>1 DEF SchedulerInv, Types
  <1>3. Live(w) \cap w.finished = {} /\ \A r \in Live(w) \cup w.finished : r \in Present(k)
    BY <1>1 DEF SchedulerInv, Places, Present
  <1>4. w.outputs = Queued(k)
    BY <1>1, TakeCall
  <1>e. Effect(k, c, val, w)
    BY <1>2, <1>3, <1>4 DEF Effect
  <1> QED
    BY <1>2, <1>3, <1>4, <1>e, AnswerInv

LEMMA WorkerLoadInv ==
    ASSUME SchedulerInv, NEW k \in Ranks, WorkerLoad(k)
    PROVE  SchedulerInv'
  <1>1. PICK val : val = Tokens(worker[k])
    OBVIOUS
  <1>2. val \in Nat
    <2> DEFINE S == Live(worker[k]) \X (0 .. MaxTokens)
               A == {x \in S : x[2] <= ntok[x[1]]}
    <2>1. IsFiniteSet(Live(worker[k]))
      <3>1. Live(worker[k]) \subseteq Reqs
        BY DEF SchedulerInv, Types, WorkerType, Live, ToSet
      <3> QED
        BY <3>1, SchedulerAssumption, FS_Subset
    <2>2. IsFiniteSet(0 .. MaxTokens)
      BY SchedulerAssumption, FS_Interval
    <2>3. IsFiniteSet(S)
      BY <2>1, <2>2, FS_Product
    <2> HIDE DEF S
    <2>4. IsFiniteSet(A)
      BY <2>3, FS_Subset
    <2> HIDE DEF A
    <2>5. Cardinality(A) \in Nat
      BY <2>4, FS_CardinalityType
    <2> QED
      BY <1>1, <2>5 DEF A, S, Tokens
  <1>3. Take(k, "load") /\ Answer(k, "load", val) /\ UNCHANGED <<alive, worker>>
    BY <1>1 DEF WorkerLoad
  <1> QED
    BY <1>2, <1>3, AnswerSame

LEMMA WorkerPendingInv ==
    ASSUME SchedulerInv, NEW k \in Ranks, WorkerPending(k)
    PROVE  SchedulerInv'
  <1>1. PICK val : Answer(k, "pending", val)
    BY Zenon DEF WorkerPending
  <1>2. Take(k, "pending") /\ UNCHANGED <<alive, worker>>
    BY DEF WorkerPending
  <1>3. "pending" \in {"load", "pending"} /\ ("pending" = "load" => val \in Nat)
    OBVIOUS
  <1> QED
    BY <1>1, <1>2, <1>3, AnswerSame

LEMMA WorkerAddInv ==
    ASSUME SchedulerInv, NEW k \in Ranks, WorkerAdd(k)
    PROVE  SchedulerInv'
  <1>1. Take(k, "add") /\ Answer(k, "add", Done) /\ UNCHANGED alive
    BY DEF WorkerAdd
  <1>2. /\ phase = "call" /\ call.cmd = "add" /\ k \in call.due /\ inbox[k] # <<>>
        /\ Head(inbox[k]).arg = call.arg[k] /\ worker[k].outputs = Queued(k)
    BY <1>1, TakeCall
  <1>3. PICK r \in Reqs : r = call.arg[k] /\ r \notin Present(k)
    BY <1>2 DEF SchedulerInv, Loads, Calling, Types
  <1>4. PICK v : v = worker[k]
    OBVIOUS
  <1>5. v \in WorkerType /\ v.waiting \in Seq(Reqs) /\ Cardinality(v.running) <= MaxNumSeqs
    BY <1>4 DEF SchedulerInv, Types, WorkerType
  <1>6. PICK w : w = [v EXCEPT !.waiting = Append(v.waiting, r)]
    OBVIOUS
  <1>7. Append(v.waiting, r) \in Seq(Reqs) /\ Range(Append(v.waiting, r)) \subseteq Range(v.waiting) \cup {r}
    <2>1. /\ Append(v.waiting, r) \in Seq(Reqs) /\ Len(v.waiting) \in Nat
          /\ Append(v.waiting, r) = [i \in 1 .. Len(v.waiting) + 1 |->
                                        IF i = Len(v.waiting) + 1 THEN r ELSE v.waiting[i]]
      BY <1>5, AppendElements
    <2> QED
      BY <1>5, <2>1 DEF Range
  <1>8. /\ w \in WorkerType /\ w.running = v.running /\ w.finished = v.finished
        /\ w.outputs = v.outputs /\ w.waiting = Append(v.waiting, r)
    BY <1>5, <1>6, <1>7 DEF WorkerType
  <1>9. worker' = [worker EXCEPT ![k] = w]
    BY <1>2, <1>3, <1>4, <1>6 DEF WorkerAdd
  <1>10. Live(w) \subseteq Live(v) \cup {r}
    BY <1>7, <1>8 DEF Live, ToSet, Range
  <1>11. /\ Live(w) \cap w.finished = {}
         /\ \A t \in Live(w) \cup w.finished : t \in Present(k) \/ t = call.arg[k]
    BY <1>3, <1>4, <1>8, <1>10 DEF SchedulerInv, Places, Present
  <1>12. w.outputs = Queued(k) /\ Cardinality(w.running) <= MaxNumSeqs
    BY <1>2, <1>4, <1>5, <1>8
  <1>e. Effect(k, "add", Done, w)
    BY <1>8, <1>11, <1>12 DEF Effect
  <1> QED
    BY <1>1, <1>8, <1>9, <1>11, <1>12, <1>e, AnswerInv

\* Requests of set gone leave worker v and are remembered as finished.
Without(v, gone, out) ==
    [running |-> v.running \ gone, waiting |-> RemoveAll(v.waiting, gone),
     finished |-> v.finished \cup gone, outputs |-> out]

LEMMA FreeRequests ==
    ASSUME SchedulerInv, NEW k \in Ranks, NEW gone \in SUBSET Live(worker[k]),
           NEW w, NEW out \in Seq(OutputType), w = Without(worker[k], gone, out)
    PROVE  /\ w \in WorkerType /\ Cardinality(w.running) <= MaxNumSeqs /\ w.outputs = out
           /\ Live(w) \cap w.finished = {}
           /\ \A r \in Live(w) \cup w.finished : r \in Present(k)
  <1>1. PICK v \in WorkerType : v = worker[k] /\ Cardinality(v.running) <= MaxNumSeqs
    BY DEF SchedulerInv, Types
  <1>2. v.running \in SUBSET Reqs /\ v.waiting \in Seq(Reqs) /\ v.finished \in SUBSET Reqs
    BY DEF WorkerType
  <1>3. /\ RemoveAll(v.waiting, gone) \in Seq(Reqs)
        /\ Range(RemoveAll(v.waiting, gone)) = Range(v.waiting) \ gone
    BY <1>2, RemoveAllProperties
  <1>4. /\ w.running = v.running \ gone /\ w.waiting = RemoveAll(v.waiting, gone)
        /\ w.finished = v.finished \cup gone /\ w.outputs = out
        /\ w = [running |-> w.running, waiting |-> w.waiting, finished |-> w.finished, outputs |-> w.outputs]
    BY <1>1 DEF Without
  <1>5. Live(v) = v.running \cup Range(v.waiting) /\ Live(w) = w.running \cup Range(w.waiting)
    BY DEF Live, ToSet, Range
  <1>6. Live(w) = Live(v) \ gone /\ Live(v) \subseteq Reqs
    <2>1. Range(v.waiting) \subseteq Reqs
      BY <1>2 DEF Range
    <2> QED
      BY <1>2, <1>3, <1>4, <1>5, <2>1
  <1>7. w \in WorkerType
    BY <1>1, <1>2, <1>3, <1>4, <1>6 DEF WorkerType
  <1>8. Cardinality(w.running) <= MaxNumSeqs
    <2>1. IsFiniteSet(v.running)
      BY <1>2, SchedulerAssumption, FS_Subset
    <2>2. IsFiniteSet(w.running) /\ Cardinality(w.running) <= Cardinality(v.running)
      BY <1>4, <2>1, FS_Subset
    <2>3. Cardinality(w.running) \in Nat /\ Cardinality(v.running) \in Nat
      BY <2>1, <2>2, FS_CardinalityType
    <2> QED
      BY <1>1, <2>2, <2>3, SchedulerAssumption
  <1>9. Live(v) \cap v.finished = {} /\ Present(k) = Live(v) \cup v.finished
    BY <1>1 DEF SchedulerInv, Places, Present
  <1> QED
    BY <1>1, <1>4, <1>6, <1>7, <1>8, <1>9

LEMMA WorkerFinishInv ==
    ASSUME SchedulerInv, NEW k \in Ranks, WorkerFinish(k)
    PROVE  SchedulerInv'
  <1>1. Take(k, "finish") /\ Answer(k, "finish", Done) /\ UNCHANGED alive
    BY DEF WorkerFinish
  <1>2. worker[k].outputs = Queued(k)
    BY <1>1, TakeCall
  <1>3. PICK gone \in SUBSET Live(worker[k]) : gone = Head(inbox[k]).arg \cap Live(worker[k])
    OBVIOUS
  <1>4. PICK w : w = Without(worker[k], gone, Queued(k))
    OBVIOUS
  <1>5. worker' = [worker EXCEPT ![k] = w]
    BY <1>2, <1>3, <1>4 DEF WorkerFinish, Without
  <1>6. Queued(k) \in Seq(OutputType)
    BY QueuedType DEF SchedulerInv
  <1>7. /\ w \in WorkerType /\ Cardinality(w.running) <= MaxNumSeqs /\ w.outputs = Queued(k)
        /\ Live(w) \cap w.finished = {}
        /\ \A r \in Live(w) \cup w.finished : r \in Present(k)
    BY <1>4, <1>6, FreeRequests, ZenonT(60)
  <1>e. Effect(k, "finish", Done, w)
    BY <1>7 DEF Effect
  <1> QED
    BY <1>1, <1>5, <1>7, <1>e, AnswerInv

LEMMA WorkerUpdateInv ==
    ASSUME SchedulerInv, NEW k \in Ranks, WorkerUpdate(k)
    PROVE  SchedulerInv'
  <1>1. Take(k, "update") /\ UNCHANGED alive
    BY DEF WorkerUpdate
  <1>2. worker[k].outputs = Queued(k) /\ phase = "call" /\ call.cmd = "update"
    BY <1>1, TakeCall
  <1>3. PICK stop \in SUBSET Live(worker[k]) :
          /\ worker' = [worker EXCEPT ![k] =
                           [running |-> worker[k].running \ stop,
                            waiting |-> RemoveAll(worker[k].waiting, stop),
                            finished |-> worker[k].finished \cup stop,
                            outputs |-> Tail(worker[k].outputs)]]
          /\ Answer(k, "update", stop)
    BY DEF WorkerUpdate
  <1>4. PICK w : w = Without(worker[k], stop, Tail(Queued(k)))
    OBVIOUS
  <1>5. worker' = [worker EXCEPT ![k] = w]
    BY <1>2, <1>3, <1>4 DEF Without
  <1>6. Tail(Queued(k)) \in Seq(OutputType)
    <2>1. Queued(k) \in Seq(OutputType) /\ Len(Queued(k)) = Len(queue)
      BY QueuedType DEF SchedulerInv
    <2>2. Queued(k) # <<>>
      BY <1>2, <2>1 DEF SchedulerInv, Types, Loads, Calling
    <2> HIDE DEF OutputType
    <2> QED
      BY <2>1, <2>2
  <1>7. /\ w \in WorkerType /\ Cardinality(w.running) <= MaxNumSeqs /\ w.outputs = Tail(Queued(k))
        /\ Live(w) \cap w.finished = {}
        /\ \A r \in Live(w) \cup w.finished : r \in Present(k)
    BY <1>4, <1>6, FreeRequests, ZenonT(60)
  <1>e. Effect(k, "update", stop, w)
    BY <1>7 DEF Effect
  <1> QED
    BY <1>1, <1>3, <1>5, <1>7, <1>e, AnswerInv

\* The requests a rank admits are the first n that wait.
LEMMA AdmitCount ==
    ASSUME NEW a \in Nat, NEW b \in Nat, NEW n, n = Min({a, b})
    PROVE  n \in Nat /\ n <= a /\ n <= b
  <1>1. \E m \in {a, b} : \A x \in {a, b} : m <= x
    <2>1. {a, b} \in SUBSET Nat /\ {a, b} # {}
      OBVIOUS
    <2> QED
      BY <2>1, LeastNat
  <1>2. n \in {a, b} /\ \A x \in {a, b} : n <= x
    BY <1>1 DEF Min
  <1> QED
    BY <1>2

LEMMA WorkerScheduleInv ==
    ASSUME SchedulerInv, NEW k \in Ranks, WorkerSchedule(k)
    PROVE  SchedulerInv'
  <1>1. Take(k, "schedule") /\ UNCHANGED alive
    BY DEF WorkerSchedule
  <1>2. /\ phase = "call" /\ call.cmd = "schedule" /\ inbox[k] # <<>>
        /\ Head(inbox[k]).arg = call.arg[k] /\ worker[k].outputs = Queued(k)
    BY <1>1, TakeCall
  <1>3. call.arg[k] = nextId
    BY <1>2 DEF SchedulerInv, Loads, Calling
  <1>4. PICK v \in WorkerType : v = worker[k] /\ Cardinality(v.running) <= MaxNumSeqs
    BY DEF SchedulerInv, Types
  <1>5. /\ v.running \in SUBSET Reqs /\ v.waiting \in Seq(Reqs) /\ v.finished \in SUBSET Reqs
        /\ v.outputs = Queued(k) /\ Len(v.waiting) \in Nat
    BY <1>2, <1>4 DEF WorkerType
  <1>6. IsFiniteSet(v.running) /\ Cardinality(v.running) \in Nat
    BY <1>5, SchedulerAssumption, FS_Subset, FS_CardinalityType
  <1>7. PICK n : n = Min({Len(v.waiting), MaxNumSeqs - Cardinality(v.running)})
    OBVIOUS
  <1>8. n \in 0 .. Len(v.waiting) /\ n + Cardinality(v.running) <= MaxNumSeqs
    <2>1. PICK room \in Nat : room = MaxNumSeqs - Cardinality(v.running)
      BY <1>4, <1>6, SchedulerAssumption
    <2>2. n \in Nat /\ n <= Len(v.waiting) /\ n <= room
      BY <1>5, <1>7, <2>1, AdmitCount
    <2> QED
      BY <1>5, <1>6, <2>1, <2>2, SchedulerAssumption
  <1>9. PICK added : added = {v.waiting[i] : i \in 1 .. n}
    OBVIOUS
  <1>10. PICK reqs \in SUBSET (v.running \cup added) :
           /\ worker' = [worker EXCEPT ![k] =
                [running |-> v.running \cup added,
                 waiting |-> SubSeq(v.waiting, n + 1, Len(v.waiting)),
                 finished |-> {},
                 outputs |-> Append(v.outputs, [id |-> Head(inbox[k]).arg, reqs |-> reqs])]]
           /\ Answer(k, "schedule", [reqs |-> reqs, finished |-> v.finished])
    <2> DEFINE S == {r \in v.running \cup added : Schedulable(v, r)}
    <2>1. S \in SUBSET (v.running \cup added)
      OBVIOUS
    <2>2. /\ worker' = [worker EXCEPT ![k] =
                [running |-> v.running \cup added,
                 waiting |-> SubSeq(v.waiting, n + 1, Len(v.waiting)),
                 finished |-> {},
                 outputs |-> Append(v.outputs, [id |-> Head(inbox[k]).arg, reqs |-> S])]]
          /\ Answer(k, "schedule", [reqs |-> S, finished |-> v.finished])
      BY <1>4, <1>7, <1>9 DEF WorkerSchedule
    <2> HIDE DEF S
    <2> QED
      BY <2>1, <2>2
  <1>11. added \subseteq Range(v.waiting) /\ IsFiniteSet(added) /\ Cardinality(added) <= n
    <2>1. added \subseteq Range(v.waiting)
      BY <1>5, <1>8, <1>9 DEF Range
    <2>2. IsFiniteSet(1 .. n) /\ Cardinality(1 .. n) = n
      BY <1>8, FS_Interval
    <2>3. PICK f : f = [i \in 1 .. n |-> v.waiting[i]]
      OBVIOUS
    <2>4. f \in Surjection(1 .. n, added)
      BY <1>9, <2>3 DEF Surjection
    <2>5. IsFiniteSet(added) /\ Cardinality(added) <= Cardinality(1 .. n)
      BY <2>2, <2>4, FS_Surjection
    <2> QED
      BY <2>1, <2>2, <2>5
  <1>12. PICK rest \in Seq(Reqs) : rest = SubSeq(v.waiting, n + 1, Len(v.waiting))
                                   /\ Range(rest) \subseteq Range(v.waiting)
    <2>1. PICK rest : rest = SubSeq(v.waiting, n + 1, Len(v.waiting))
      OBVIOUS
    <2>2. /\ rest \in Seq(Reqs) /\ Len(rest) = Len(v.waiting) - n
          /\ \A i \in 1 .. Len(rest) : rest[i] = v.waiting[n + i] /\ n + i \in 1 .. Len(v.waiting)
      BY <1>5, <1>8, <2>1
    <2>3. Range(rest) \subseteq Range(v.waiting)
      BY <1>5, <2>2 DEF Range
    <2> QED
      BY <2>1, <2>2, <2>3
  <1>13. PICK val : val = [reqs |-> reqs, finished |-> v.finished]
    OBVIOUS
  <1>14. PICK out : out = Append(Queued(k), [id |-> nextId, reqs |-> reqs])
    OBVIOUS
  <1>15. PICK w : w = [running |-> v.running \cup added, waiting |-> rest, finished |-> {}, outputs |-> out]
    OBVIOUS
  <1>16. worker' = [worker EXCEPT ![k] = w] /\ Answer(k, "schedule", val)
    BY <1>2, <1>3, <1>5, <1>10, <1>12, <1>13, <1>14, <1>15
  <1>17. /\ Live(v) = v.running \cup Range(v.waiting) /\ Live(w) = w.running \cup Range(w.waiting)
         /\ w.running = v.running \cup added /\ w.waiting = rest /\ w.finished = {} /\ w.outputs = out
    BY <1>15 DEF Live, ToSet, Range
  <1>18. Live(w) \subseteq Live(v) /\ Live(v) \subseteq Reqs /\ reqs \subseteq Live(v)
    <2>1. Range(v.waiting) \subseteq Reqs
      BY <1>5 DEF Range
    <2> QED
      BY <1>5, <1>10, <1>11, <1>12, <1>17, <2>1
  <1>19. w \in WorkerType
    <2>1. out \in Seq(OutputType)
      <3>1. Queued(k) \in Seq(OutputType)
        BY QueuedType DEF SchedulerInv
      <3>2. [id |-> nextId, reqs |-> reqs] \in OutputType
        BY <1>18 DEF OutputType, SchedulerInv, Types
      <3> HIDE DEF OutputType
      <3> QED
        BY <1>14, <3>1, <3>2
    <2>2. w.running \in SUBSET Reqs
      BY <1>17, <1>18
    <2> HIDE DEF OutputType
    <2> QED
      BY <1>12, <1>15, <1>17, <2>1, <2>2 DEF WorkerType
  <1>20. Cardinality(w.running) <= MaxNumSeqs
    <2>1. /\ IsFiniteSet(v.running \cup added)
          /\ Cardinality(v.running \cup added) = Cardinality(v.running) + Cardinality(added)
                                                  - Cardinality(v.running \cap added)
      BY <1>6, <1>11, FS_Union
    <2>2. IsFiniteSet(v.running \cap added)
      BY <1>6, FS_Intersection
    <2>3. Cardinality(v.running \cap added) \in Nat /\ Cardinality(added) \in Nat
      BY <1>11, <2>2, FS_CardinalityType
    <2> QED
      BY <1>6, <1>8, <1>11, <1>17, <2>1, <2>3, SchedulerAssumption
  <1>21. Live(v) \subseteq Present(k) /\ Present(k) \subseteq DOMAIN assigned
    BY <1>4 DEF SchedulerInv, Places, Present
  <1>22. /\ val \in [reqs : SUBSET DOMAIN assigned, finished : SUBSET Reqs]
         /\ val.finished = worker[k].finished /\ val.reqs = reqs
    BY <1>4, <1>5, <1>13, <1>18, <1>21
  <1>23. Effect(k, "schedule", val, w)
    BY <1>4, <1>14, <1>17, <1>18, <1>19, <1>20, <1>21, <1>22 DEF Effect
  <1> QED
    BY <1>1, <1>16, <1>23, AnswerInv

LEMMA WorkerResetInv ==
    ASSUME SchedulerInv, NoFaults, NEW k \in Ranks, WorkerReset(k)
    PROVE  SchedulerInv'
  <1>1. Take(k, "reset") /\ Answer(k, "reset", Done) /\ UNCHANGED alive
    BY DEF WorkerReset, NoFaults
  <1>2. worker[k].outputs = Queued(k)
    BY <1>1, TakeCall
  <1>3. PICK v \in WorkerType : v = worker[k] /\ Cardinality(v.running) <= MaxNumSeqs
    BY DEF SchedulerInv, Types
  <1>4. v.running \in SUBSET Reqs /\ v.waiting \in Seq(Reqs) /\ v.finished \in SUBSET Reqs
        /\ v = [running |-> v.running, waiting |-> v.waiting, finished |-> v.finished,
                outputs |-> Queued(k)]
    BY <1>2, <1>3 DEF WorkerType
  <1>5. PICK back \in SetToSeqs(v.running) :
          worker' = [worker EXCEPT ![k] = [running |-> {}, waiting |-> back \o v.waiting,
                                           finished |-> v.finished, outputs |-> v.outputs]]
    BY <1>3 DEF WorkerReset
  <1>6. IsFiniteSet(v.running) /\ Cardinality(v.running) \in Nat
    BY <1>4, SchedulerAssumption, FS_Subset, FS_CardinalityType
  <1>7. back \in Seq(v.running)
    BY <1>5, <1>6 DEF SetToSeqs
  <1>8. PICK joined : joined = back \o v.waiting
    OBVIOUS
  <1>9. joined \in Seq(Reqs) /\ Range(joined) \subseteq v.running \cup Range(v.waiting)
    <2>1. back \in Seq(v.running \cup Range(v.waiting)) /\ v.waiting \in Seq(v.running \cup Range(v.waiting))
      BY <1>4, <1>7 DEF Range
    <2>2. joined \in Seq(v.running \cup Range(v.waiting))
      BY <1>8, <2>1
    <2>3. v.running \cup Range(v.waiting) \in SUBSET Reqs
      BY <1>4 DEF Range
    <2> QED
      BY <2>2, <2>3 DEF Range
  <1>10. PICK w : w = [running |-> {}, waiting |-> joined, finished |-> v.finished, outputs |-> Queued(k)]
    OBVIOUS
  <1>11. worker' = [worker EXCEPT ![k] = w]
    BY <1>2, <1>3, <1>5, <1>8, <1>10
  <1>12. /\ Live(v) = v.running \cup Range(v.waiting) /\ Live(w) = Range(joined)
         /\ w.finished = v.finished /\ w.outputs = Queued(k) /\ w.running = {}
    BY <1>10 DEF Live, ToSet, Range
  <1>13. Queued(k) \in Seq(OutputType)
    BY QueuedType DEF SchedulerInv
  <1>14. w \in WorkerType
    BY <1>4, <1>9, <1>10, <1>13 DEF WorkerType
  <1>15. Cardinality(w.running) <= MaxNumSeqs
    BY <1>12, FS_EmptySet, SchedulerAssumption
  <1>16. Live(v) \cap v.finished = {} /\ Live(v) \cup v.finished = Present(k)
    BY <1>3 DEF SchedulerInv, Places, Present
  <1>17. Effect(k, "reset", Done, w)
    BY <1>9, <1>12, <1>14, <1>15, <1>16 DEF Effect
  <1> QED
    BY <1>1, <1>11, <1>17, AnswerInv

LEMMA WorkerShutdownInv ==
    ASSUME SchedulerInv, NEW k \in Ranks, WorkerShutdown(k)
    PROVE  SchedulerInv'
  <1>1. inbox[k] # <<>> /\ Head(inbox[k]).cmd = "shutdown"
    BY DEF WorkerShutdown, Take
  <1>2. ~Up
    <2>1. SUFFICES ASSUME Up PROVE FALSE
      OBVIOUS
    <2>2. Pipe(k)
      BY <2>1 DEF SchedulerInv, Pipes
    <2>3. phase = "call" /\ inbox[k] = <<[cmd |-> call.cmd, arg |-> call.arg[k]]>>
      BY <1>1, <2>2 DEF Pipe
    <2>4. call.cmd = "shutdown"
      BY <1>1, <2>3
    <2> QED
      BY <2>3, <2>4 DEF SchedulerInv, CallOK
  <1>3. DOMAIN inbox = Ranks /\ DOMAIN outbox = Ranks /\ \A j \in Ranks : inbox[j] \in Seq({Stopping})
    BY <1>2 DEF SchedulerInv, Pipes
  <1>4. /\ inbox' = [inbox EXCEPT ![k] = Tail(@)] /\ DOMAIN outbox' = DOMAIN outbox
        /\ UNCHANGED <<assigned, queue, nextId, phase, worker, client>>
    BY DEF WorkerShutdown, Answer
  <1>5. Tail(inbox[k]) \in Seq({Stopping})
    BY <1>1, <1>3
  <1>6. DOMAIN inbox' = Ranks /\ \A j \in Ranks : inbox'[j] \in Seq({Stopping})
    BY <1>3, <1>4, <1>5
  <1>7. phase' \in {"stopping", "shutdown", "raised", "exited"} /\ ~Up'
    BY <1>2, <1>4 DEF SchedulerInv, Types, Up
  <1> QED
    BY <1>2, <1>3, <1>4, <1>6, <1>7, DownInv

-----------------------------------------------------------------------------

LEMMA InitInv ==
    ASSUME Init
    PROVE  SchedulerInv
  <1>1. Up /\ \A c : ~Calling(c)
    BY DEF Init, Up, Calling
  <1>2. Types
    <2>1. Idle \in WorkerType /\ Idle.running = {}
      BY DEF Idle, WorkerType
    <2>2. Cardinality(Idle.running) <= MaxNumSeqs
      BY <2>1, FS_EmptySet, SchedulerAssumption
    <2>3. assigned = <<>> /\ DOMAIN assigned = {} /\ queue \in Seq(BatchType)
      BY DEF Init
    <2> HIDE DEF Idle, WorkerType, BatchType
    <2> QED
      BY <2>1, <2>2, <2>3 DEF Init, Types
  <1>3. Pipes
    BY <1>1 DEF Init, Pipes, Pipe
  <1>4. Loads
    BY <1>1 DEF Loads, Init
  <1>5. Gone = {}
    BY <1>1 DEF Gone, Fresh, Init
  <1>6. \A k \in Ranks : Live(worker[k]) = {} /\ worker[k].finished = {}
    BY DEF Init, Idle, Live, ToSet
  <1>7. Places
    BY <1>5, <1>6 DEF Places, Present, Init
  <1>8. Caches
    <2>1. \A k \in Ranks : Cached(k) = Queued(k) /\ worker[k].outputs = <<>>
      BY <1>1 DEF Cached, Init, Idle
    <2>2. \A k \in Ranks : Queued(k) = <<>>
      BY DEF Queued, Init
    <2> QED
      BY <2>1, <2>2 DEF Caches
  <1> QED
    BY <1>2, <1>3, <1>4, <1>7, <1>8 DEF SchedulerInv, Init

LEMMA StutterInv ==
    ASSUME SchedulerInv, UNCHANGED vars
    PROVE  SchedulerInv'
  <1>1. /\ assigned' = assigned /\ queue' = queue /\ nextId' = nextId /\ phase' = phase
        /\ call' = call /\ inbox' = inbox /\ outbox' = outbox /\ worker' = worker
        /\ alive' = alive /\ client' = client
    BY DEF vars
  <1>2. Types' /\ Pipes' /\ (phase = "call" => CallOK)'
    BY <1>1 DEF SchedulerInv, Types, Pipes, Pipe, Val, Up, CallOK
  <1>3. Gone' = Gone
    BY <1>1 DEF Gone, Fresh, Val, Calling
  <1>4. Loads' /\ Caches'
    <2>1. \A k : /\ Val(k)' = Val(k) /\ Queued(k)' = Queued(k) /\ Present(k)' = Present(k)
                 /\ Calling(k)' <=> Calling(k)
      BY <1>1 DEF Val, Queued, Present, Calling
    <2>2. \A k : Cached(k)' = Cached(k)
      <3> HIDE DEF Val, Queued, Calling
      <3> QED
        BY <1>1, <2>1 DEF Cached
    <2>3. Loads'
      <3> HIDE DEF Val, Gone, Present, Calling
      <3> QED
        BY <1>1, <1>3, <2>1 DEF SchedulerInv, Loads
    <2>4. Caches'
      BY <1>1, <2>2 DEF SchedulerInv, Caches, Up
    <2> QED
      BY <2>3, <2>4
  <1>5. Places'
    BY <1>1, <1>3, PlacesFrame DEF SchedulerInv
  <1> QED
    BY <1>2, <1>4, <1>5 DEF SchedulerInv

LEMMA NextInv ==
    ASSUME NoFaults, SchedulerInv, [Next]_vars
    PROVE  SchedulerInv'
  <1>1. CASE Engine
    <2>1. ~ReceiveEof
      <3>1. SUFFICES ASSUME ReceiveEof PROVE FALSE
        OBVIOUS
      <3>2. Up /\ CallOK
        BY <3>1 DEF ReceiveEof, SchedulerInv, Up
      <3>3. Min(call.due) \in Ranks
        BY <3>1, <3>2, MinRank DEF ReceiveEof, CallOK
      <3> QED
        BY <3>1, <3>2, <3>3 DEF ReceiveEof, SchedulerInv, Pipes
    <2> QED
      BY <1>1, <2>1, ReceiveInv, AssignRequestInv, CallReturnsInv, StepDecidesInv,
         BatchScheduledInv, UpdateInv, UpdateReturnsInv, FinishReturnsInv, ShutdownInv DEF Engine
  <1>2. CASE Step
    BY <1>2, StepInv
  <1>3. CASE Client
    BY <1>3, AddRequestInv, AbortInv, AbortAllInv, ResetPrefixCacheInv DEF Client
  <1>4. CASE Stop
    BY <1>4, StopInv
  <1>5. ASSUME NEW k \in Ranks, Worker(k)
        PROVE  SchedulerInv'
    BY <1>5, WorkerLoadInv, WorkerAddInv, WorkerPendingInv, WorkerScheduleInv, WorkerUpdateInv,
       WorkerFinishInv, WorkerResetInv, WorkerShutdownInv DEF Worker
  <1>6. \A k \in Ranks : ~Crash(k)
    BY DEF Crash, NoFaults
  <1>7. CASE UNCHANGED vars
    BY <1>7, StutterInv
  <1> QED
    BY <1>1, <1>2, <1>3, <1>4, <1>5, <1>6, <1>7 DEF Next

\* The inductive invariant holds in every run of an engine whose worker
\* processes neither die nor raise, whatever its clients, pauses and shutdown do.
THEOREM SchedulerInvariant ==
    ASSUME NoFaults
    PROVE  Spec => []SchedulerInv
  <1>1. Init => SchedulerInv
    BY InitInv
  <1>2. SchedulerInv /\ [Next]_vars => SchedulerInv'
    BY NextInv
  <1> QED
    BY <1>1, <1>2, PTL DEF Spec

\* Between two calls of the engine the pipes are empty, and during one each rank
\* still to answer has exactly one message, a command or a result of this call.
THEOREM PipesCorrect ==
    ASSUME NoFaults
    PROVE  Spec => []PipesInStep
  <1>1. ASSUME SchedulerInv
        PROVE  PipesInStep
    <2>1. SUFFICES ASSUME ~Down, NEW k \in Ranks
                   PROVE  IF phase = "call" /\ k \in call.due
                          THEN Len(inbox[k] \o outbox[k]) = 1 /\ Head(inbox[k] \o outbox[k]).cmd = call.cmd
                          ELSE inbox[k] \o outbox[k] = <<>>
      BY DEF PipesInStep
    <2>2. Pipe(k)
      BY <1>1, <2>1 DEF SchedulerInv, Types, Pipes, Up, Down
    <2>3. ASSUME NEW x
          PROVE  /\ <<x>> \o <<>> = <<x>> /\ <<>> \o <<x>> = <<x>>
                 /\ Len(<<x>>) = 1 /\ Head(<<x>>) = x
      OBVIOUS
    <2>4. CASE phase = "call" /\ k \in call.due
      <3>1. PICK m : m.cmd = call.cmd /\ inbox[k] \o outbox[k] = <<m>>
        BY <2>2, <2>3, <2>4 DEF Pipe
      <3> QED
        BY <2>3, <2>4, <3>1
    <2>5. CASE ~(phase = "call" /\ k \in call.due)
      <3>1. inbox[k] = <<>> /\ outbox[k] = <<>>
        BY <2>2, <2>5 DEF Pipe
      <3>2. <<>> \o <<>> = <<>>
        OBVIOUS
      <3> QED
        BY <2>5, <3>1, <3>2
    <2> QED
      BY <2>4, <2>5
  <1> QED
    BY <1>1, SchedulerInvariant, PTL

\* Every worker applies a model output to the batch it was computed for, however
\* many batches are under way and whatever is aborted between them.
THEOREM BatchesCorrect ==
    ASSUME NoFaults
    PROVE  Spec => []BatchesPaired
  <1>1. ASSUME SchedulerInv
        PROVE  BatchesPaired
    <2>1. SUFFICES ASSUME NEW k \in Ranks, inbox[k] # <<>>, Head(inbox[k]).cmd = "update"
                   PROVE  worker[k].outputs # <<>> /\ Head(worker[k].outputs) = Head(inbox[k]).arg
      BY DEF BatchesPaired
    <2>2. Up
      <3>1. SUFFICES ASSUME ~Up PROVE FALSE
        OBVIOUS
      <3>2. inbox[k] \in Seq({Stopping})
        BY <1>1, <3>1 DEF SchedulerInv, Pipes
      <3>3. Head(inbox[k]) = Stopping
        BY <2>1, <3>2
      <3> QED
        BY <2>1, <3>3 DEF Stopping
    <2>3. Take(k, "update")
      BY <1>1, <2>1, <2>2 DEF Take, SchedulerInv, Pipes
    <2>4. /\ phase = "call" /\ call.cmd = "update" /\ Head(inbox[k]).arg = call.arg[k]
          /\ worker[k].outputs = Queued(k)
      BY <1>1, <2>3, TakeCall
    <2>5. queue # <<>> /\ call.arg[k] = [id |-> Head(queue).id, reqs |-> Head(queue).reqs[k]]
      BY <1>1, <2>1, <2>4 DEF SchedulerInv, Loads, Calling
    <2>6. Queued(k) \in Seq(OutputType) /\ Len(Queued(k)) = Len(queue)
      BY <1>1, QueuedType DEF SchedulerInv
    <2>7. Len(queue) \in Nat /\ Len(queue) > 0 /\ Head(queue) = queue[1]
      <3>1. queue \in Seq(BatchType)
        BY <1>1 DEF SchedulerInv, Types
      <3> HIDE DEF BatchType
      <3> QED
        BY <2>5, <3>1
    <2>8. Queued(k) # <<>> /\ Head(Queued(k)) = Queued(k)[1]
      <3> HIDE DEF OutputType
      <3> QED
        BY <2>6, <2>7
    <2>9. Queued(k)[1] = [id |-> queue[1].id, reqs |-> queue[1].reqs[k]]
      BY <2>7 DEF Queued
    <2> QED
      BY <2>4, <2>5, <2>7, <2>8, <2>9
  <1> QED
    BY <1>1, SchedulerInvariant, PTL

\* A request lives on the rank assigned_dp_rank names until its end has been
\* reported, so no lookup of a scheduled request raises.
THEOREM PlacesCorrect ==
    ASSUME NoFaults
    PROVE  Spec => []LivesWhereAssigned
  <1>1. SchedulerInv => LivesWhereAssigned
    BY DEF SchedulerInv, Types, Places, Present, LivesWhereAssigned
  <1> QED
    BY <1>1, SchedulerInvariant, PTL
==============================================================================
