----------------------------- MODULE KVTransfer -----------------------------
(***************************************************************************)
(* Disaggregated serving across machines (distributed/tpu_connector.py):   *)
(* a prefill server P, a decode server D, and the connector by which D     *)
(* pulls the KV of a prompt that P has computed.                           *)
(*                                                                         *)
(* P keeps the blocks of a prefilled request, and a copy of its KV, until  *)
(* D's notification arrives or the request expires. With D2H the copy is   *)
(* made by a thread of its own into one of the buffers of HostKVPool. The  *)
(* notification is handled by the listener thread while the engine thread  *)
(* looks for expired requests, both on reqs_wait_pull and with no lock.    *)
(*                                                                         *)
(* D allocates blocks, lets a thread pull the KV, and inserts it when the  *)
(* scheduler takes the request up again, just before the model runs; only  *)
(* then does it notify P, over a channel that may lose the message.        *)
(*                                                                         *)
(* A prompt is the full blocks Key[r], and Rest[r] = 1 if a partly filled  *)
(* block follows them, which is never transferred. A request keeps to      *)
(* those blocks, and D to the order of arrival. Time is the set late of    *)
(* the requests whose expiration_time has passed.                          *)
(***************************************************************************)
EXTENDS Filtering, SequencesExt, TLC

CONSTANTS Reqs,      \* requests
          Key,       \* Key[r]: the full blocks of r's prompt
          Rest,     \* Rest[r]: 1 if the prompt has a last, partial block
          PBlocks,   \* blocks of P
          DBlocks,   \* blocks of D
          D2H,       \* TPU_ENABLE_D2H_TRANSFER
          PoolSize,  \* buffers of HostKVPool
          Aborts,    \* the requests whose clients may abort them on D
          Overlap,   \* the listener and the engine thread may meet on an entry
          None

Blocks  == 1 .. DBlocks
Buffers == 1 .. PoolSize
NoBuffer == -1

ASSUME TransferAssumption ==
  /\ IsFiniteSet(Reqs) /\ None \notin Reqs
  /\ PBlocks \in Nat /\ DBlocks \in Nat /\ PoolSize \in Nat \ {0}
  /\ Aborts \subseteq Reqs
  /\ \A r \in Reqs : /\ DOMAIN Key[r] = 1 .. Len(Key[r]) /\ Len(Key[r]) \in Nat
                     /\ Rest[r] \in {0, 1} /\ Len(Key[r]) + Rest[r] > 0
                     /\ Len(Key[r]) + Rest[r] <= PBlocks
                     /\ Len(Key[r]) + Rest[r] <= DBlocks

VARIABLES
  \* P: the scheduler
  pst,       \* the requests: away, waiting, held (finished, blocks kept), gone
  pq,        \* waiting
  pfin,      \* finished_req_ids is not empty
  toSend,    \* reqs_to_send
  late,      \* their expiration_time has passed
  \* P: the worker
  d2h,       \* the threads of kv_d2h_executor: none, queued, copying into buf
  entry,     \* reqs_wait_pull
  uuids,     \* kv_pull_uuid_to_req_id_map
  avail,     \* HostKVPool.available_indices
  lis,       \* the listener thread
  pth,       \* the engine thread inside get_finished
  chan,      \* notifications under way
  \* D: the scheduler
  dst,       \* the requests: away, waiting, remote, promoted, running,
             \* aborted (finished, blocks kept), done
  dwait, dskip, dpass,  \* waiting, skipped_waiting, step_skipped_waiting
  dpc,       \* idle, or inside schedule()
  held,      \* the blocks of each request
  comp,      \* how many of them the scheduler takes for computed
  hash,      \* the prefix cache: what each block is filed under
  dfin,      \* finished_req_ids is not empty
  recvd,     \* finished_recving_kv_req_ids
  toLoad,    \* reqs_to_load: no, pull (blocks to pull), none (None)
  asked,     \* do_remote_prefill has been set to False
  \* D: the worker
  pulling,   \* reqs_pulling: no, busy, got (thread has returned), kv (stored)
  content,   \* the KV in each block
  failed     \* an assertion of either side has failed

psched  == <<pst, pq, pfin, toSend, late>>
pwork   == <<d2h, entry, uuids, avail, lis, pth>>
dsched  == <<dst, dwait, dskip, dpass, dpc, held, comp, hash, dfin, recvd, toLoad, asked>>
dwork   == <<pulling, content>>
vars    == <<psched, pwork, chan, dsched, dwork, failed>>

NoEntry == [exp |-> "none", buf |-> NoBuffer]
NoCopy  == [pc |-> "none", buf |-> NoBuffer]
Idle    == [pc |-> "idle", r |-> None, buf |-> NoBuffer]
Top     == [pc |-> "top", r |-> None, buf |-> NoBuffer, todo |-> {}, sent |-> {}, ran |-> {}]

Init ==
  /\ pst = [r \in Reqs |-> "away"] /\ pq = <<>> /\ pfin = FALSE /\ toSend = {} /\ late = {}
  /\ d2h = [r \in Reqs |-> NoCopy] /\ entry = [r \in Reqs |-> NoEntry] /\ uuids = {}
  /\ avail = [i \in 1 .. PoolSize |-> i]
  /\ lis = Idle /\ pth = Top /\ chan = {}
  /\ dst = [r \in Reqs |-> "away"]
  /\ dwait = <<>> /\ dskip = <<>> /\ dpass = <<>> /\ dpc = "idle"
  /\ held = [r \in Reqs |-> <<>>] /\ comp = [r \in Reqs |-> 0]
  /\ hash = [b \in Blocks |-> None]
  /\ dfin = FALSE /\ recvd = {} /\ toLoad = [r \in Reqs |-> "no"] /\ asked = {}
  /\ pulling = [r \in Reqs |-> "no"] /\ content = [b \in Blocks |-> None]
  /\ failed = FALSE

Least(m, n) == IF m <= n THEN m ELSE n
Size(r) == Len(Key[r]) + Rest[r]
Sum(S)  == Cardinality({x \in S \X (1 .. PBlocks) : x[2] <= Size(x[1])})

---------------------------------------------------------------------------
(* P: the scheduler and get_finished, in the engine thread.                *)

PArrive(r) ==
  /\ pst[r] = "away"
  /\ pst' = [pst EXCEPT ![r] = "waiting"] /\ pq' = Append(pq, r)
  /\ UNCHANGED <<pfin, toSend, late, pwork, chan, dsched, dwork, failed>>

PFree == PBlocks - Sum({r \in Reqs : pst[r] = "held"} \cup pth.ran)

\* The waiting requests that fit, in the order of arrival.
Admitted ==
  LET fit == {n \in 0 .. Len(pq) : Sum(Range(SubSeq(pq, 1, n))) <= PFree}
  IN  CHOOSE n \in fit : \A m \in fit : m <= n

\* schedule(), then process_send_load: what has been prefilled goes to a
\* copying thread, or straight to reqs_wait_pull. An engine with neither
\* unfinished nor just finished requests does not step.
PStep ==
  /\ pth.pc = "top" /\ (pq # <<>> \/ pfin)
  /\ pq' = SubSeq(pq, Admitted + 1, Len(pq))
  /\ pfin' = FALSE /\ toSend' = {}
  /\ d2h' = IF ~D2H THEN d2h
            ELSE [r \in Reqs |-> IF r \in toSend THEN [NoCopy EXCEPT !.pc = "queued"]
                                      ELSE d2h[r]]
  /\ entry' = IF D2H THEN entry
              ELSE [r \in Reqs |-> IF r \in toSend THEN [exp |-> "live", buf |-> NoBuffer]
                                   ELSE entry[r]]
  /\ uuids' = IF D2H THEN uuids ELSE uuids \cup toSend
  /\ pth' = [Top EXCEPT !.pc = "visit", !.ran = Range(SubSeq(pq, 1, Admitted)),
                        !.todo = {r \in Reqs : entry'[r] # NoEntry}]
  /\ UNCHANGED <<pst, late, avail, lis, chan, dsched, dwork, failed>>

\* now > expires: the time has come, or the listener has set it to -1.
OverNotified(r) == entry[r].exp = "notified"
Over(r) == entry[r].exp = "notified" \/ r \in late

PVisit(r) ==
  /\ pth.pc = "visit" /\ r \in pth.todo
  /\ Overlap \/ lis.r # r
  /\ pth' = IF Over(r)
            THEN [pth EXCEPT !.todo = @ \ {r}, !.r = r, !.buf = entry[r].buf,
                             !.pc = IF entry[r].buf = NoBuffer THEN "delete" ELSE "return"]
            ELSE [pth EXCEPT !.todo = @ \ {r}]
  /\ UNCHANGED <<psched, d2h, entry, uuids, avail, lis, chan, dsched, dwork, failed>>

\* HostKVPool.return_buffer: the put blocks while the queue is full.
PReturn ==
  /\ pth.pc = "return" /\ Len(avail) < PoolSize
  /\ avail' = Append(avail, pth.buf)
  /\ pth' = [pth EXCEPT !.pc = "delete"]
  /\ UNCHANGED <<psched, d2h, entry, uuids, lis, chan, dsched, dwork, failed>>

PDelete ==
  /\ pth.pc = "delete"
  /\ entry' = [entry EXCEPT ![pth.r] = NoEntry]
  /\ pth' = [pth EXCEPT !.pc = "visit", !.r = None, !.buf = NoBuffer, !.sent = @ \cup {pth.r}]
  /\ UNCHANGED <<psched, d2h, uuids, avail, lis, chan, dsched, dwork, failed>>

\* update_from_output: finished_sending frees blocks; the prompts computed in
\* this step have their one token, and request_finished keeps the blocks of
\* those with a full block.
PUpdate ==
  /\ pth.pc = "visit" /\ pth.todo = {}
  /\ failed' = (failed \/ \E r \in pth.sent : pst[r] # "held")
  /\ pst' = [r \in Reqs |-> IF r \in pth.sent THEN "gone"
                            ELSE IF r \in pth.ran
                            THEN IF Key[r] = <<>> THEN "gone" ELSE "held"
                            ELSE pst[r]]
  /\ toSend' = {r \in pth.ran : Key[r] # <<>>}
  /\ pfin' = (pth.ran # {})
  /\ pth' = Top
  /\ UNCHANGED <<pq, late, d2h, entry, uuids, avail, lis, chan, dsched, dwork>>

\* The expiration time passes, whether or not D has pulled the KV.
Expire(r) ==
  /\ pst[r] = "held" /\ r \notin late
  /\ late' = late \cup {r}
  /\ UNCHANGED <<pst, pq, pfin, toSend, pwork, chan, dsched, dwork, failed>>

---------------------------------------------------------------------------
(* P: the copying threads and the listener.                                *)

\* get_buffer waits for a buffer.
CopyBegin(r) ==
  /\ d2h[r].pc = "queued" /\ avail # <<>>
  /\ d2h' = [d2h EXCEPT ![r] = [pc |-> "copy", buf |-> Head(avail)]] /\ avail' = Tail(avail)
  /\ UNCHANGED <<psched, entry, uuids, lis, pth, chan, dsched, dwork, failed>>

CopyEnd(r) ==
  /\ d2h[r].pc = "copy"
  /\ entry' = [entry EXCEPT ![r] = [exp |-> "live", buf |-> d2h[r].buf]]
  /\ uuids' = uuids \cup {r}
  /\ d2h' = [d2h EXCEPT ![r] = NoCopy]
  /\ UNCHANGED <<psched, avail, lis, pth, chan, dsched, dwork, failed>>

\* A notification for a request that is not known any more is dropped.
ListenDrop(r) ==
  /\ lis.pc = "idle" /\ r \in chan
  /\ r \notin uuids \/ entry[r] = NoEntry
  /\ Overlap \/ pth.r # r
  /\ chan' = chan \ {r}
  /\ UNCHANGED <<psched, pwork, dsched, dwork, failed>>

Listen(r) ==
  /\ lis.pc = "idle" /\ r \in chan
  /\ r \in uuids /\ entry[r] # NoEntry
  /\ Overlap \/ pth.r # r
  /\ chan' = chan \ {r}
  /\ lis' = [pc |-> IF entry[r].buf = NoBuffer THEN "mark" ELSE "return",
             r |-> r, buf |-> entry[r].buf]
  /\ UNCHANGED <<psched, d2h, entry, uuids, avail, pth, dsched, dwork, failed>>

ListenReturn ==
  /\ lis.pc = "return" /\ Len(avail) < PoolSize
  /\ avail' = Append(avail, lis.buf)
  /\ lis' = [lis EXCEPT !.pc = "mark"]
  /\ UNCHANGED <<psched, d2h, entry, uuids, pth, chan, dsched, dwork, failed>>

\* Only the expiration time is set to -1.
ListenMarkOnly ==
  /\ lis.pc = "mark"
  /\ lis' = Idle
  /\ entry' = [entry EXCEPT ![lis.r].exp = "notified"]
  /\ uuids' = uuids \ {lis.r}
  /\ UNCHANGED <<psched, d2h, avail, pth, chan, dsched, dwork, failed>>

\* Expiration time and buffer are set to -1; if the entry is gone by now the
\* listener dies of a KeyError.
ListenMark ==
  /\ lis.pc = "mark"
  /\ IF entry[lis.r] = NoEntry
     THEN lis' = [Idle EXCEPT !.pc = "dead"] /\ UNCHANGED <<entry, uuids>>
     ELSE /\ lis' = Idle
          /\ entry' = [entry EXCEPT ![lis.r] = [exp |-> "notified", buf |-> NoBuffer]]
          /\ uuids' = uuids \ {lis.r}
  /\ UNCHANGED <<psched, d2h, avail, pth, chan, dsched, dwork, failed>>

\* The channel loses a notification; nobody waits for an answer to it.
Lose(r) ==
  /\ r \in chan /\ chan' = chan \ {r}
  /\ UNCHANGED <<psched, pwork, dsched, dwork, failed>>

---------------------------------------------------------------------------
(* D: requests come and go.                                                *)

\* The proxy forwards the request once P has answered.
DArrive(r) ==
  /\ dst[r] = "away" /\ pst[r] \in {"held", "gone"}
  /\ dst' = [dst EXCEPT ![r] = "waiting"] /\ dwait' = Append(dwait, r)
  /\ UNCHANGED <<psched, pwork, chan, dskip, dpass, dpc, held, comp, hash, dfin, recvd,
                 toLoad, asked, dwork, failed>>

Without(s, r) == RemoveAll(s, {r})

\* has_unfinished_requests: skipped_waiting counts too.
UnfinishedUnskipped(r) == dst[r] \in {"waiting", "running"}
Unfinished(r) == dst[r] \in {"waiting", "remote", "promoted", "running"}

\* finish_requests: the blocks stay while the pulling thread is at work.
DAbort(r) ==
  /\ dpc = "idle" /\ r \in Aborts
  /\ Unfinished(r)
  /\ LET keep == dst[r] = "remote" /\ r \notin recvd
     IN  /\ dst' = [dst EXCEPT ![r] = IF keep THEN "aborted" ELSE "done"]
         /\ held' = IF keep THEN held ELSE [held EXCEPT ![r] = <<>>]
         /\ comp' = IF keep THEN comp ELSE [comp EXCEPT ![r] = 0]
  /\ dwait' = Without(dwait, r) /\ dskip' = Without(dskip, r)
  /\ recvd' = recvd \ {r} /\ dfin' = TRUE
  /\ UNCHANGED <<psched, pwork, chan, dpass, dpc, hash, toLoad, asked, dwork, failed>>

---------------------------------------------------------------------------
(* D: schedule(), one request of the queues at a time.                     *)

FreeBlocks == Blocks \ UNION {Range(held[r]) : r \in Reqs}

\* n free blocks: which ones does not matter to the connector.
Fresh(n, from) == CHOOSE f \in [1 .. n -> from] : IsInjective(f)

\* get_computed_blocks: the cached prefix, never the whole prompt.
Hit(r) ==
  LET Filed(h) == \E b \in Blocks : hash[b] = h
      most     == Least(Len(Key[r]), Size(r) - 1)
      n == CHOOSE n \in 0..most : /\ \A i \in 1..n : Filed(Key[r][i])
                                  /\ n < most => ~Filed(Key[r][n + 1])
  IN  [i \in 1..n |-> CHOOSE b \in Blocks : hash[b] = Key[r][i]]

\* get_num_new_matched_tokens, in blocks: the rest of the full blocks, once.
External(r) ==
  IF r \in asked \/ Key[r] = <<>> THEN 0 ELSE Len(Key[r]) - Len(Hit(r))

\* cache_blocks: the full blocks of r are filed; fresh blocks lose what they
\* were filed under.
FileAll(r, blocks, fresh) ==
  [b \in Blocks |->
     IF \E i \in DOMAIN Key[r] : blocks[i] = b
     THEN Key[r][CHOOSE i \in DOMAIN Key[r] : blocks[i] = b]
     ELSE IF b \in Range(fresh) THEN None ELSE hash[b]]

\* delay_cache_blocks: what is to be pulled is not filed yet.
UnfiledAtOnce(r, blocks, fresh) == FileAll(r, blocks, fresh)
Unfiled(r, blocks, fresh) == [b \in Blocks |-> IF b \in Range(fresh) THEN None ELSE hash[b]]

DBegin ==
  /\ dpc = "idle"
  /\ dfin \/ \E r \in Reqs : Unfinished(r)
  /\ dpc' = "pass" /\ dfin' = FALSE
  /\ UNCHANGED <<psched, pwork, chan, dst, dwait, dskip, dpass, held, comp, hash, recvd,
                 toLoad, asked, dwork, failed>>

Queue == IF dskip # <<>> THEN dskip ELSE dwait

\* A request whose KV is on the way is passed over.
DPassOver ==
  /\ dpc = "pass" /\ Queue # <<>>
  /\ LET r == Head(Queue)
     IN  /\ dst[r] = "remote" /\ r \notin recvd
         /\ dpass' = <<r>> \o dpass
         /\ dwait' = Without(dwait, r) /\ dskip' = Without(dskip, r)
  /\ UNCHANGED <<psched, pwork, chan, dst, dpc, held, comp, hash, dfin, recvd, toLoad,
                 asked, dwork, failed>>

\* A request that has its KV, or needs none: its blocks, and how many of
\* them are computed.
Ready(r)  == dst[r] = "promoted" \/ (dst[r] = "remote" /\ r \in recvd)
Old(r)    == IF Ready(r) THEN held[r] ELSE Hit(r)
Fits(r)   == Size(r) - Len(Old(r)) <= Cardinality(FreeBlocks \ Range(Old(r)))

\* The whole prompt must fit, but only the blocks to be pulled are allocated,
\* and they are not filed yet.
DPull ==
  /\ dpc = "pass" /\ Queue # <<>>
  /\ LET r     == Head(Queue)
         fresh == Fresh(External(r), FreeBlocks \ Range(Hit(r)))
     IN  /\ dst[r] = "waiting" /\ External(r) > 0 /\ Fits(r)
         /\ dst' = [dst EXCEPT ![r] = "remote"]
         /\ held' = [held EXCEPT ![r] = Hit(r) \o fresh]
         /\ comp' = [comp EXCEPT ![r] = Len(Key[r])]
         /\ hash' = Unfiled(r, Hit(r) \o fresh, fresh)
         /\ toLoad' = [toLoad EXCEPT ![r] = "pull"]
         /\ asked' = asked \cup {r}
         /\ dpass' = <<r>> \o dpass
         /\ dwait' = Without(dwait, r) /\ dskip' = Without(dskip, r)
  /\ UNCHANGED <<psched, pwork, chan, dpc, dfin, recvd, dwork, failed>>

\* The request runs. One that has been received is first promoted, and its
\* blocks filed.
DRun ==
  /\ dpc = "pass" /\ Queue # <<>>
  /\ LET r     == Head(Queue)
         fresh == Fresh(Size(r) - Len(Old(r)), FreeBlocks \ Range(Old(r)))
     IN  /\ Ready(r) \/ (dst[r] = "waiting" /\ External(r) = 0)
         /\ Fits(r)
         /\ dst' = [dst EXCEPT ![r] = "running"]
         /\ held' = [held EXCEPT ![r] = Old(r) \o fresh]
         /\ comp' = [comp EXCEPT ![r] = IF Ready(r) THEN @ ELSE Len(Hit(r))]
         /\ hash' = FileAll(r, Old(r) \o fresh, fresh)
         /\ toLoad' = [toLoad EXCEPT ![r] = IF Key[r] = <<>> THEN "no" ELSE "none"]
         /\ asked' = asked \cup {r}
         /\ recvd' = recvd \ {r}
         /\ dwait' = Without(dwait, r) /\ dskip' = Without(dskip, r)
  /\ UNCHANGED <<psched, pwork, chan, dpass, dpc, dfin, dwork, failed>>

\* No room for the request at the head: the pass is over. If it has been
\* received it is promoted all the same, and its blocks are filed.
DNoRoom ==
  /\ dpc = "pass" /\ Queue # <<>>
  /\ LET r == Head(Queue)
     IN  /\ Ready(r) \/ dst[r] = "waiting"
         /\ ~Fits(r)
         /\ dst' = [dst EXCEPT ![r] = IF Ready(r) THEN "promoted" ELSE @]
         /\ hash' = IF Ready(r) THEN FileAll(r, held[r], <<>>) ELSE hash
         /\ recvd' = recvd \ {r}
  /\ dpc' = "work"
  /\ UNCHANGED <<psched, pwork, chan, dwait, dskip, dpass, held, comp, dfin, toLoad, asked,
                 dwork, failed>>

DPassEnd ==
  /\ dpc = "pass" /\ Queue = <<>>
  /\ dpc' = "work"
  /\ UNCHANGED <<psched, pwork, chan, dst, dwait, dskip, dpass, held, comp, hash, dfin,
                 recvd, toLoad, asked, dwork, failed>>

---------------------------------------------------------------------------
(* D: the worker's part of the step, and the pulling threads.              *)

Runs == {r \in Reqs : dst[r] = "running"}
\* The None-metadata requests that were pulled: their KV is inserted.
ToInsert == {r \in Reqs : toLoad[r] = "none" /\ pulling[r] # "no"}
ReceivedAgain == {r \in Reqs : pulling[r] \in {"got", "kv"}}
Received == {r \in Reqs : pulling[r] = "got"}

\* Block i of r is written in this step: inserted or computed.
Written(r, i) ==
  \/ r \in ToInsert
  \/ r \in Runs /\ i > comp[r]

\* The KV in the blocks once the step has inserted and computed.
After ==
  LET Writers(b) == {r \in Reqs : \E i \in DOMAIN Key[r] \cap DOMAIN held[r] :
                                    held[r][i] = b /\ Written(r, i)}
      KeyAt(r, b) == Key[r][CHOOSE i \in DOMAIN Key[r] : held[r][i] = b]
  IN  [b \in Blocks |-> IF Writers(b) = {} THEN content[b]
                        ELSE KeyAt(CHOOSE r \in Writers(b) : TRUE, b)]

\* D tells P as soon as its thread has the KV.
NotifiedEarly == ToInsert \cup Received
Notified == ToInsert

\* process_send_load, the model, get_finished and update_from_output. A
\* request runs for one step or two.
DWork ==
  /\ dpc = "work"
  /\ failed' = (failed \/ (\E r \in ToInsert : pulling[r] # "kv")
                       \/ (\E r \in Received : dst[r] \notin {"remote", "aborted"}))
  /\ content' = After
  /\ pulling' = [r \in Reqs |->
       CASE r \in ToInsert                              -> "no"
         [] toLoad[r] = "pull" /\ pulling[r] = "no"     -> "busy"
         [] r \in Received                              -> "kv"
         [] OTHER                                       -> pulling[r]]
  /\ chan' = chan \cup Notified
  /\ toLoad' = [r \in Reqs |-> "no"]
  /\ \E stay \in SUBSET {r \in Runs : comp[r] < Size(r)} :
       LET over == (Runs \ stay) \cup {r \in Received : dst[r] = "aborted"}
       IN  /\ dst' = [r \in Reqs |-> IF r \in over THEN "done" ELSE dst[r]]
           /\ held' = [r \in Reqs |-> IF r \in over THEN <<>> ELSE held[r]]
           /\ comp' = [r \in Reqs |-> IF r \in stay THEN Size(r)
                                     ELSE IF r \in over THEN 0 ELSE comp[r]]
           /\ dfin' = (Runs \ stay # {})
  /\ recvd' = recvd \cup {r \in Received : dst[r] = "remote"}
  /\ dskip' = Reverse(dpass) \o dskip /\ dpass' = <<>>
  /\ dpc' = "idle"
  /\ UNCHANGED <<psched, pwork, dwait, hash, asked>>

\* The pull waits until P offers the KV; what it does when P has dropped it
\* is not to be seen in this repository, and here it waits for ever.
PullEnd(r) ==
  /\ pulling[r] = "busy" /\ entry[r] # NoEntry
  /\ pulling' = [pulling EXCEPT ![r] = "got"]
  /\ UNCHANGED <<psched, pwork, chan, dsched, content, failed>>

---------------------------------------------------------------------------
PThread == PStep \/ (\E r \in Reqs : PVisit(r)) \/ PReturn \/ PDelete \/ PUpdate
Copies(r) == CopyBegin(r) \/ CopyEnd(r)
Listener == (\E r \in Reqs : ListenDrop(r) \/ Listen(r)) \/ ListenReturn \/ ListenMark
DThread == DBegin \/ DPassOver \/ DPull \/ DRun \/ DNoRoom \/ DPassEnd \/ DWork

Environment == \E r \in Reqs : PArrive(r) \/ DArrive(r) \/ DAbort(r) \/ Expire(r) \/ Lose(r)
Workers     == \E r \in Reqs : Copies(r) \/ PullEnd(r)

Next ==
  \/ DThread
  \/ PThread
  \/ Listener
  \/ Workers
  \/ Environment

\* The threads keep running, time passes and the proxy forwards what P has
\* answered: weak fairness, written out. Clients need not come and need not
\* abort; a notification need not arrive.
PReady ==
  /\ pth.pc = "top" => pq # <<>> \/ pfin
  /\ pth.pc = "visit" => pth.todo = {} \/ \E r \in pth.todo : Overlap \/ lis.r # r
  /\ pth.pc = "return" => Len(avail) < PoolSize
LReady ==
  /\ lis.pc # "dead"
  /\ lis.pc = "idle" => \E r \in chan : Overlap \/ pth.r # r
  /\ lis.pc = "return" => Len(avail) < PoolSize
DReady == dpc # "idle" \/ dfin \/ \E r \in Reqs : Unfinished(r)

Fairness ==
  /\ []<>~PReady \/ []<><<pth' # pth>>_vars
  /\ []<>~LReady \/ []<><<lis' # lis \/ chan' # chan>>_vars
  /\ []<>~DReady \/ []<><<dpc' # dpc \/ dpass' # dpass \/ dst' # dst>>_vars
  /\ \A r \in Reqs : /\ []<>~(d2h[r].pc = "queued" /\ avail # <<>>)
                     /\ []<>(d2h[r].pc # "copy")
                     /\ []<>~(pulling[r] = "busy" /\ entry[r] # NoEntry)
                     /\ []<>~(pst[r] = "held" /\ r \notin late)
                     /\ []<>~(dst[r] = "away" /\ pst[r] \in {"held", "gone"})

Spec == Init /\ [][Next]_vars /\ Fairness

---------------------------------------------------------------------------
(* Properties.                                                             *)

\* Every request is in one of the states of its server, every thread at one of
\* its steps, and P has handed out no more blocks than it has.
TypeOK ==
  /\ \A r \in Reqs :
       /\ pst[r] \in {"away", "waiting", "held", "gone"}
       /\ dst[r] \in {"away", "waiting", "remote", "promoted", "running", "aborted", "done"}
       /\ d2h[r] \in [pc : {"none", "queued", "copy"}, buf : {NoBuffer} \cup Buffers]
       /\ entry[r].buf \in {NoBuffer} \cup Buffers
       /\ pulling[r] \in {"no", "busy", "got", "kv"}
       /\ Range(held[r]) \subseteq Blocks
  /\ PFree \in Nat
  /\ lis.pc \in {"idle", "return", "mark", "dead"}
  /\ pth.pc \in {"top", "visit", "return", "delete"}

\* A buffer of HostKVPool is free or belongs to one copying thread or to one
\* entry of reqs_wait_pull, and none is lost, whoever returns it: the
\* listener or the engine thread.
Owners(b) ==
  {<<"copy", r>> : r \in {r \in Reqs : d2h[r].buf = b}}
    \cup {<<"entry", r>> : r \in {r \in Reqs : /\ entry[r].buf = b
                                               /\ ~(lis.r = r /\ lis.pc = "mark")
                                               /\ ~(pth.r = r /\ pth.pc = "delete")}}
    \cup {<<"free", i>> : i \in {i \in DOMAIN avail : avail[i] = b}}
PoolExclusive == \A b \in Buffers : Cardinality(Owners(b)) = 1

\* P gives up the blocks of a request before its time is over only if D has
\* put the KV into its own blocks.
ReleasedAfterInsert ==
  \A r \in Reqs : pst[r] = "gone" /\ Key[r] # <<>> /\ r \notin late =>
                    dst[r] \in {"running", "done"}

\* D never runs a request on a block that does not hold the KV of its prompt:
\* pulled, computed here or found in the prefix cache.
ReadsExact ==
  dpc = "work" =>
    \A r \in Runs : \A i \in DOMAIN Key[r] : After[held[r][i]] = Key[r][i]

\* No assertion fails: KV is inserted only after the pulling thread has
\* returned it, and each server frees a request once, while it knows it.
NeverFails == ~failed

\* The prompts that wait on P are all admitted in the end: the blocks that
\* earlier requests keep for D come back, even if every notification is lost.
PAdmits == []<>(pq = <<>>)

\* D still has to pull the KV of r.
Wanted(r) == dst[r] \in {"away", "waiting"} \/ pulling[r] = "busy" \/ toLoad[r] = "pull"

\* The requests of D are all served or aborted in the end, unless P lets one
\* expire whose KV D has yet to pull.
DServes == []<>(\/ \A r \in Reqs : dst[r] \in {"away", "aborted", "done"}
                \/ \E r \in late : Wanted(r))
=============================================================================
