-------------------------- MODULE KVTransferProofs --------------------------
(***************************************************************************)
(* The transfer of KV between two servers: P frees the blocks of a prompt  *)
(* once, and before its time is over only after D has inserted the KV; no  *)
(* assertion of either side fails; P never hands out more blocks than it   *)
(* has. All this holds whether or not the listener and the engine thread   *)
(* of P meet on an entry of reqs_wait_pull. That no buffer of HostKVPool   *)
(* is handed out twice or lost holds if they do not.                       *)
(***************************************************************************)
EXTENDS KVTransfer, Lemmas

Bufs == {NoBuffer} \cup Buffers

PTypes ==
  /\ pst \in [Reqs -> {"away", "waiting", "held", "gone"}]
  /\ pq \in Seq(Reqs) /\ toSend \in SUBSET Reqs /\ late \in SUBSET Reqs
  /\ d2h \in [Reqs -> {NoCopy, [NoCopy EXCEPT !.pc = "queued"]} \cup [pc : {"copy"}, buf : Buffers]]
  /\ entry \in [Reqs -> {NoEntry} \cup [exp : {"live", "notified"}, buf : Bufs]]
  /\ avail \in Seq(Buffers)
  /\ lis \in [pc : {"idle", "return", "mark", "dead"}, r : Reqs \cup {None}, buf : Bufs]
  /\ pth \in [pc : {"top", "visit", "return", "delete"}, r : Reqs \cup {None}, buf : Bufs,
              todo : SUBSET Reqs, sent : SUBSET Reqs, ran : SUBSET Reqs]

DTypes ==
  /\ dst \in [Reqs -> {"away", "waiting", "remote", "promoted", "running", "aborted", "done"}]
  /\ dwait \in Seq(Reqs) /\ dskip \in Seq(Reqs) /\ dpass \in Seq(Reqs)
  /\ dpc \in {"idle", "pass", "work"}
  /\ held \in [Reqs -> Seq(Blocks)]
  /\ recvd \in SUBSET Reqs
  /\ toLoad \in [Reqs -> {"no", "pull", "none"}]
  /\ pulling \in [Reqs -> {"no", "busy", "got", "kv"}]

Held == {r \in Reqs : pst[r] = "held"}

\* The threads of P: what they are at, and on which request.
PThreads ==
  /\ pth.pc = "top" => pth = Top
  /\ pth.pc # "top" => toSend = {}
  /\ pth.pc \in {"top", "visit"} => pth.r = None
  /\ pth.pc \in {"return", "delete"} => pth.r \in Reqs /\ entry[pth.r] # NoEntry
  /\ pth.pc = "return" => pth.buf \in Buffers
  /\ lis.pc \in {"return", "mark"} => lis.r \in Reqs
  /\ lis.pc = "return" => lis.buf \in Buffers

\* A prompt is waiting, computed in this step, or held; a held one is to be
\* sent, being copied, offered in reqs_wait_pull, or sent, one after the other.
PLife ==
  /\ IsInjective(pq)
  /\ \A r \in Range(pq) : pst[r] = "waiting" /\ r \notin pth.ran
  /\ \A r \in pth.ran : pst[r] = "waiting"
  /\ \A r \in toSend : pst[r] = "held" /\ d2h[r] = NoCopy /\ entry[r] = NoEntry /\ r \notin pth.sent
  /\ \A r \in Reqs : d2h[r] # NoCopy => pst[r] = "held" /\ entry[r] = NoEntry /\ r \notin pth.sent
  /\ \A r \in Reqs : entry[r] # NoEntry => pst[r] = "held" /\ r \notin pth.sent
  /\ \A r \in pth.sent : pst[r] = "held"
  /\ \A r \in pth.todo : entry[r] # NoEntry /\ r # pth.r

\* P has handed out no more blocks than it has.
PFits == Sum(Held \cup pth.ran) <= PBlocks

\* Where the pull of r is, by the state D's scheduler has r in.
DLife(r) ==
  /\ dst[r] \in {"away", "waiting"} => pulling[r] = "no" /\ toLoad[r] = "no"
  /\ dst[r] = "remote" => /\ toLoad[r] # "none"
                          /\ toLoad[r] = "pull" <=> pulling[r] = "no"
                          /\ r \in recvd <=> pulling[r] = "kv"
  /\ dst[r] = "promoted" => pulling[r] = "kv" /\ toLoad[r] = "no"
  /\ dst[r] = "running" => /\ pulling[r] \in {"no", "kv"} /\ toLoad[r] # "pull"
                           /\ pulling[r] = "kv" => toLoad[r] = "none"
  /\ dst[r] = "aborted" => pulling[r] \in {"busy", "got"} /\ toLoad[r] = "no"
  /\ dst[r] = "done" => pulling[r] \in {"no", "kv"} /\ toLoad[r] = "no"
  /\ r \in recvd => dst[r] = "remote"
  /\ dpc = "idle" => toLoad[r] = "no"
  /\ dst[r] \in {"remote", "promoted"} => Key[r] # <<>>

\* Whatever makes P release r comes from D having inserted its KV, or from r
\* having expired.
Inserted(r) == dst[r] \in {"running", "done"}
Released(r) ==
  /\ r \in chan => Inserted(r)
  /\ lis.pc \in {"return", "mark"} /\ lis.r = r => Inserted(r)
  /\ entry[r].exp = "notified" => Inserted(r)
  /\ r = pth.r \/ r \in pth.sent \/ (pst[r] = "gone" /\ Key[r] # <<>>)
       => r \in late \/ Inserted(r)

PInv == PTypes /\ PThreads /\ PLife /\ PFits
DInv == DTypes /\ \A r \in Reqs : DLife(r)

TransferInv ==
  /\ PInv /\ DInv /\ NeverFails
  /\ chan \subseteq Reqs /\ \A r \in Reqs : Released(r)

\* The buffer that the entry of r stands for; none once a thread returned it.
Returned(r) == (lis.r = r /\ lis.pc = "mark") \/ (pth.r = r /\ pth.pc = "delete")
EntryBuf(r) == IF Returned(r) THEN NoBuffer ELSE entry[r].buf

\* The threads of P never meet on an entry.
PoolThreads ==
  /\ lis.pc # "dead"
  /\ lis.pc = "idle" => lis.r = None
  /\ lis.pc \in {"return", "mark"} => entry[lis.r] # NoEntry /\ lis.r # pth.r
  /\ lis.pc = "return" => entry[lis.r].buf = lis.buf
  /\ pth.pc = "return" => entry[pth.r].buf = pth.buf

\* Every buffer is free, in use by one copying thread or by one entry.
PoolShared ==
  /\ IsInjective(avail)
  /\ \A r \in Reqs : d2h[r].buf \notin Range(avail) /\ EntryBuf(r) \notin Range(avail)
  /\ \A r, s \in Reqs :
       /\ d2h[r].buf = d2h[s].buf => r = s \/ d2h[r].buf = NoBuffer
       /\ EntryBuf(r) = EntryBuf(s) => r = s \/ EntryBuf(r) = NoBuffer
       /\ d2h[r].buf = EntryBuf(s) => d2h[r].buf = NoBuffer
  /\ \A b \in Buffers : \/ b \in Range(avail)
                        \/ \E r \in Reqs : d2h[r].buf = b \/ EntryBuf(r) = b

PoolInv == PoolThreads /\ PoolShared

-----------------------------------------------------------------------------
(* The blocks of P *)

\* The blocks of a set of prompts, counted together.
LEMMA SumProperties ==
    ASSUME NEW S \in SUBSET Reqs, NEW T \in SUBSET Reqs
    PROVE  /\ Sum({}) = 0
           /\ Sum(S) \in Nat
           /\ S \subseteq T => Sum(S) <= Sum(T)
           /\ Sum(S \cup T) <= Sum(S) + Sum(T)
  <1> DEFINE Slots(U) == {x \in U \X (1 .. PBlocks) : x[2] <= Size(x[1])}
  <1>1. ASSUME NEW U \in SUBSET Reqs
        PROVE  IsFiniteSet(Slots(U)) /\ Sum(U) = Cardinality(Slots(U)) /\ Sum(U) \in Nat
    <2>1. IsFiniteSet(U) /\ IsFiniteSet(1 .. PBlocks)
      BY TransferAssumption, FS_Subset, FS_Interval
    <2>2. IsFiniteSet(U \X (1 .. PBlocks))
      BY <2>1, FS_Product
    <2>3. IsFiniteSet(Slots(U))
      BY <2>2, FS_Subset
    <2> QED
      BY <2>3, FS_CardinalityType DEF Sum
  <1>2. Slots({}) = {}
    OBVIOUS
  <1>3. Slots(S \cup T) = Slots(S) \cup Slots(T)
    OBVIOUS
  <1>4. S \subseteq T => Slots(S) \subseteq Slots(T)
    OBVIOUS
  <1> HIDE DEF Slots
  <1>5. Sum({}) = 0
    BY <1>1, <1>2, FS_EmptySet
  <1>6. S \subseteq T => Sum(S) <= Sum(T)
    BY <1>1, <1>4, FS_Subset
  <1>7. Sum(S \cup T) <= Sum(S) + Sum(T)
    <2>1. Cardinality(Slots(S) \cup Slots(T))
            = Cardinality(Slots(S)) + Cardinality(Slots(T)) - Cardinality(Slots(S) \cap Slots(T))
      BY <1>1, FS_Union
    <2>2. Cardinality(Slots(S) \cap Slots(T)) \in Nat
      BY <1>1, FS_Intersection, FS_CardinalityType
    <2>3. Sum(S \cup T) = Cardinality(Slots(S) \cup Slots(T))
      <3>1. S \cup T \in SUBSET Reqs
        OBVIOUS
      <3> QED
        BY <3>1, <1>1, <1>3
    <2> QED
      BY <2>1, <2>2, <2>3, <1>1
  <1> QED
    BY <1>1, <1>5, <1>6, <1>7

\* A step of P admits a prefix of the queue that fits in the free blocks.
LEMMA AdmittedProperties ==
    ASSUME PInv
    PROVE  /\ PFree \in Nat
           /\ Admitted \in 0 .. Len(pq)
           /\ Sum(Range(SubSeq(pq, 1, Admitted))) <= PFree
  <1> DEFINE fit == {n \in 0 .. Len(pq) : Sum(Range(SubSeq(pq, 1, n))) <= PFree}
  <1>1. Held \in SUBSET Reqs /\ pth.ran \in SUBSET Reqs /\ pq \in Seq(Reqs)
    BY DEF PInv, PTypes, Held
  <1>2. PFree \in Nat
    <2>1. Sum(Held \cup pth.ran) \in Nat
      BY <1>1, SumProperties
    <2> QED
      BY <2>1, TransferAssumption DEF PInv, PFits, PFree, Held
  <1>3. 0 \in fit
    <2>1. SubSeq(pq, 1, 0) = <<>>
      BY SubSeqEmpty
    <2>2. Range(<<>>) = {}
      BY DEF Range
    <2>3. Sum({}) = 0
      BY <1>1, SumProperties
    <2>4. 0 \in 0 .. Len(pq)
      BY <1>1
    <2>5. Sum(Range(SubSeq(pq, 1, 0))) = 0
      BY <2>1, <2>2, <2>3, Zenon
    <2>6. Sum(Range(SubSeq(pq, 1, 0))) <= PFree
      BY <2>5, <1>2
    <2> QED
      BY <2>4, <2>6, Zenon
  <1>4. \E n \in fit : \A m \in fit : m <= n
    <2>1. fit \in SUBSET (0 .. Len(pq)) /\ Len(pq) \in Nat /\ fit # {}
      BY <1>1, <1>3
    <2> HIDE DEF fit
    <2> QED
      BY <2>1, GreatestNat
  <1>5. Admitted \in fit
    BY <1>4 DEF Admitted
  <1> QED
    BY <1>2, <1>5

-----------------------------------------------------------------------------
(* The server that a step leaves alone *)

LEMMA DFrame ==
    ASSUME DInv, UNCHANGED <<dsched, dwork>>
    PROVE  DInv'
  BY DEF DInv, DTypes, DLife, dsched, dwork

LEMMA PFrame ==
    ASSUME PInv, UNCHANGED <<psched, pwork>>
    PROVE  PInv'
  <1>1. PTypes'
    BY DEF PInv, PTypes, psched, pwork
  <1>2. PThreads'
    BY DEF PInv, PThreads, psched, pwork
  <1>3. PLife'
    BY DEF PInv, PLife, psched, pwork
  <1>4. PFits'
    BY DEF PInv, PFits, Held, psched, pwork
  <1> QED
    BY <1>1, <1>2, <1>3, <1>4 DEF PInv

LEMMA InitInv ==
    ASSUME Init
    PROVE  TransferInv
  <1>1. PTypes
    <2>1. [i \in 1 .. PoolSize |-> i] \in Seq(Buffers)
      BY TransferAssumption DEF Buffers
    <2> QED
      BY <2>1 DEF Init, PTypes, NoCopy, NoEntry, Idle, Top, Bufs
  <1>2. PThreads
    BY TransferAssumption DEF Init, PThreads, Idle, Top
  <1>3. PLife
    BY DEF Init, PLife, Top, NoCopy, NoEntry, IsInjective, Range
  <1>4. PFits
    <2>1. Held = {} /\ pth.ran = {}
      BY DEF Init, Held, Top
    <2>2. Sum({}) = 0
      BY SumProperties
    <2> QED
      BY <2>1, <2>2, TransferAssumption DEF PFits
  <1>5. DInv
    BY DEF Init, DInv, DTypes, DLife
  <1>6. NeverFails /\ chan \subseteq Reqs
    BY DEF Init, NeverFails
  <1>7. \A r \in Reqs : Released(r)
    BY TransferAssumption DEF Init, Released, Idle, Top, NoEntry
  <1> QED
    BY <1>1, <1>2, <1>3, <1>4, <1>5, <1>6, <1>7 DEF TransferInv, PInv

-----------------------------------------------------------------------------
(* The steps of P *)

LEMMA PArriveInv ==
    ASSUME TransferInv, NEW r \in Reqs, PArrive(r)
    PROVE  TransferInv'
  <1>1. pst[r] = "away" /\ pst \in [Reqs -> {"away", "waiting", "held", "gone"}]
        /\ pq \in Seq(Reqs) /\ r \notin Range(pq) /\ r \notin pth.ran
    BY DEF PArrive, TransferInv, PInv, PTypes, PLife
  <1>2. pq' \in Seq(Reqs) /\ Range(pq') = Range(pq) \cup {r} /\ IsInjective(pq')
    BY <1>1, InjectiveAppend DEF PArrive, TransferInv, PInv, PLife
  <1>3. PTypes'
    BY <1>1, <1>2 DEF PArrive, pwork, TransferInv, PInv, PTypes
  <1>4. PThreads'
    BY DEF PArrive, pwork, TransferInv, PInv, PThreads
  <1>5. PLife'
    <2>1. \A s \in Reqs : pst'[s] = IF s = r THEN "waiting" ELSE pst[s]
      BY <1>1 DEF PArrive
    <2>2. Range(pq') \subseteq Reqs /\ pth.ran \subseteq Reqs /\ pth.sent \subseteq Reqs
          /\ pth.todo \subseteq Reqs /\ toSend \subseteq Reqs
      BY <1>2, RangeOfSeq DEF TransferInv, PInv, PTypes
    <2> QED
      BY <1>1, <1>2, <2>1, <2>2 DEF PArrive, pwork, TransferInv, PInv, PLife
  <1>6. PFits'
    <2>1. Held' = Held
      BY <1>1 DEF PArrive, Held
    <2> QED
      BY <2>1 DEF PArrive, pwork, TransferInv, PInv, PFits
  <1>7. DInv'
    BY DFrame DEF PArrive, TransferInv
  <1>8. \A s \in Reqs : Released(s)'
    BY <1>1 DEF PArrive, pwork, dsched, TransferInv, Released, Inserted
  <1> QED
    BY <1>3, <1>4, <1>5, <1>6, <1>7, <1>8 DEF TransferInv, PInv, PArrive, NeverFails

LEMMA PStepInv ==
    ASSUME TransferInv, PStep
    PROVE  TransferInv'
  <1> DEFINE adm == Range(SubSeq(pq, 1, Admitted))
  <1>1. /\ pq \in Seq(Reqs) /\ IsInjective(pq) /\ Admitted \in 0 .. Len(pq)
        /\ Sum(adm) <= PFree /\ PFree \in Nat
    BY AdmittedProperties DEF TransferInv, PInv, PTypes, PLife
  <1>2. /\ pq' \in Seq(Reqs) /\ IsInjective(pq') /\ Range(pq') = Range(pq) \ adm
        /\ adm \subseteq Range(pq) /\ Range(pq) \subseteq Reqs
    BY <1>1, SplitQueue, RangeOfSeq DEF PStep
  <1>3. pth = Top /\ toSend' = {} /\ pth'.pc = "visit" /\ pth'.ran = adm /\ pth'.sent = {}
        /\ pth'.r = None /\ pth'.buf = NoBuffer /\ pth'.todo = {r \in Reqs : entry'[r] # NoEntry}
    BY DEF PStep, TransferInv, PInv, PThreads, Top
  <1>4. UNCHANGED <<pst, late, avail, lis, chan>>
    BY DEF PStep
  <1>5. ASSUME NEW r \in Reqs
        PROVE  /\ d2h'[r] = IF D2H /\ r \in toSend THEN [NoCopy EXCEPT !.pc = "queued"] ELSE d2h[r]
               /\ entry'[r] = IF ~D2H /\ r \in toSend THEN [exp |-> "live", buf |-> NoBuffer]
                              ELSE entry[r]
    BY DEF PStep, TransferInv, PInv, PTypes
  <1>6. PTypes'
    <2>1. d2h' \in [Reqs -> {NoCopy, [NoCopy EXCEPT !.pc = "queued"]} \cup [pc : {"copy"}, buf : Buffers]]
      BY DEF PStep, TransferInv, PInv, PTypes
    <2>2. entry' \in [Reqs -> {NoEntry} \cup [exp : {"live", "notified"}, buf : Bufs]]
      BY DEF PStep, TransferInv, PInv, PTypes, Bufs
    <2>3. pth' \in [pc : {"top", "visit", "return", "delete"}, r : Reqs \cup {None}, buf : Bufs,
                    todo : SUBSET Reqs, sent : SUBSET Reqs, ran : SUBSET Reqs]
      BY <1>2 DEF PStep, Top, Bufs
    <2> QED
      BY <1>2, <1>3, <1>4, <2>1, <2>2, <2>3 DEF TransferInv, PInv, PTypes
  <1>7. PThreads'
    BY <1>3, <1>4 DEF TransferInv, PInv, PThreads
  <1>8. PLife'
    <2>1. \A r \in Reqs : entry'[r] # NoEntry => entry[r] # NoEntry \/ r \in toSend
      BY <1>5
    <2>2. \A r \in Reqs : d2h'[r] # NoCopy => /\ d2h[r] # NoCopy \/ r \in toSend
                                              /\ entry'[r] = NoEntry
      BY <1>5 DEF TransferInv, PInv, PLife
    <2> QED
      BY <1>2, <1>3, <1>4, <2>1, <2>2, TransferAssumption DEF TransferInv, PInv, PLife
  <1>9. PFits'
    <2>1. Held' = Held /\ Held \in SUBSET Reqs /\ adm \in SUBSET Reqs /\ pth.ran = {}
      BY <1>2, <1>3, <1>4 DEF Held, Top
    <2>2. PFree = PBlocks - Sum(Held)
      <3>1. Held \cup pth.ran = Held
        BY <2>1
      <3> QED
        BY <3>1 DEF PFree, Held
    <2>3. Sum(Held \cup adm) <= Sum(Held) + Sum(adm) /\ Sum(Held) \in Nat /\ Sum(adm) \in Nat
          /\ Sum(Held \cup adm) \in Nat
      <3>1. Held \cup adm \in SUBSET Reqs
        BY <2>1
      <3> QED
        BY <3>1, <2>1, SumProperties
    <2>4. Sum(Held \cup adm) <= PBlocks
      BY <2>2, <2>3, <1>1, TransferAssumption
    <2> QED
      BY <2>1, <2>4, <1>3 DEF PFits
  <1>10. DInv'
    BY DFrame DEF PStep, TransferInv
  <1>11. \A r \in Reqs : Released(r)'
    <2>1. \A r \in Reqs : entry'[r].exp = "notified" => entry[r].exp = "notified"
      BY <1>5
    <2>2. \A r \in Reqs : Inserted(r)' <=> Inserted(r)
      BY DEF PStep, dsched, Inserted
    <2> QED
      BY <1>3, <1>4, <2>1, <2>2, TransferAssumption DEF TransferInv, Released
  <1> QED
    BY <1>4, <1>6, <1>7, <1>8, <1>9, <1>10, <1>11 DEF TransferInv, PInv, PStep, NeverFails

LEMMA PVisitInv ==
    ASSUME TransferInv, NEW r \in Reqs, PVisit(r)
    PROVE  TransferInv'
  <1>1. /\ pth.pc = "visit" /\ r \in pth.todo /\ pth.r = None /\ toSend = {}
        /\ entry[r] # NoEntry /\ entry[r].buf \in Bufs
    BY DEF PVisit, TransferInv, PInv, PTypes, PThreads, PLife, NoEntry
  <1>2. /\ pth' \in [pc : {"top", "visit", "return", "delete"}, r : Reqs \cup {None}, buf : Bufs,
                     todo : SUBSET Reqs, sent : SUBSET Reqs, ran : SUBSET Reqs]
        /\ pth'.todo = pth.todo \ {r} /\ pth'.sent = pth.sent /\ pth'.ran = pth.ran
        /\ IF Over(r) THEN /\ pth'.r = r /\ pth'.buf = entry[r].buf
                           /\ pth'.pc = IF entry[r].buf = NoBuffer THEN "delete" ELSE "return"
           ELSE pth'.r = None /\ pth'.pc = "visit"
    BY <1>1 DEF PVisit, TransferInv, PInv, PTypes
  <1>3. UNCHANGED <<pst, pq, pfin, toSend, late, d2h, entry, uuids, avail, lis, chan>>
    BY DEF PVisit, psched
  <1>4. PTypes'
    BY <1>2, <1>3 DEF TransferInv, PInv, PTypes
  <1>5. PThreads'
    BY <1>1, <1>2, <1>3 DEF TransferInv, PInv, PThreads, Bufs
  <1>6. PLife'
    BY <1>1, <1>2, <1>3, TransferAssumption DEF TransferInv, PInv, PLife
  <1>7. PFits'
    BY <1>2, <1>3 DEF TransferInv, PInv, PFits, Held
  <1>8. DInv'
    BY DFrame DEF PVisit, TransferInv
  <1>9. \A s \in Reqs : Released(s)'
    <2>1. \A s \in Reqs : Inserted(s)' <=> Inserted(s)
      BY DEF PVisit, dsched, Inserted
    <2>2. Over(r) => r \in late \/ Inserted(r)
      BY DEF Over, TransferInv, Released
    <2> QED
      BY <1>2, <1>3, <2>1, <2>2, TransferAssumption DEF TransferInv, Released
  <1> QED
    BY <1>3, <1>4, <1>5, <1>6, <1>7, <1>8, <1>9 DEF TransferInv, PInv, PVisit, NeverFails

LEMMA PReturnInv ==
    ASSUME TransferInv, PReturn
    PROVE  TransferInv'
  <1>1. pth.pc = "return" /\ pth.buf \in Buffers /\ avail \in Seq(Buffers)
    BY DEF PReturn, TransferInv, PInv, PTypes, PThreads
  <1>2. /\ pth' \in [pc : {"top", "visit", "return", "delete"}, r : Reqs \cup {None}, buf : Bufs,
                     todo : SUBSET Reqs, sent : SUBSET Reqs, ran : SUBSET Reqs]
        /\ pth'.todo = pth.todo /\ pth'.sent = pth.sent /\ pth'.ran = pth.ran
        /\ pth'.r = pth.r /\ pth'.pc = "delete"
    BY DEF PReturn, TransferInv, PInv, PTypes
  <1>3. UNCHANGED <<pst, pq, pfin, toSend, late, d2h, entry, uuids, lis, chan>>
    BY DEF PReturn, psched
  <1>4. avail' \in Seq(Buffers)
    BY <1>1, AppendProperties DEF PReturn
  <1>5. PTypes' /\ PThreads'
    BY <1>1, <1>2, <1>3, <1>4 DEF TransferInv, PInv, PTypes, PThreads
  <1>6. PLife'
    BY <1>2, <1>3 DEF TransferInv, PInv, PLife
  <1>7. PFits'
    BY <1>2, <1>3 DEF TransferInv, PInv, PFits, Held
  <1>8. DInv'
    BY DFrame DEF PReturn, TransferInv
  <1>9. \A s \in Reqs : Released(s)'
    <2>1. \A s \in Reqs : Inserted(s)' <=> Inserted(s)
      BY DEF PReturn, dsched, Inserted
    <2> QED
      BY <1>2, <1>3, <2>1 DEF TransferInv, Released
  <1> QED
    BY <1>3, <1>5, <1>6, <1>7, <1>8, <1>9 DEF TransferInv, PInv, PReturn, NeverFails

LEMMA PDeleteInv ==
    ASSUME TransferInv, PDelete
    PROVE  TransferInv'
  <1> DEFINE q == pth.r
  <1>1. pth.pc = "delete" /\ q \in Reqs /\ entry[q] # NoEntry /\ toSend = {}
    BY DEF PDelete, TransferInv, PInv, PThreads
  <1>2. /\ pth' \in [pc : {"top", "visit", "return", "delete"}, r : Reqs \cup {None}, buf : Bufs,
                     todo : SUBSET Reqs, sent : SUBSET Reqs, ran : SUBSET Reqs]
        /\ pth'.todo = pth.todo /\ pth'.sent = pth.sent \cup {q} /\ pth'.ran = pth.ran
        /\ pth'.r = None /\ pth'.pc = "visit"
    BY <1>1 DEF PDelete, TransferInv, PInv, PTypes, Bufs
  <1>3. UNCHANGED <<pst, pq, pfin, toSend, late, d2h, uuids, avail, lis, chan>>
    BY DEF PDelete, psched
  <1>4. /\ entry' \in [Reqs -> {NoEntry} \cup [exp : {"live", "notified"}, buf : Bufs]]
        /\ \A r \in Reqs : entry'[r] = IF r = q THEN NoEntry ELSE entry[r]
    BY <1>1 DEF PDelete, TransferInv, PInv, PTypes
  <1> HIDE DEF q
  <1>5. PTypes' /\ PThreads'
    BY <1>1, <1>2, <1>3, <1>4 DEF TransferInv, PInv, PTypes, PThreads
  <1>6. PLife'
    <2>1. pst[q] = "held" /\ d2h[q] = NoCopy
      BY <1>1 DEF TransferInv, PInv, PLife
    <2>2. \A r \in pth.todo : r \in Reqs /\ r # q
      BY DEF TransferInv, PInv, PTypes, PLife, q
    <2>3. \A r \in pth.todo : r # None
      BY <2>2, TransferAssumption
    <2> QED
      BY <1>1, <1>2, <1>3, <1>4, <2>1, <2>2, <2>3 DEF TransferInv, PInv, PLife
  <1>7. PFits'
    BY <1>2, <1>3 DEF TransferInv, PInv, PFits, Held
  <1>8. DInv'
    BY DFrame DEF PDelete, TransferInv
  <1>9. \A s \in Reqs : Released(s)'
    <2>1. \A s \in Reqs : Inserted(s)' <=> Inserted(s)
      BY DEF PDelete, dsched, Inserted
    <2>2. \A s \in Reqs : entry'[s].exp = "notified" => entry[s].exp = "notified"
      BY <1>4 DEF NoEntry
    <2>3. q \in late \/ Inserted(q)
      BY <1>1 DEF TransferInv, Released, q
    <2> QED
      BY <1>2, <1>3, <2>1, <2>2, <2>3, TransferAssumption DEF TransferInv, Released
  <1> QED
    BY <1>3, <1>5, <1>6, <1>7, <1>8, <1>9 DEF TransferInv, PInv, PDelete, NeverFails

\* finished_sending names requests whose blocks P still keeps, so the assertion
\* holds, and no block is handed out twice.
LEMMA PUpdateInv ==
    ASSUME TransferInv, PUpdate
    PROVE  TransferInv'
  <1>1. pth.pc = "visit" /\ toSend = {} /\ pth.sent \in SUBSET Reqs /\ pth.ran \in SUBSET Reqs
    BY DEF PUpdate, TransferInv, PInv, PTypes, PThreads
  <1>2. \A r \in pth.sent : pst[r] = "held" /\ d2h[r] = NoCopy /\ entry[r] = NoEntry
    BY <1>1 DEF TransferInv, PInv, PLife
  <1>3. \A r \in pth.ran : pst[r] = "waiting" /\ d2h[r] = NoCopy /\ entry[r] = NoEntry
                           /\ r \notin Range(pq) /\ r \notin pth.sent
    BY <1>1 DEF TransferInv, PInv, PLife
  <1>4. ASSUME NEW r \in Reqs
        PROVE  pst'[r] = IF r \in pth.sent THEN "gone"
                         ELSE IF r \in pth.ran THEN IF Key[r] = <<>> THEN "gone" ELSE "held"
                         ELSE pst[r]
    BY DEF PUpdate
  <1>5. /\ toSend' = {r \in pth.ran : Key[r] # <<>>} /\ pth' = Top
        /\ UNCHANGED <<pq, late, d2h, entry, uuids, avail, lis, chan>>
    BY DEF PUpdate
  <1>6. PTypes'
    <2>1. pst' \in [Reqs -> {"away", "waiting", "held", "gone"}]
      BY DEF PUpdate, TransferInv, PInv, PTypes
    <2>2. pth' \in [pc : {"top", "visit", "return", "delete"}, r : Reqs \cup {None}, buf : Bufs,
                    todo : SUBSET Reqs, sent : SUBSET Reqs, ran : SUBSET Reqs]
      BY <1>5 DEF Top, Bufs
    <2> QED
      BY <1>1, <1>5, <2>1, <2>2 DEF TransferInv, PInv, PTypes
  <1>7. PThreads'
    BY <1>5 DEF TransferInv, PInv, PThreads, Top
  <1>8. PLife'
    <2>1. pth'.sent = {} /\ pth'.ran = {} /\ pth'.todo = {}
      BY <1>5 DEF Top
    <2>2. \A r \in Range(pq) : r \in Reqs
      BY DEF Range, TransferInv, PInv, PTypes
    <2>3. \A r \in Range(pq) : r \notin pth.sent /\ r \notin pth.ran
      BY <1>2, <1>3 DEF TransferInv, PInv, PLife
    <2>4. \A r \in Range(pq) : pst'[r] = "waiting"
      BY <1>4, <2>2, <2>3 DEF TransferInv, PInv, PLife
    <2>5. \A r \in Reqs : d2h[r] # NoCopy \/ entry[r] # NoEntry => pst'[r] = "held"
      BY <1>2, <1>3, <1>4 DEF TransferInv, PInv, PLife
    <2>6. \A r \in toSend' : r \in Reqs /\ pst'[r] = "held" /\ d2h[r] = NoCopy /\ entry[r] = NoEntry
      BY <1>1, <1>3, <1>4, <1>5
    <2> QED
      BY <1>5, <2>1, <2>4, <2>5, <2>6 DEF TransferInv, PInv, PLife
  <1>9. PFits'
    <2>1. Held' \cup pth'.ran \subseteq Held \cup pth.ran
      BY <1>4, <1>5 DEF Held, Top
    <2>2. Sum(Held' \cup pth'.ran) <= Sum(Held \cup pth.ran)
      <3>1. Held \cup pth.ran \in SUBSET Reqs
        BY <1>1 DEF Held
      <3>2. Held' \cup pth'.ran \in SUBSET Reqs
        BY <2>1, <3>1
      <3> QED
        BY <2>1, <3>1, <3>2, SumProperties
    <2>3. Sum(Held \cup pth.ran) \in Nat /\ Sum(Held' \cup pth'.ran) \in Nat
      <3>1. Held \cup pth.ran \in SUBSET Reqs
        BY <1>1 DEF Held
      <3>2. Held' \cup pth'.ran \in SUBSET Reqs
        BY <2>1, <3>1
      <3> QED
        BY <3>1, <3>2, SumProperties
    <2> QED
      BY <2>2, <2>3, TransferAssumption DEF TransferInv, PInv, PFits
  <1>10. DInv'
    BY DFrame DEF PUpdate, TransferInv
  <1>11. NeverFails'
    BY <1>2 DEF PUpdate, TransferInv, NeverFails
  <1>12. \A s \in Reqs : Released(s)'
    <2>1. \A s \in Reqs : Inserted(s)' <=> Inserted(s)
      BY DEF PUpdate, dsched, Inserted
    <2>2. \A s \in Reqs : pst'[s] = "gone" /\ Key[s] # <<>> => pst[s] = "gone" \/ s \in pth.sent
      BY <1>4
    <2>3. pth'.r = None /\ pth'.sent = {}
      BY <1>5 DEF Top
    <2> QED
      BY <1>5, <2>1, <2>2, <2>3, TransferAssumption DEF TransferInv, Released
  <1> QED
    BY <1>5, <1>6, <1>7, <1>8, <1>9, <1>10, <1>11, <1>12 DEF TransferInv, PInv

LEMMA ExpireInv ==
    ASSUME TransferInv, NEW r \in Reqs, Expire(r)
    PROVE  TransferInv'
  <1>1. /\ late' = late \cup {r}
        /\ UNCHANGED <<pst, pq, pfin, toSend, d2h, entry, uuids, avail, lis, pth, chan>>
    BY DEF Expire, pwork
  <1>2. PInv'
    <2>1. PTypes'
      BY <1>1 DEF TransferInv, PInv, PTypes
    <2>2. PThreads' /\ PLife'
      BY <1>1 DEF TransferInv, PInv, PThreads, PLife
    <2>3. PFits'
      BY <1>1 DEF TransferInv, PInv, PFits, Held
    <2> QED
      BY <2>1, <2>2, <2>3 DEF PInv
  <1>3. DInv'
    BY DFrame DEF Expire, TransferInv
  <1>4. \A s \in Reqs : Released(s)'
    BY <1>1 DEF Expire, dsched, TransferInv, Released, Inserted
  <1> QED
    BY <1>1, <1>2, <1>3, <1>4 DEF TransferInv, Expire, NeverFails

LEMMA CopyBeginInv ==
    ASSUME TransferInv, NEW r \in Reqs, CopyBegin(r)
    PROVE  TransferInv'
  <1>1. /\ d2h[r].pc = "queued" /\ avail # <<>> /\ avail \in Seq(Buffers)
        /\ Head(avail) \in Buffers /\ avail' \in Seq(Buffers)
    BY InjectiveTail DEF CopyBegin, TransferInv, PInv, PTypes
  <1>2. UNCHANGED <<pst, pq, pfin, toSend, late, entry, uuids, lis, pth, chan>>
    BY DEF CopyBegin, psched
  <1>3. /\ d2h' \in [Reqs -> {NoCopy, [NoCopy EXCEPT !.pc = "queued"]} \cup [pc : {"copy"}, buf : Buffers]]
        /\ \A s \in Reqs : s # r => d2h'[s] = d2h[s]
    BY <1>1 DEF CopyBegin, TransferInv, PInv, PTypes
  <1>4. d2h[r] # NoCopy
    BY <1>1 DEF NoCopy
  <1>5. PInv'
    <2>1. PTypes'
      BY <1>1, <1>2, <1>3 DEF TransferInv, PInv, PTypes
    <2>2. PThreads'
      BY <1>2 DEF TransferInv, PInv, PThreads
    <2>3. toSend \subseteq Reqs
      BY DEF TransferInv, PInv, PTypes
    <2>4. PLife'
      BY <1>2, <1>3, <1>4, <2>3 DEF TransferInv, PInv, PLife
    <2>5. PFits'
      BY <1>2 DEF TransferInv, PInv, PFits, Held
    <2> QED
      BY <2>1, <2>2, <2>4, <2>5 DEF PInv
  <1>6. DInv'
    BY DFrame DEF CopyBegin, TransferInv
  <1>7. \A s \in Reqs : Released(s)'
    BY <1>2 DEF CopyBegin, dsched, TransferInv, Released, Inserted
  <1> QED
    BY <1>2, <1>5, <1>6, <1>7 DEF TransferInv, CopyBegin, NeverFails

LEMMA CopyEndInv ==
    ASSUME TransferInv, NEW r \in Reqs, CopyEnd(r)
    PROVE  TransferInv'
  <1>1. d2h[r].pc = "copy" /\ d2h[r].buf \in Buffers /\ d2h[r] # NoCopy
    BY DEF CopyEnd, TransferInv, PInv, PTypes, NoCopy
  <1>2. UNCHANGED <<pst, pq, pfin, toSend, late, avail, lis, pth, chan>>
    BY DEF CopyEnd, psched
  <1>3. /\ d2h' \in [Reqs -> {NoCopy, [NoCopy EXCEPT !.pc = "queued"]} \cup [pc : {"copy"}, buf : Buffers]]
        /\ \A s \in Reqs : d2h'[s] = IF s = r THEN NoCopy ELSE d2h[s]
    BY <1>1 DEF CopyEnd, TransferInv, PInv, PTypes
  <1>4. /\ entry' \in [Reqs -> {NoEntry} \cup [exp : {"live", "notified"}, buf : Bufs]]
        /\ \A s \in Reqs : s # r => entry'[s] = entry[s]
        /\ entry'[r] = [exp |-> "live", buf |-> d2h[r].buf]
    BY <1>1 DEF CopyEnd, TransferInv, PInv, PTypes, Bufs
  <1>5. pst[r] = "held" /\ entry[r] = NoEntry /\ r \notin pth.sent /\ r \notin toSend
        /\ entry'[r] # NoEntry
    BY <1>1, <1>4 DEF TransferInv, PInv, PLife, NoEntry
  <1>6. toSend \subseteq Reqs /\ pth.todo \subseteq Reqs /\ pth.sent \subseteq Reqs
    BY DEF TransferInv, PInv, PTypes
  <1>7. PInv'
    <2>1. PTypes'
      BY <1>2, <1>3, <1>4 DEF TransferInv, PInv, PTypes
    <2>2. PThreads'
      BY <1>2, <1>4, <1>5 DEF TransferInv, PInv, PThreads
    <2>4. PLife'
      BY <1>2, <1>3, <1>4, <1>5, <1>6 DEF TransferInv, PInv, PLife
    <2>5. PFits'
      BY <1>2 DEF TransferInv, PInv, PFits, Held
    <2> QED
      BY <2>1, <2>2, <2>4, <2>5 DEF PInv
  <1>8. DInv'
    BY DFrame DEF CopyEnd, TransferInv
  <1>9. \A s \in Reqs : Released(s)'
    <2>1. \A s \in Reqs : entry'[s].exp = "notified" => entry[s].exp = "notified"
      BY <1>4
    <2> QED
      BY <1>2, <2>1 DEF CopyEnd, dsched, TransferInv, Released, Inserted
  <1> QED
    BY <1>2, <1>7, <1>8, <1>9 DEF TransferInv, CopyEnd, NeverFails

\* A notification that is lost, or dropped because its request is not known.
LEMMA ForgottenInv ==
    ASSUME TransferInv, NEW r \in Reqs, chan' = chan \ {r},
           UNCHANGED <<psched, pwork, dsched, dwork, failed>>
    PROVE  TransferInv'
  <1>1. PInv' /\ DInv'
    BY PFrame, DFrame DEF TransferInv
  <1>2. \A s \in Reqs : Released(s)'
    BY DEF psched, pwork, dsched, TransferInv, Released, Inserted
  <1> QED
    BY <1>1, <1>2 DEF TransferInv, NeverFails

LEMMA ListenInv ==
    ASSUME TransferInv, NEW r \in Reqs, Listen(r)
    PROVE  TransferInv'
  <1>1. /\ r \in chan /\ entry[r] # NoEntry /\ entry[r].buf \in Bufs
        /\ chan' = chan \ {r}
        /\ UNCHANGED <<pst, pq, pfin, toSend, late, d2h, entry, uuids, avail, pth>>
    BY DEF Listen, psched, TransferInv, PInv, PTypes
  <1>2. /\ lis' \in [pc : {"idle", "return", "mark", "dead"}, r : Reqs \cup {None}, buf : Bufs]
        /\ lis'.r = r /\ lis'.buf = entry[r].buf
        /\ lis'.pc = IF entry[r].buf = NoBuffer THEN "mark" ELSE "return"
    BY <1>1 DEF Listen
  <1>3. PInv'
    <2>1. PTypes'
      BY <1>1, <1>2 DEF TransferInv, PInv, PTypes
    <2>2. PThreads'
      BY <1>1, <1>2 DEF TransferInv, PInv, PThreads, Bufs
    <2>3. PLife'
      BY <1>1 DEF TransferInv, PInv, PLife
    <2>4. PFits'
      BY <1>1 DEF TransferInv, PInv, PFits, Held
    <2> QED
      BY <2>1, <2>2, <2>3, <2>4 DEF PInv
  <1>4. DInv'
    BY DFrame DEF Listen, TransferInv
  <1>5. \A s \in Reqs : Released(s)'
    BY <1>1, <1>2 DEF Listen, dsched, TransferInv, Released, Inserted
  <1> QED
    BY <1>1, <1>3, <1>4, <1>5 DEF TransferInv, Listen, NeverFails

LEMMA ListenReturnInv ==
    ASSUME TransferInv, ListenReturn
    PROVE  TransferInv'
  <1>1. /\ lis.pc = "return" /\ lis.buf \in Buffers /\ lis.r \in Reqs
        /\ avail \in Seq(Buffers) /\ avail' = Append(avail, lis.buf)
        /\ UNCHANGED <<pst, pq, pfin, toSend, late, d2h, entry, uuids, pth, chan>>
    BY DEF ListenReturn, psched, TransferInv, PInv, PTypes, PThreads
  <1>2. /\ lis' \in [pc : {"idle", "return", "mark", "dead"}, r : Reqs \cup {None}, buf : Bufs]
        /\ lis'.r = lis.r /\ lis'.pc = "mark"
    BY DEF ListenReturn, TransferInv, PInv, PTypes
  <1>3. PInv'
    <2>1. avail' \in Seq(Buffers)
      BY <1>1, AppendProperties
    <2>2. PTypes'
      BY <1>1, <1>2, <2>1 DEF TransferInv, PInv, PTypes
    <2>3. PThreads'
      BY <1>1, <1>2 DEF TransferInv, PInv, PThreads
    <2>4. PLife'
      BY <1>1 DEF TransferInv, PInv, PLife
    <2>5. PFits'
      BY <1>1 DEF TransferInv, PInv, PFits, Held
    <2> QED
      BY <2>2, <2>3, <2>4, <2>5 DEF PInv
  <1>4. DInv'
    BY DFrame DEF ListenReturn, TransferInv
  <1>5. \A s \in Reqs : Released(s)'
    BY <1>1, <1>2 DEF ListenReturn, dsched, TransferInv, Released, Inserted
  <1> QED
    BY <1>1, <1>3, <1>4, <1>5 DEF TransferInv, ListenReturn, NeverFails

LEMMA ListenMarkInv ==
    ASSUME TransferInv, ListenMark
    PROVE  TransferInv'
  <1> DEFINE q == lis.r
  <1>1. /\ lis.pc = "mark" /\ q \in Reqs
        /\ UNCHANGED <<pst, pq, pfin, toSend, late, d2h, avail, pth, chan>>
    BY DEF ListenMark, psched, TransferInv, PInv, PTypes, PThreads
  <1>2. /\ lis' \in [pc : {"idle", "return", "mark", "dead"}, r : Reqs \cup {None}, buf : Bufs]
        /\ lis'.r = None /\ lis'.pc \in {"idle", "dead"}
    BY DEF ListenMark, Idle, Bufs
  <1>3. /\ entry' \in [Reqs -> {NoEntry} \cup [exp : {"live", "notified"}, buf : Bufs]]
        /\ \A s \in Reqs : s # q => entry'[s] = entry[s]
        /\ entry'[q] = IF entry[q] = NoEntry THEN NoEntry ELSE [exp |-> "notified", buf |-> NoBuffer]
    BY <1>1 DEF ListenMark, TransferInv, PInv, PTypes, Bufs
  <1>4. \A s \in Reqs : entry'[s] = NoEntry <=> entry[s] = NoEntry
    BY <1>3 DEF NoEntry
  <1>5. \A s \in Reqs : entry'[s].exp = "notified" => entry[s].exp = "notified" \/ s = q
    BY <1>3
  <1>6. Inserted(q)
    BY <1>1 DEF TransferInv, Released
  <1> HIDE DEF q
  <1>7. PInv'
    <2>1. PTypes'
      BY <1>1, <1>2, <1>3 DEF TransferInv, PInv, PTypes
    <2>2. PThreads'
      BY <1>1, <1>2, <1>4 DEF TransferInv, PInv, PThreads
    <2>3. toSend \subseteq Reqs /\ pth.todo \subseteq Reqs
      BY DEF TransferInv, PInv, PTypes
    <2>4. PLife'
      BY <1>1, <1>4, <2>3 DEF TransferInv, PInv, PLife
    <2>5. PFits'
      BY <1>1 DEF TransferInv, PInv, PFits, Held
    <2> QED
      BY <2>1, <2>2, <2>4, <2>5 DEF PInv
  <1>8. DInv'
    BY DFrame DEF ListenMark, TransferInv
  <1>9. \A s \in Reqs : Released(s)'
    BY <1>1, <1>2, <1>5, <1>6 DEF ListenMark, dsched, TransferInv, Released, Inserted
  <1> QED
    BY <1>1, <1>7, <1>8, <1>9 DEF TransferInv, ListenMark, NeverFails

-----------------------------------------------------------------------------
(* The steps of D *)

\* Blocks for n tokens' worth of KV exist if there are n free ones.
LEMMA FreshProperties ==
    ASSUME NEW n \in Int, NEW from \in SUBSET Blocks, n <= Cardinality(from)
    PROVE  /\ Fresh(n, from) \in Seq(Blocks)
           /\ Range(Fresh(n, from)) \subseteq from
           /\ IsInjective(Fresh(n, from))
  <1>1. IsFiniteSet(from)
    BY FiniteWithin, TransferAssumption DEF Blocks
  <1>2. Cardinality(from) \in Nat /\ ExistsBijection(1 .. Cardinality(from), from)
    BY <1>1, FS_CardinalityType
  <1>3. PICK g \in [1 .. Cardinality(from) -> from] : IsInjective(g)
    BY <1>2 DEF ExistsBijection, Bijection, Injection
  <1> DEFINE h == [i \in 1 .. n |-> g[i]]
  <1>4. \A i \in 1 .. n : i \in 1 .. Cardinality(from)
    BY <1>2
  <1>5. h \in [1 .. n -> from] /\ IsInjective(h)
    BY <1>3, <1>4 DEF IsInjective
  <1>6. Fresh(n, from) \in [1 .. n -> from] /\ IsInjective(Fresh(n, from))
    BY <1>5 DEF Fresh
  <1>7. Fresh(n, from) \in Seq(Blocks)
    <2>1. CASE n >= 0
      BY <1>6, <2>1
    <2>2. CASE n < 0
      <3>1. 1 .. n = 1 .. 0
        BY <2>2
      <3> QED
        BY <1>6, <3>1
    <2> QED
      BY <2>1, <2>2
  <1> QED
    BY <1>6, <1>7 DEF Range

\* The cached prefix of a prompt: some of its full blocks, and not all of it.
LEMMA HitProperties ==
    ASSUME NEW r \in Reqs
    PROVE  /\ Hit(r) \in Seq(Blocks)
           /\ Len(Hit(r)) \in 0 .. Len(Key[r])
  <1> DEFINE Filed(h) == \E b \in Blocks : hash[b] = h
             most == Least(Len(Key[r]), Size(r) - 1)
             Fit(n) == /\ \A i \in 1 .. n : Filed(Key[r][i])
                       /\ n < most => ~Filed(Key[r][n + 1])
             n0 == CHOOSE n \in 0 .. most : Fit(n)
             Ends == {n \in Nat : n = most \/ (n < most /\ ~Filed(Key[r][n + 1]))}
  <1>1. most \in Nat /\ most <= Len(Key[r]) /\ Len(Key[r]) \in Nat
    BY TransferAssumption DEF Least, Size
  <1> HIDE DEF Filed, most
  <1>2. \E n \in 0 .. most : Fit(n)
    <2>1. most \in Ends
      BY <1>1
    <2>2. PICK n \in Ends : \A m \in Ends : n <= m
      BY <2>1, LeastNat
    <2>3. n \in 0 .. most /\ (n < most => ~Filed(Key[r][n + 1]))
      BY <1>1
    <2>4. ASSUME NEW i \in 1 .. n
          PROVE  Filed(Key[r][i])
      <3>1. i - 1 \in Nat /\ i - 1 < n /\ i - 1 < most /\ (i - 1) + 1 = i
        BY <1>1, <2>3
      <3>2. i - 1 \notin Ends
        BY <3>1, <2>2
      <3> QED
        BY <3>1, <3>2
    <2> QED
      BY <2>3, <2>4
  <1>3. n0 \in 0 .. most /\ Fit(n0)
    BY <1>2
  <1>4. Hit(r) = [i \in 1 .. n0 |-> CHOOSE b \in Blocks : hash[b] = Key[r][i]]
    BY DEF Hit, Filed, most
  <1> HIDE DEF n0
  <1>5. \A i \in 1 .. n0 : (CHOOSE b \in Blocks : hash[b] = Key[r][i]) \in Blocks
    BY <1>3 DEF Filed
  <1>6. n0 \in Nat /\ n0 <= Len(Key[r])
    BY <1>1, <1>3
  <1> QED
    BY <1>1, <1>4, <1>5, <1>6

\* The queues D's scheduler takes requests from.
LEMMA QueueProperties ==
    ASSUME DInv, Queue # <<>>, NEW s \in {dwait, dskip}, NEW r
    PROVE  Head(Queue) \in Reqs /\ Without(s, r) \in Seq(Reqs)
  <1>1. dwait \in Seq(Reqs) /\ dskip \in Seq(Reqs) /\ Queue \in Seq(Reqs)
    BY DEF DInv, DTypes, Queue
  <1>2. Head(Queue) \in Reqs
    BY <1>1, InjectiveTail
  <1>3. Without(s, r) \in Seq(Reqs)
    BY <1>1, RemoveAllProperties DEF Without
  <1> QED
    BY <1>2, <1>3

\* What D's inserts make P believe stays true.
LEMMA ReleasedKept ==
    ASSUME TransferInv, UNCHANGED <<psched, pwork>>,
           \A r \in Reqs : Inserted(r) => Inserted(r)',
           \A r \in Reqs : r \in chan' => r \in chan \/ Inserted(r)'
    PROVE  \A r \in Reqs : Released(r)'
  BY DEF psched, pwork, TransferInv, Released

LEMMA DArriveInv ==
    ASSUME TransferInv, NEW r \in Reqs, DArrive(r)
    PROVE  TransferInv'
  <1>1. dst[r] = "away" /\ dwait' \in Seq(Reqs)
    BY AppendProperties DEF DArrive, TransferInv, DInv, DTypes
  <1>2. \A s \in Reqs : dst'[s] = IF s = r THEN "waiting" ELSE dst[s]
    BY DEF DArrive, TransferInv, DInv, DTypes
  <1>3. DInv'
    <2>1. DTypes'
      BY <1>1 DEF DArrive, dwork, TransferInv, DInv, DTypes
    <2>2. \A s \in Reqs : DLife(s)'
      BY <1>1, <1>2 DEF DArrive, dwork, TransferInv, DInv, DLife
    <2> QED
      BY <2>1, <2>2 DEF DInv
  <1>4. PInv'
    BY PFrame DEF DArrive, TransferInv
  <1>5. \A s \in Reqs : Released(s)'
    BY <1>1, <1>2, ReleasedKept DEF DArrive, Inserted
  <1> QED
    BY <1>3, <1>4, <1>5 DEF TransferInv, DArrive, NeverFails

LEMMA DAbortInv ==
    ASSUME TransferInv, NEW r \in Reqs, DAbort(r)
    PROVE  TransferInv'
  <1> DEFINE keep == dst[r] = "remote" /\ r \notin recvd
  <1>1. /\ dpc = "idle" /\ Unfinished(r) /\ recvd' = recvd \ {r}
        /\ UNCHANGED <<dpass, dpc, toLoad, pulling, chan, failed>>
        /\ dst' = [dst EXCEPT ![r] = IF keep THEN "aborted" ELSE "done"]
        /\ held' = IF keep THEN held ELSE [held EXCEPT ![r] = <<>>]
    BY DEF DAbort, dwork
  <1>2. \A s \in Reqs : dst'[s] = IF s # r THEN dst[s] ELSE IF keep THEN "aborted" ELSE "done"
    BY <1>1 DEF TransferInv, DInv, DTypes
  <1>3. dwait' \in Seq(Reqs) /\ dskip' \in Seq(Reqs)
    BY RemoveAllProperties DEF DAbort, Without, TransferInv, DInv, DTypes
  <1>4. DInv'
    <2>1. held' \in [Reqs -> Seq(Blocks)]
      BY <1>1 DEF TransferInv, DInv, DTypes
    <2>2. DTypes'
      BY <1>1, <1>3, <2>1 DEF TransferInv, DInv, DTypes
    <2>3. ASSUME NEW s \in Reqs
          PROVE  DLife(s)'
      <3>1. DLife(s) /\ dpc' = "idle" /\ pulling' = pulling /\ toLoad' = toLoad
            /\ recvd' = recvd \ {r} /\ pulling[s] \in {"no", "busy", "got", "kv"}
        BY <1>1 DEF TransferInv, DInv, DTypes
      <3>2. CASE s # r
        BY <3>1, <3>2, <1>1, <1>2 DEF DLife
      <3>3. CASE s = r
        BY <3>1, <3>3, <1>1, <1>2 DEF DLife, Unfinished
      <3> QED
        BY <3>2, <3>3
    <2> QED
      BY <2>2, <2>3 DEF DInv
  <1>5. PInv'
    BY PFrame DEF DAbort, TransferInv
  <1>6. \A s \in Reqs : Released(s)'
    BY <1>1, <1>2, ReleasedKept DEF DAbort, Inserted
  <1> QED
    BY <1>1, <1>4, <1>5, <1>6 DEF TransferInv, NeverFails

\* Steps that only move the pass on.
LEMMA DPassInv ==
    ASSUME TransferInv, DBegin \/ DPassEnd
    PROVE  TransferInv'
  <1>1. DInv'
    BY DEF DBegin, DPassEnd, dwork, TransferInv, DInv, DTypes, DLife
  <1>2. PInv'
    BY PFrame DEF DBegin, DPassEnd, TransferInv
  <1>3. \A s \in Reqs : Released(s)'
    BY ReleasedKept DEF DBegin, DPassEnd, Inserted
  <1> QED
    BY <1>1, <1>2, <1>3 DEF TransferInv, DBegin, DPassEnd, NeverFails

LEMMA DPassOverInv ==
    ASSUME TransferInv, DPassOver
    PROVE  TransferInv'
  <1> DEFINE r == Head(Queue)
  <1>1. r \in Reqs /\ dwait' \in Seq(Reqs) /\ dskip' \in Seq(Reqs)
    BY QueueProperties DEF DPassOver, TransferInv
  <1>2. dpass' \in Seq(Reqs)
    <2>1. dpass' = <<r>> \o dpass /\ dpass \in Seq(Reqs) /\ <<r>> \in Seq(Reqs)
      BY <1>1 DEF DPassOver, TransferInv, DInv, DTypes
    <2> QED
      BY <2>1, ConcatProperties
  <1>3. DInv'
    BY <1>1, <1>2 DEF DPassOver, dwork, TransferInv, DInv, DTypes, DLife
  <1>4. PInv'
    BY PFrame DEF DPassOver, TransferInv
  <1>5. \A s \in Reqs : Released(s)'
    BY ReleasedKept DEF DPassOver, Inserted
  <1> QED
    BY <1>3, <1>4, <1>5 DEF TransferInv, DPassOver, NeverFails

LEMMA DPullInv ==
    ASSUME TransferInv, DPull
    PROVE  TransferInv'
  <1> DEFINE r == Head(Queue)
             fresh == Fresh(External(r), FreeBlocks \ Range(Hit(r)))
  <1>1. r \in Reqs /\ dwait' \in Seq(Reqs) /\ dskip' \in Seq(Reqs)
    BY QueueProperties DEF DPull, TransferInv
  <1>2. /\ dpc = "pass" /\ dst[r] = "waiting" /\ External(r) > 0 /\ Fits(r)
        /\ dst' = [dst EXCEPT ![r] = "remote"]
        /\ held' = [held EXCEPT ![r] = Hit(r) \o fresh]
        /\ toLoad' = [toLoad EXCEPT ![r] = "pull"]
        /\ dpass' = <<r>> \o dpass
        /\ UNCHANGED <<psched, pwork, chan, dpc, recvd, pulling, failed>>
    BY DEF DPull, dwork
  <1>3. Key[r] # <<>>
    <2>1. Key[r] = <<>> => External(r) = 0
      BY DEF External
    <2> QED
      BY <1>2, <2>1
  <1>4. Hit(r) \o fresh \in Seq(Blocks)
    <2>1. Hit(r) \in Seq(Blocks) /\ Len(Hit(r)) \in 0 .. Len(Key[r])
      BY <1>1, HitProperties
    <2>2. Old(r) = Hit(r)
      BY <1>2 DEF Old, Ready
    <2>3. FreeBlocks \ Range(Hit(r)) \in SUBSET Blocks
      BY DEF FreeBlocks
    <2>4. IsFiniteSet(FreeBlocks \ Range(Hit(r)))
      BY <2>3, FiniteWithin, TransferAssumption DEF Blocks
    <2>5. Cardinality(FreeBlocks \ Range(Hit(r))) \in Nat
      BY <2>4, FS_CardinalityType
    <2>6. External(r) \in Int /\ External(r) <= Cardinality(FreeBlocks \ Range(Hit(r)))
      <3>1. Size(r) - Len(Hit(r)) <= Cardinality(FreeBlocks \ Range(Hit(r)))
        BY <1>2, <2>2 DEF Fits
      <3> HIDE DEF r
      <3>2. External(r) \in Int /\ External(r) <= Size(r) - Len(Hit(r)) /\ Size(r) - Len(Hit(r)) \in Int
        BY <1>1, <2>1, TransferAssumption, SMTT(30) DEF External, Size
      <3> QED
        BY <2>5, <3>1, <3>2
    <2>7. fresh \in Seq(Blocks)
      BY <2>3, <2>6, FreshProperties
    <2> QED
      BY <2>1, <2>7, ConcatProperties
  <1>5. dpass' \in Seq(Reqs)
    <2>1. dpass \in Seq(Reqs) /\ <<r>> \in Seq(Reqs)
      BY <1>1 DEF TransferInv, DInv, DTypes
    <2> QED
      BY <1>2, <2>1, ConcatProperties
  <1> HIDE DEF r, fresh
  <1>6. DInv'
    <2>1. held' \in [Reqs -> Seq(Blocks)]
      BY <1>1, <1>2, <1>4 DEF TransferInv, DInv, DTypes
    <2>2. DTypes'
      BY <1>1, <1>2, <1>5, <2>1 DEF TransferInv, DInv, DTypes
    <2>3. \A s \in Reqs : /\ dst'[s] = IF s = r THEN "remote" ELSE dst[s]
                          /\ toLoad'[s] = IF s = r THEN "pull" ELSE toLoad[s]
      BY <1>1, <1>2 DEF TransferInv, DInv, DTypes
    <2>4. \A s \in Reqs : DLife(s)'
      BY <1>2, <1>3, <2>3 DEF TransferInv, DInv, DLife
    <2> QED
      BY <2>2, <2>4 DEF DInv
  <1>7. PInv'
    BY <1>2, PFrame DEF TransferInv
  <1>8. \A s \in Reqs : Released(s)'
    <2>1. \A s \in Reqs : Inserted(s) => Inserted(s)'
      BY <1>1, <1>2 DEF Inserted, TransferInv, DInv, DTypes
    <2> QED
      BY <1>2, <2>1, ReleasedKept
  <1> QED
    BY <1>2, <1>6, <1>7, <1>8 DEF TransferInv, NeverFails

LEMMA DRunInv ==
    ASSUME TransferInv, DRun
    PROVE  TransferInv'
  <1> DEFINE r == Head(Queue)
             n == Size(r) - Len(Old(r))
             fresh == Fresh(n, FreeBlocks \ Range(Old(r)))
  <1>1. r \in Reqs /\ dwait' \in Seq(Reqs) /\ dskip' \in Seq(Reqs)
    BY QueueProperties DEF DRun, TransferInv
  <1>2. /\ dpc = "pass" /\ (Ready(r) \/ dst[r] = "waiting") /\ Fits(r)
        /\ dst' = [dst EXCEPT ![r] = "running"]
        /\ held' = [held EXCEPT ![r] = Old(r) \o fresh]
        /\ toLoad' = [toLoad EXCEPT ![r] = IF Key[r] = <<>> THEN "no" ELSE "none"]
        /\ recvd' = recvd \ {r}
        /\ UNCHANGED <<psched, pwork, chan, dpass, dpc, pulling, failed>>
    BY DEF DRun, dwork
  <1>3. Old(r) \o fresh \in Seq(Blocks)
    <2>1. Old(r) \in Seq(Blocks)
      BY <1>1, HitProperties DEF Old, TransferInv, DInv, DTypes
    <2>2. n \in Int /\ FreeBlocks \ Range(Old(r)) \in SUBSET Blocks
          /\ n <= Cardinality(FreeBlocks \ Range(Old(r)))
      <3>1. Fits(r)
        BY DEF DRun
      <3> HIDE DEF r
      <3>2. Size(r) \in Int /\ Len(Old(r)) \in Nat
        BY <1>1, <2>1, TransferAssumption DEF Size
      <3> QED
        BY <3>1, <3>2 DEF Fits, FreeBlocks
    <2> HIDE DEF n
    <2>3. fresh \in Seq(Blocks)
      BY <2>2, FreshProperties
    <2> QED
      BY <2>1, <2>3, ConcatProperties
  <1> HIDE DEF r, fresh
  <1>4. DInv'
    <2>1. held' \in [Reqs -> Seq(Blocks)]
      BY <1>1, <1>2, <1>3 DEF TransferInv, DInv, DTypes
    <2>2. DTypes'
      BY <1>1, <1>2, <2>1 DEF TransferInv, DInv, DTypes
    <2>3. \A s \in Reqs : /\ dst'[s] = IF s = r THEN "running" ELSE dst[s]
                          /\ toLoad'[s] = IF s # r THEN toLoad[s]
                                          ELSE IF Key[r] = <<>> THEN "no" ELSE "none"
      BY <1>1, <1>2 DEF TransferInv, DInv, DTypes
    <2>4. ASSUME NEW s \in Reqs
          PROVE  DLife(s)'
      <3>1. DLife(s) /\ DLife(r) /\ dpc' = "pass" /\ pulling' = pulling
        BY <1>1, <1>2 DEF TransferInv, DInv, DRun
      <3>2. CASE s # r
        BY <3>1, <3>2, <1>2, <2>3 DEF DLife
      <3>3. CASE s = r
        <4>1. pulling[r] = "no" \/ (pulling[r] = "kv" /\ Key[r] # <<>>)
          BY <1>2, <3>1 DEF DLife, Ready
        <4> QED
          BY <3>1, <3>3, <4>1, <1>2, <2>3 DEF DLife
      <3> QED
        BY <3>2, <3>3
    <2> QED
      BY <2>2, <2>4 DEF DInv
  <1>5. PInv'
    BY PFrame DEF DRun, TransferInv
  <1>6. \A s \in Reqs : Released(s)'
    <2>1. \A s \in Reqs : Inserted(s) => Inserted(s)'
      BY <1>1, <1>2 DEF Inserted, TransferInv, DInv, DTypes
    <2>2. UNCHANGED <<psched, pwork, chan>>
      BY DEF DRun
    <2> QED
      BY <2>1, <2>2, ReleasedKept
  <1> QED
    BY <1>4, <1>5, <1>6 DEF TransferInv, DRun, NeverFails

LEMMA DNoRoomInv ==
    ASSUME TransferInv, DNoRoom
    PROVE  TransferInv'
  <1> DEFINE r == Head(Queue)
  <1>1. r \in Reqs
    BY QueueProperties DEF DNoRoom, TransferInv
  <1>2. /\ Ready(r) \/ dst[r] = "waiting"
        /\ dst' = [dst EXCEPT ![r] = IF Ready(r) THEN "promoted" ELSE @]
        /\ recvd' = recvd \ {r}
        /\ dpc = "pass" /\ dpc' = "work"
        /\ UNCHANGED <<psched, pwork, chan, dwait, dskip, dpass, held, toLoad, pulling, failed>>
    BY DEF DNoRoom, dwork
  <1> HIDE DEF r
  <1>3. DInv'
    <2>1. DTypes'
      BY <1>1, <1>2 DEF TransferInv, DInv, DTypes
    <2>2. \A s \in Reqs : dst'[s] = IF s = r /\ Ready(r) THEN "promoted" ELSE dst[s]
      BY <1>1, <1>2 DEF TransferInv, DInv, DTypes
    <2>3. ASSUME NEW s \in Reqs
          PROVE  DLife(s)'
      <3>1. DLife(s) /\ toLoad[s] \in {"no", "pull", "none"}
        BY DEF TransferInv, DInv, DTypes
      <3>2. CASE s # r
        BY <3>1, <3>2, <1>2, <2>2 DEF DLife
      <3>3. CASE s = r
        BY <3>1, <3>3, <1>2, <2>2 DEF DLife, Ready
      <3> QED
        BY <3>2, <3>3
    <2> QED
      BY <2>1, <2>3 DEF DInv
  <1>4. PInv'
    BY <1>2, PFrame DEF TransferInv
  <1>5. \A s \in Reqs : Released(s)'
    <2>1. \A s \in Reqs : Inserted(s) => Inserted(s)'
      BY <1>1, <1>2 DEF Inserted, Ready, TransferInv, DInv, DTypes
    <2> QED
      BY <1>2, <2>1, ReleasedKept
  <1> QED
    BY <1>2, <1>3, <1>4, <1>5 DEF TransferInv, NeverFails

\* KV is inserted only after the pulling thread has returned it, and only a
\* request that still waits for its KV, or an aborted one, is reported as
\* received: the assertions hold.
LEMMA DWorkInv ==
    ASSUME TransferInv, DWork
    PROVE  TransferInv'
  <1>1. PICK stay \in SUBSET {r \in Runs : comp[r] < Size(r)} :
          LET over == (Runs \ stay) \cup {r \in Received : dst[r] = "aborted"}
          IN  /\ dst' = [r \in Reqs |-> IF r \in over THEN "done" ELSE dst[r]]
              /\ held' = [r \in Reqs |-> IF r \in over THEN <<>> ELSE held[r]]
    BY DEF DWork
  <1> DEFINE over == (Runs \ stay) \cup {r \in Received : dst[r] = "aborted"}
  <1>4. /\ \A r \in stay : dst[r] = "running"
        /\ \A r \in Reqs : r \in over <=> \/ dst[r] = "running" /\ r \notin stay
                                          \/ dst[r] = "aborted" /\ pulling[r] = "got"
        /\ \A r \in Reqs : /\ r \in ToInsert <=> toLoad[r] = "none" /\ pulling[r] # "no"
                           /\ r \in Received <=> pulling[r] = "got"
    <2>1. \A r \in stay : dst[r] = "running"
      BY DEF Runs
    <2>2. \A r \in Reqs : r \in over <=> \/ dst[r] = "running" /\ r \notin stay
                                         \/ dst[r] = "aborted" /\ pulling[r] = "got"
      BY DEF Runs, Received
    <2>3. \A r \in Reqs : /\ r \in ToInsert <=> toLoad[r] = "none" /\ pulling[r] # "no"
                          /\ r \in Received <=> pulling[r] = "got"
      BY DEF Received, ToInsert
    <2> HIDE DEF over
    <2> QED
      BY <2>1, <2>2, <2>3, Zenon
  <1>5. \A r \in Reqs : /\ r \in ToInsert => dst[r] = "running" /\ pulling[r] = "kv"
                        /\ r \in Received => dst[r] \in {"remote", "aborted"}
    <2> SUFFICES ASSUME NEW r \in Reqs
                 PROVE  /\ r \in ToInsert => dst[r] = "running" /\ pulling[r] = "kv"
                        /\ r \in Received => dst[r] \in {"remote", "aborted"}
      OBVIOUS
    <2>1. DLife(r) /\ dst[r] \in {"away", "waiting", "remote", "promoted", "running", "aborted", "done"}
      BY DEF TransferInv, DInv, DTypes
    <2> QED
      BY <1>4, <2>1 DEF DLife
  <1>2. ASSUME NEW r \in Reqs
        PROVE  /\ dst'[r] = IF r \in over THEN "done" ELSE dst[r]
               /\ toLoad'[r] = "no"
               /\ pulling'[r] = IF r \in ToInsert THEN "no"
                                ELSE IF toLoad[r] = "pull" /\ pulling[r] = "no" THEN "busy"
                                ELSE IF r \in Received THEN "kv" ELSE pulling[r]
    <2>1. dst'[r] = IF r \in over THEN "done" ELSE dst[r]
      BY <1>1
    <2>2. toLoad'[r] = "no"
      BY DEF DWork
    <2>3. pulling'[r] = CASE r \in ToInsert                          -> "no"
                          [] toLoad[r] = "pull" /\ pulling[r] = "no" -> "busy"
                          [] r \in Received                          -> "kv"
                          [] OTHER                                   -> pulling[r]
      BY DEF DWork
    <2>4. /\ r \in ToInsert => toLoad[r] = "none" /\ pulling[r] = "kv"
          /\ r \in Received => pulling[r] = "got"
      BY <1>4, <1>5
    <2> HIDE DEF over
    <2>5. CASE r \in ToInsert
      BY <2>1, <2>2, <2>3, <2>4, <2>5
    <2>6. CASE r \notin ToInsert /\ r \in Received
      BY <2>1, <2>2, <2>3, <2>4, <2>6
    <2>7. CASE r \notin ToInsert /\ r \notin Received
      BY <2>1, <2>2, <2>3, <2>7
    <2> QED
      BY <2>5, <2>6, <2>7
  <1>3. /\ dpc' = "idle" /\ dpass' = <<>> /\ dwait' = dwait
        /\ dskip' = Reverse(dpass) \o dskip
        /\ recvd' = recvd \cup {r \in Received : dst[r] = "remote"}
        /\ chan' = chan \cup ToInsert
        /\ UNCHANGED <<psched, pwork>>
    BY DEF DWork, Notified
  <1>6. NeverFails'
    <2>1. ToInsert \subseteq Reqs /\ Received \subseteq Reqs
      BY DEF ToInsert, Received
    <2> QED
      BY <1>5, <2>1 DEF DWork, TransferInv, NeverFails
  <1>7. DTypes'
    <2>1. dst' \in [Reqs -> {"away", "waiting", "remote", "promoted", "running", "aborted", "done"}]
      BY <1>1 DEF TransferInv, DInv, DTypes
    <2>2. held' \in [Reqs -> Seq(Blocks)]
      BY <1>1 DEF TransferInv, DInv, DTypes
    <2>3. toLoad' \in [Reqs -> {"no", "pull", "none"}]
      BY DEF DWork
    <2>4. pulling' \in [Reqs -> {"no", "busy", "got", "kv"}]
      BY DEF DWork, TransferInv, DInv, DTypes
    <2>5. dskip' \in Seq(Reqs)
      <3>1. dpass \in Seq(Reqs) /\ dskip \in Seq(Reqs)
        BY DEF TransferInv, DInv, DTypes
      <3>2. Reverse(dpass) \in Seq(Reqs)
        BY <3>1 DEF Reverse
      <3> QED
        BY <1>3, <3>1, <3>2, ConcatProperties
    <2>6. recvd' \subseteq Reqs
      BY <1>3 DEF TransferInv, DInv, DTypes, Received
    <2> QED
      BY <1>3, <2>1, <2>2, <2>3, <2>4, <2>5, <2>6 DEF TransferInv, DInv, DTypes
  <1> HIDE DEF over
  <1>8. \A r \in Reqs : DLife(r)'
    <2> SUFFICES ASSUME NEW r \in Reqs
                 PROVE  DLife(r)'
      OBVIOUS
    <2>1. /\ DLife(r) /\ pulling[r] \in {"no", "busy", "got", "kv"}
          /\ toLoad[r] \in {"no", "pull", "none"}
          /\ dst[r] \in {"away", "waiting", "remote", "promoted", "running", "aborted", "done"}
      BY DEF TransferInv, DInv, DTypes
    <2>2. r \in recvd' <=> r \in recvd \/ (pulling[r] = "got" /\ dst[r] = "remote")
      BY <1>3, <1>4
    <2>3. CASE dst[r] \in {"away", "waiting", "promoted", "done"}
      BY <1>2, <1>3, <1>4, <2>1, <2>2, <2>3 DEF DLife
    <2>4. CASE dst[r] = "remote"
      BY <1>2, <1>3, <1>4, <2>1, <2>2, <2>4 DEF DLife
    <2>5. CASE dst[r] = "running"
      BY <1>2, <1>3, <1>4, <2>1, <2>2, <2>5 DEF DLife
    <2>6. CASE dst[r] = "aborted"
      BY <1>2, <1>3, <1>4, <2>1, <2>2, <2>6 DEF DLife
    <2> QED
      BY <2>1, <2>3, <2>4, <2>5, <2>6
  <1>9. PInv'
    BY <1>3, PFrame DEF TransferInv
  <1>10. \A r \in Reqs : Released(r)'
    <2>1. \A r \in Reqs : Inserted(r) => Inserted(r)'
      BY <1>2 DEF Inserted
    <2>2. \A r \in Reqs : r \in chan' => r \in chan \/ Inserted(r)'
      BY <1>3, <1>5, <2>1 DEF Inserted
    <2> QED
      BY <1>3, <2>1, <2>2, ReleasedKept
  <1>11. chan' \subseteq Reqs
    BY <1>3 DEF TransferInv, ToInsert
  <1> QED
    BY <1>6, <1>7, <1>8, <1>9, <1>10, <1>11 DEF TransferInv, DInv

LEMMA PullEndInv ==
    ASSUME TransferInv, NEW r \in Reqs, PullEnd(r)
    PROVE  TransferInv'
  <1>1. /\ pulling[r] = "busy" /\ pulling' = [pulling EXCEPT ![r] = "got"]
        /\ UNCHANGED <<psched, pwork, chan, failed>>
        /\ UNCHANGED <<dst, dwait, dskip, dpass, dpc, held, recvd, toLoad>>
    BY DEF PullEnd, dsched
  <1>2. DInv'
    <2>1. DTypes'
      BY <1>1 DEF TransferInv, DInv, DTypes
    <2>2. \A s \in Reqs : pulling'[s] = IF s = r THEN "got" ELSE pulling[s]
      BY <1>1 DEF TransferInv, DInv, DTypes
    <2>3. \A s \in Reqs : DLife(s)'
      BY <1>1, <2>2 DEF TransferInv, DInv, DLife
    <2> QED
      BY <2>1, <2>3 DEF DInv
  <1>3. PInv'
    BY <1>1, PFrame DEF TransferInv
  <1>4. \A s \in Reqs : Released(s)'
    BY <1>1, ReleasedKept DEF Inserted
  <1> QED
    BY <1>1, <1>2, <1>3, <1>4 DEF TransferInv, NeverFails

-----------------------------------------------------------------------------
(* The theorems that hold however the threads of P interleave *)

\* A step that changes nothing.
LEMMA StutterInv ==
    ASSUME TransferInv, UNCHANGED vars
    PROVE  TransferInv'
  <1>1. PInv' /\ DInv'
    BY PFrame, DFrame DEF TransferInv, vars
  <1>2. \A s \in Reqs : Released(s)'
    BY ReleasedKept DEF vars, dsched, Inserted
  <1> QED
    BY <1>1, <1>2 DEF TransferInv, vars, NeverFails

\* The inductive invariant: the life of a request on either server, and what
\* each of them may believe of the other.
THEOREM TransferInvariant == Spec => []TransferInv
  <1>1. Init => TransferInv
    BY InitInv
  <1>2. TransferInv /\ [Next]_vars => TransferInv'
    <2> SUFFICES ASSUME TransferInv, [Next]_vars
                 PROVE  TransferInv'
      OBVIOUS
    <2>1. CASE DThread
      BY <2>1, DPassInv, DPassOverInv, DPullInv, DRunInv, DNoRoomInv, DWorkInv DEF DThread
    <2>2. CASE PThread
      BY <2>2, PStepInv, PVisitInv, PReturnInv, PDeleteInv, PUpdateInv DEF PThread
    <2>3. CASE Listener
      <3>1. ASSUME NEW r \in Reqs, ListenDrop(r)
            PROVE  TransferInv'
        BY <3>1, ForgottenInv DEF ListenDrop
      <3> QED
        BY <2>3, <3>1, ListenInv, ListenReturnInv, ListenMarkInv DEF Listener
    <2>4. CASE Workers
      BY <2>4, CopyBeginInv, CopyEndInv, PullEndInv DEF Workers, Copies
    <2>5. CASE Environment
      <3>1. ASSUME NEW r \in Reqs, Lose(r)
            PROVE  TransferInv'
        BY <3>1, ForgottenInv DEF Lose
      <3> QED
        BY <2>5, <3>1, PArriveInv, DArriveInv, DAbortInv, ExpireInv DEF Environment
    <2>6. CASE UNCHANGED vars
      BY <2>6, StutterInv
    <2> QED
      BY <2>1, <2>2, <2>3, <2>4, <2>5, <2>6 DEF Next
  <1> QED
    BY <1>1, <1>2, PTL DEF Spec

\* KVTransfer.TypeOK is an invariant; in particular P has never handed out more
\* blocks than it has.
THEOREM TransferTypeOK == Spec => []TypeOK
  <1>1. TransferInv => TypeOK
    <2> SUFFICES ASSUME TransferInv
                 PROVE  TypeOK
      OBVIOUS
    <2>1. PFree \in Nat
      BY AdmittedProperties DEF TransferInv
    <2>2. ASSUME NEW r \in Reqs
          PROVE  /\ pst[r] \in {"away", "waiting", "held", "gone"}
                 /\ d2h[r] \in [pc : {"none", "queued", "copy"}, buf : {NoBuffer} \cup Buffers]
                 /\ entry[r].buf \in {NoBuffer} \cup Buffers
      BY DEF TransferInv, PInv, PTypes, NoCopy, NoEntry, Bufs
    <2>3. ASSUME NEW r \in Reqs
          PROVE  /\ dst[r] \in {"away", "waiting", "remote", "promoted", "running", "aborted", "done"}
                 /\ pulling[r] \in {"no", "busy", "got", "kv"}
                 /\ Range(held[r]) \subseteq Blocks
      BY DEF TransferInv, DInv, DTypes, Range
    <2>4. /\ lis.pc \in {"idle", "return", "mark", "dead"}
          /\ pth.pc \in {"top", "visit", "return", "delete"}
      BY DEF TransferInv, PInv, PTypes
    <2> QED
      BY <2>1, <2>2, <2>3, <2>4 DEF TypeOK
  <1> QED
    BY <1>1, TransferInvariant, PTL

\* No assertion of either server fails (update_from_output and
\* process_send_load): D inserts KV it has received, each server frees a
\* request once and while it knows it.
THEOREM NoAssertionFails == Spec => []NeverFails
  <1>1. TransferInv => NeverFails
    BY DEF TransferInv
  <1> QED
    BY <1>1, TransferInvariant, PTL

\* P gives up the blocks of a request that has not expired only once D has
\* inserted its KV, even though notifications are lost and the listener and
\* the engine thread work on reqs_wait_pull without a lock.
THEOREM ReleaseCorrect == Spec => []ReleasedAfterInsert
  <1>1. TransferInv => ReleasedAfterInsert
    BY DEF TransferInv, Released, Inserted, ReleasedAfterInsert
  <1> QED
    BY <1>1, TransferInvariant, PTL

-----------------------------------------------------------------------------
(* HostKVPool, when the listener and the engine thread do not meet *)

\* Which buffer is whose stays as it is.
LEMMA PoolFrame ==
    ASSUME PoolShared, avail' = avail,
           \A r \in Reqs : d2h'[r].buf = d2h[r].buf /\ EntryBuf(r)' = EntryBuf(r)
    PROVE  PoolShared'
  BY DEF PoolShared

\* A thread puts back the buffer b of the entry of q.
LEMMA PoolReturn ==
    ASSUME PTypes, PoolShared, NEW q \in Reqs, NEW b \in Buffers, EntryBuf(q) = b,
           avail' = Append(avail, b), EntryBuf(q)' = NoBuffer,
           \A r \in Reqs : d2h'[r].buf = d2h[r].buf,
           \A r \in Reqs : r # q => EntryBuf(r)' = EntryBuf(r)
    PROVE  PoolShared'
  <1>1. avail \in Seq(Buffers) /\ b \notin Range(avail) /\ NoBuffer # b
    BY DEF PTypes, PoolShared, Buffers, NoBuffer
  <1>2. avail' \in Seq(Buffers) /\ Range(avail') = Range(avail) \cup {b} /\ IsInjective(avail')
    BY <1>1, InjectiveAppend DEF PoolShared
  <1>3. NoBuffer \notin Range(avail')
    <2>1. Range(avail') \subseteq Buffers
      BY <1>2, RangeOfSeq
    <2> QED
      BY <2>1 DEF Buffers, NoBuffer
  <1>4. \A r \in Reqs : d2h'[r].buf \notin Range(avail') /\ EntryBuf(r)' \notin Range(avail')
    BY <1>1, <1>2, <1>3 DEF PoolShared
  <1>5. \A c \in Buffers : \/ c \in Range(avail')
                           \/ \E r \in Reqs : d2h'[r].buf = c \/ EntryBuf(r)' = c
    BY <1>2 DEF PoolShared
  <1>6. \A r, s \in Reqs :
          /\ d2h'[r].buf = d2h'[s].buf => r = s \/ d2h'[r].buf = NoBuffer
          /\ EntryBuf(r)' = EntryBuf(s)' => r = s \/ EntryBuf(r)' = NoBuffer
          /\ d2h'[r].buf = EntryBuf(s)' => d2h'[r].buf = NoBuffer
    BY DEF PoolShared
  <1> QED
    BY <1>2, <1>4, <1>5, <1>6 DEF PoolShared

LEMMA CopyBeginPool ==
    ASSUME TransferInv, PoolInv, NEW q \in Reqs, CopyBegin(q)
    PROVE  PoolInv'
  <1> DEFINE b == Head(avail)
  <1>1. /\ avail \in Seq(Buffers) /\ avail # <<>> /\ d2h[q].buf = NoBuffer
        /\ UNCHANGED <<entry, lis, pth>>
    BY DEF CopyBegin, TransferInv, PInv, PTypes, NoCopy
  <1>2. /\ b \in Buffers /\ b \in Range(avail) /\ IsInjective(Tail(avail))
        /\ Range(Tail(avail)) = Range(avail) \ {b} /\ avail' = Tail(avail)
    BY <1>1, InjectiveTail DEF PoolInv, PoolShared, CopyBegin
  <1>3. \A r \in Reqs : d2h'[r].buf = IF r = q THEN b ELSE d2h[r].buf
    BY DEF CopyBegin, TransferInv, PInv, PTypes
  <1>4. \A r \in Reqs : EntryBuf(r)' = EntryBuf(r)
    BY <1>1 DEF EntryBuf, Returned
  <1> HIDE DEF b
  <1>5. PoolThreads'
    BY <1>1 DEF PoolInv, PoolThreads
  <1>6. \A r \in Reqs : d2h'[r].buf \notin Range(avail') /\ EntryBuf(r)' \notin Range(avail')
    BY <1>2, <1>3, <1>4 DEF PoolInv, PoolShared
  <1>7. \A r, s \in Reqs :
          /\ d2h'[r].buf = d2h'[s].buf => r = s \/ d2h'[r].buf = NoBuffer
          /\ EntryBuf(r)' = EntryBuf(s)' => r = s \/ EntryBuf(r)' = NoBuffer
          /\ d2h'[r].buf = EntryBuf(s)' => d2h'[r].buf = NoBuffer
    BY <1>2, <1>3, <1>4 DEF PoolInv, PoolShared
  <1>8. \A c \in Buffers : \/ c \in Range(avail')
                           \/ \E r \in Reqs : d2h'[r].buf = c \/ EntryBuf(r)' = c
    <2>1. NoBuffer \notin Buffers
      BY DEF Buffers, NoBuffer
    <2> QED
      BY <1>1, <1>2, <1>3, <1>4, <2>1 DEF PoolInv, PoolShared
  <1> QED
    BY <1>2, <1>5, <1>6, <1>7, <1>8 DEF PoolInv, PoolShared

LEMMA CopyEndPool ==
    ASSUME TransferInv, PoolInv, NEW q \in Reqs, CopyEnd(q)
    PROVE  PoolInv'
  <1>1. /\ d2h[q].buf \in Buffers /\ d2h[q] # NoCopy /\ NoBuffer \notin Buffers
        /\ UNCHANGED <<avail, lis, pth>>
    BY DEF CopyEnd, TransferInv, PInv, PTypes, NoCopy, Buffers, NoBuffer
  <1>2. entry[q] = NoEntry
    BY <1>1 DEF TransferInv, PInv, PLife
  <1>3. \A r \in Reqs : d2h'[r].buf = IF r = q THEN NoBuffer ELSE d2h[r].buf
    BY DEF CopyEnd, TransferInv, PInv, PTypes, NoCopy
  <1>4. \A r \in Reqs : entry'[r] = IF r = q THEN [exp |-> "live", buf |-> d2h[q].buf] ELSE entry[r]
    BY DEF CopyEnd, TransferInv, PInv, PTypes
  <1>5. ~Returned(q)
    BY <1>2 DEF Returned, TransferInv, PInv, PThreads, PoolInv, PoolThreads
  <1>6. EntryBuf(q)' = d2h[q].buf /\ EntryBuf(q) = NoBuffer
    <2>1. ~Returned(q)'
      BY <1>1, <1>5 DEF Returned
    <2> QED
      BY <1>2, <1>4, <1>5, <2>1 DEF EntryBuf, NoEntry
  <1>7. \A r \in Reqs : r # q => EntryBuf(r)' = EntryBuf(r)
    BY <1>1, <1>4 DEF EntryBuf, Returned
  <1>8. PoolThreads'
    <2>1. lis.pc \in {"return", "mark"} => lis.r \in Reqs /\ lis.r # q
      BY <1>2 DEF TransferInv, PInv, PThreads, PoolInv, PoolThreads
    <2>2. pth.pc = "return" => pth.r \in Reqs /\ pth.r # q
      BY <1>2 DEF TransferInv, PInv, PThreads
    <2> QED
      BY <1>1, <1>4, <2>1, <2>2 DEF PoolInv, PoolThreads
  <1>9. \A r \in Reqs : d2h'[r].buf \notin Range(avail') /\ EntryBuf(r)' \notin Range(avail')
    <2>1. NoBuffer \notin Range(avail)
      BY <1>1, RangeOfSeq DEF TransferInv, PInv, PTypes
    <2> QED
      BY <1>1, <1>3, <1>6, <1>7, <2>1 DEF PoolInv, PoolShared
  <1>10. \A r, s \in Reqs :
          /\ d2h'[r].buf = d2h'[s].buf => r = s \/ d2h'[r].buf = NoBuffer
          /\ EntryBuf(r)' = EntryBuf(s)' => r = s \/ EntryBuf(r)' = NoBuffer
          /\ d2h'[r].buf = EntryBuf(s)' => d2h'[r].buf = NoBuffer
    BY <1>1, <1>3, <1>6, <1>7 DEF PoolInv, PoolShared
  <1>11. \A c \in Buffers : \/ c \in Range(avail')
                            \/ \E r \in Reqs : d2h'[r].buf = c \/ EntryBuf(r)' = c
    BY <1>1, <1>3, <1>6, <1>7 DEF PoolInv, PoolShared
  <1> QED
    BY <1>1, <1>8, <1>9, <1>10, <1>11 DEF PoolInv, PoolShared

LEMMA ReturnPool ==
    ASSUME TransferInv, PoolInv, PReturn \/ ListenReturn
    PROVE  PoolInv'
  <1>1. NoBuffer \notin Buffers
    BY DEF Buffers, NoBuffer
  <1>2. CASE PReturn
    <2> DEFINE q == pth.r
    <2>1. /\ q \in Reqs /\ pth.pc = "return" /\ pth.buf \in Buffers /\ entry[q].buf = pth.buf
          /\ UNCHANGED <<d2h, entry, lis>> /\ avail' = Append(avail, pth.buf)
          /\ pth'.pc = "delete" /\ pth'.r = q
      BY <1>2 DEF PReturn, TransferInv, PInv, PTypes, PThreads, PoolInv, PoolThreads
    <2>2. lis.pc = "mark" => lis.r # q
      BY DEF PoolInv, PoolThreads
    <2>3. EntryBuf(q) = pth.buf /\ EntryBuf(q)' = NoBuffer
          /\ \A r \in Reqs : r # q => EntryBuf(r)' = EntryBuf(r)
      BY <2>1, <2>2 DEF EntryBuf, Returned
    <2>4. PoolShared'
      BY <2>1, <2>3, PoolReturn DEF TransferInv, PInv, PoolInv
    <2>5. PoolThreads'
      BY <2>1 DEF PoolInv, PoolThreads
    <2> QED
      BY <2>4, <2>5 DEF PoolInv
  <1>3. CASE ListenReturn
    <2> DEFINE q == lis.r
    <2>1. /\ q \in Reqs /\ lis.pc = "return" /\ lis.buf \in Buffers /\ entry[q].buf = lis.buf
          /\ UNCHANGED <<d2h, entry, pth>> /\ avail' = Append(avail, lis.buf)
          /\ lis'.pc = "mark" /\ lis'.r = q
      BY <1>3 DEF ListenReturn, TransferInv, PInv, PTypes, PThreads, PoolInv, PoolThreads
    <2>2. pth.r # q
      BY <2>1 DEF PoolInv, PoolThreads
    <2>3. EntryBuf(q) = lis.buf /\ EntryBuf(q)' = NoBuffer
          /\ \A r \in Reqs : r # q => EntryBuf(r)' = EntryBuf(r)
      BY <2>1, <2>2 DEF EntryBuf, Returned
    <2>4. PoolShared'
      BY <2>1, <2>3, PoolReturn DEF TransferInv, PInv, PoolInv
    <2>5. PoolThreads'
      BY <2>1 DEF PoolInv, PoolThreads
    <2> QED
      BY <2>4, <2>5 DEF PoolInv
  <1> QED
    BY <1>2, <1>3

LEMMA ListenPool ==
    ASSUME TransferInv, PoolInv, ~Overlap, NEW q \in Reqs, Listen(q)
    PROVE  PoolInv'
  <1>1. /\ lis.pc = "idle" /\ entry[q] # NoEntry /\ pth.r # q
        /\ lis'.r = q /\ lis'.buf = entry[q].buf
        /\ lis'.pc = IF entry[q].buf = NoBuffer THEN "mark" ELSE "return"
        /\ UNCHANGED <<d2h, entry, avail, pth>>
    BY DEF Listen
  <1>2. \A r \in Reqs : EntryBuf(r)' = EntryBuf(r)
    BY <1>1 DEF EntryBuf, Returned
  <1>3. PoolShared'
    BY <1>1, <1>2, PoolFrame DEF PoolInv
  <1>4. PoolThreads'
    BY <1>1 DEF PoolInv, PoolThreads
  <1> QED
    BY <1>3, <1>4 DEF PoolInv

LEMMA ListenMarkPool ==
    ASSUME TransferInv, PoolInv, ListenMark
    PROVE  PoolInv'
  <1>0. PICK q \in Reqs : q = lis.r
    BY DEF ListenMark, TransferInv, PInv, PThreads
  <1>1. lis.pc = "mark" /\ entry[q] # NoEntry /\ q # pth.r
    BY <1>0 DEF ListenMark, PoolInv, PoolThreads
  <1>2. lis' = Idle /\ UNCHANGED <<d2h, avail, pth>>
    BY <1>0, <1>1 DEF ListenMark
  <1>3. \A r \in Reqs : entry'[r] = IF r = q THEN [exp |-> "notified", buf |-> NoBuffer] ELSE entry[r]
    BY <1>0, <1>1 DEF ListenMark, TransferInv, PInv, PTypes
  <1>4. \A r \in Reqs : EntryBuf(r)' = EntryBuf(r)
    <2>1. EntryBuf(q) = NoBuffer /\ EntryBuf(q)' = NoBuffer
      BY <1>0, <1>1, <1>2, <1>3 DEF EntryBuf, Returned, Idle
    <2>2. \A r \in Reqs : r # q => EntryBuf(r)' = EntryBuf(r)
      BY <1>0, <1>2, <1>3, TransferAssumption DEF EntryBuf, Returned, Idle
    <2> QED
      BY <2>1, <2>2
  <1>5. PoolShared'
    BY <1>2, <1>4, PoolFrame DEF PoolInv
  <1>6. PoolThreads'
    <2>1. pth.pc = "return" => pth.r \in Reqs /\ pth.r # q
      BY <1>1 DEF TransferInv, PInv, PThreads
    <2> QED
      BY <1>2, <1>3, <2>1 DEF PoolInv, PoolThreads, Idle
  <1> QED
    BY <1>5, <1>6 DEF PoolInv

LEMMA PVisitPool ==
    ASSUME TransferInv, PoolInv, ~Overlap, NEW q \in Reqs, PVisit(q)
    PROVE  PoolInv'
  <1>1. /\ pth.pc = "visit" /\ pth.r = None /\ lis.r # q
        /\ UNCHANGED <<d2h, entry, avail, lis>>
    BY DEF PVisit, TransferInv, PInv, PThreads
  <1>2. \/ pth'.pc = "visit" /\ pth'.r = None
        \/ /\ pth'.r = q /\ pth'.buf = entry[q].buf
           /\ pth'.pc = IF entry[q].buf = NoBuffer THEN "delete" ELSE "return"
    BY <1>1 DEF PVisit, TransferInv, PInv, PTypes
  <1>3. \A r \in Reqs : EntryBuf(r)' = EntryBuf(r)
    BY <1>1, <1>2, TransferAssumption DEF EntryBuf, Returned
  <1>4. PoolShared'
    BY <1>1, <1>3, PoolFrame DEF PoolInv
  <1>5. PoolThreads'
    BY <1>1, <1>2 DEF PoolInv, PoolThreads
  <1> QED
    BY <1>4, <1>5 DEF PoolInv

LEMMA PDeletePool ==
    ASSUME TransferInv, PoolInv, PDelete
    PROVE  PoolInv'
  <1>0. PICK q \in Reqs : q = pth.r
    BY DEF PDelete, TransferInv, PInv, PThreads
  <1>1. pth.pc = "delete" /\ UNCHANGED <<d2h, avail, lis>>
        /\ pth'.pc = "visit" /\ pth'.r = None
    BY <1>0 DEF PDelete, TransferInv, PInv, PTypes, PThreads
  <1>2. \A r \in Reqs : entry'[r] = IF r = q THEN NoEntry ELSE entry[r]
    BY <1>0, <1>1 DEF PDelete, TransferInv, PInv, PTypes
  <1>3. \A r \in Reqs : EntryBuf(r)' = EntryBuf(r)
    <2>1. EntryBuf(q) = NoBuffer /\ EntryBuf(q)' = NoBuffer
      BY <1>0, <1>1, <1>2 DEF EntryBuf, Returned, NoEntry
    <2>2. \A r \in Reqs : r # q => EntryBuf(r)' = EntryBuf(r)
      BY <1>0, <1>1, <1>2, TransferAssumption DEF EntryBuf, Returned
    <2> QED
      BY <2>1, <2>2
  <1>4. PoolShared'
    BY <1>1, <1>3, PoolFrame DEF PoolInv
  <1>5. PoolThreads'
    <2>1. lis.pc \in {"return", "mark"} => lis.r \in Reqs /\ lis.r # q /\ lis.r # None
      BY <1>0, TransferAssumption DEF TransferInv, PInv, PThreads, PoolInv, PoolThreads
    <2> QED
      BY <1>1, <1>2, <2>1 DEF PoolInv, PoolThreads
  <1> QED
    BY <1>4, <1>5 DEF PoolInv

\* The steps between two visits.
LEMMA PStepPool ==
    ASSUME TransferInv, PoolInv, PStep \/ PUpdate
    PROVE  PoolInv'
  <1>1. /\ pth.pc \in {"top", "visit"} /\ pth'.pc \in {"top", "visit"}
        /\ pth.r = None /\ pth'.r = None /\ UNCHANGED <<avail, lis>>
    <2>1. CASE PStep
      BY <2>1 DEF PStep, Top, TransferInv, PInv, PThreads
    <2>2. CASE PUpdate
      BY <2>2 DEF PUpdate, Top, TransferInv, PInv, PThreads
    <2> QED
      BY <2>1, <2>2
  <1>2. \A r \in Reqs :
          /\ d2h'[r].buf = d2h[r].buf /\ entry'[r].buf = entry[r].buf
          /\ entry[r] # NoEntry => entry'[r] # NoEntry
    <2>1. toSend \subseteq Reqs
          /\ \A r \in toSend : d2h[r].buf = NoBuffer /\ entry[r] = NoEntry /\ entry[r].buf = NoBuffer
      BY DEF TransferInv, PInv, PTypes, PLife, NoCopy, NoEntry
    <2> QED
      BY <2>1 DEF PStep, PUpdate, NoCopy
  <1>3. \A r \in Reqs : EntryBuf(r)' = EntryBuf(r)
    BY <1>1, <1>2 DEF EntryBuf, Returned
  <1>4. PoolShared'
    BY <1>1, <1>2, <1>3, PoolFrame DEF PoolInv
  <1>5. PoolThreads'
    <2>1. lis.pc \in {"return", "mark"} => lis.r \in Reqs
      BY DEF TransferInv, PInv, PThreads
    <2> QED
      BY <1>1, <1>2, <2>1 DEF PoolInv, PoolThreads
  <1> QED
    BY <1>4, <1>5 DEF PoolInv

LEMMA PoolUntouched ==
    ASSUME PoolInv, UNCHANGED <<d2h, entry, avail, lis, pth>>
    PROVE  PoolInv'
  BY DEF PoolInv, PoolThreads, PoolShared, EntryBuf, Returned

LEMMA PoolInit ==
    ASSUME Init
    PROVE  PoolInv
  <1>1. Range(avail) = Buffers /\ IsInjective(avail)
    BY TransferAssumption DEF Init, Range, Buffers, IsInjective
  <1>2. \A r \in Reqs : d2h[r].buf = NoBuffer /\ EntryBuf(r) = NoBuffer
    BY DEF Init, NoCopy, NoEntry, EntryBuf
  <1>3. NoBuffer \notin Buffers
    BY DEF Buffers, NoBuffer
  <1>4. PoolThreads
    BY DEF Init, PoolThreads, Idle, Top
  <1> QED
    BY <1>1, <1>2, <1>3, <1>4 DEF PoolInv, PoolShared

\* Exactly one owner: what PoolShared says, in the words of PoolExclusive.
LEMMA OneOwner ==
    ASSUME TransferInv, PoolInv
    PROVE  PoolExclusive
  <1> SUFFICES ASSUME NEW b \in Buffers
               PROVE  Cardinality(Owners(b)) = 1
    BY DEF PoolExclusive
  <1>1. b # NoBuffer
    BY DEF Buffers, NoBuffer
  <1>2. \A r \in Reqs : EntryBuf(r) = b <=> /\ entry[r].buf = b
                                            /\ ~(lis.r = r /\ lis.pc = "mark")
                                            /\ ~(pth.r = r /\ pth.pc = "delete")
    BY <1>1 DEF EntryBuf, Returned
  <1>3. Owners(b) = {<<"copy", r>> : r \in {r \in Reqs : d2h[r].buf = b}}
                      \cup {<<"entry", r>> : r \in {r \in Reqs : EntryBuf(r) = b}}
                      \cup {<<"free", i>> : i \in {i \in DOMAIN avail : avail[i] = b}}
    BY <1>2 DEF Owners
  <1>4. \E x : Owners(b) = {x}
    <2>1. CASE b \in Range(avail)
      <3>1. PICK i \in DOMAIN avail : avail[i] = b
        BY <2>1 DEF Range
      <3>2. \A j \in DOMAIN avail : avail[j] = b => j = i
        BY <3>1 DEF PoolInv, PoolShared, IsInjective
      <3>3. \A r \in Reqs : d2h[r].buf # b /\ EntryBuf(r) # b
        BY <2>1 DEF PoolInv, PoolShared
      <3>4. Owners(b) = {<<"free", i>>}
        BY <1>3, <3>1, <3>2, <3>3
      <3> QED
        BY <3>4
    <2>2. CASE b \notin Range(avail)
      <3>1. {i \in DOMAIN avail : avail[i] = b} = {}
        BY <2>2 DEF Range
      <3>2. PICK q \in Reqs : d2h[q].buf = b \/ EntryBuf(q) = b
        BY <2>2 DEF PoolInv, PoolShared
      <3>3. CASE d2h[q].buf = b
        <4>1. \A r \in Reqs : EntryBuf(r) # b /\ (d2h[r].buf = b => r = q)
          BY <1>1, <3>3 DEF PoolInv, PoolShared
        <4>2. Owners(b) = {<<"copy", q>>}
          BY <1>3, <3>1, <3>3, <4>1
        <4> QED
          BY <4>2
      <3>4. CASE EntryBuf(q) = b
        <4>1. \A r \in Reqs : d2h[r].buf # b /\ (EntryBuf(r) = b => r = q)
          BY <1>1, <3>4 DEF PoolInv, PoolShared
        <4>2. Owners(b) = {<<"entry", q>>}
          BY <1>3, <3>1, <3>4, <4>1
        <4> QED
          BY <4>2
      <3> QED
        BY <3>2, <3>3, <3>4
    <2> QED
      BY <2>1, <2>2
  <1> QED
    BY <1>4, FS_Singleton

\* If the listener and the engine thread do not meet on an entry, every buffer
\* of HostKVPool is free or has exactly one owner, whatever the interleaving
\* with the copying threads and whichever of the two returns it.
THEOREM PoolCorrect ==
    ASSUME ~Overlap
    PROVE  Spec => []PoolExclusive
  <1>1. Init => PoolInv
    BY PoolInit
  <1>2. TransferInv /\ PoolInv /\ [Next]_vars => PoolInv'
    <2> SUFFICES ASSUME TransferInv, PoolInv, [Next]_vars
                 PROVE  PoolInv'
      OBVIOUS
    <2>1. CASE DThread \/ Environment
      <3>1. UNCHANGED pwork
        BY <2>1 DEF DThread, DBegin, DPassOver, DPull, DRun, DNoRoom, DPassEnd, DWork,
                    Environment, PArrive, DArrive, DAbort, Expire, Lose
      <3> QED
        BY <3>1, PoolUntouched DEF pwork
    <2>2. CASE PThread
      BY <2>2, PStepPool, PVisitPool, ReturnPool, PDeletePool DEF PThread
    <2>3. CASE Listener
      <3>1. ASSUME NEW r \in Reqs, ListenDrop(r)
            PROVE  PoolInv'
        BY <3>1, PoolUntouched DEF ListenDrop, pwork
      <3> QED
        BY <2>3, <3>1, ListenPool, ReturnPool, ListenMarkPool DEF Listener
    <2>4. CASE Workers
      <3>1. ASSUME NEW r \in Reqs, PullEnd(r)
            PROVE  PoolInv'
        BY <3>1, PoolUntouched DEF PullEnd, pwork
      <3> QED
        BY <2>4, <3>1, CopyBeginPool, CopyEndPool DEF Workers, Copies
    <2>5. CASE UNCHANGED vars
      BY <2>5, PoolUntouched DEF vars, pwork
    <2> QED
      BY <2>1, <2>2, <2>3, <2>4, <2>5 DEF Next
  <1>3. TransferInv /\ PoolInv => PoolExclusive
    BY OneOwner
  <1> QED
    BY <1>1, <1>2, <1>3, TransferInvariant, PTL DEF Spec
=============================================================================
