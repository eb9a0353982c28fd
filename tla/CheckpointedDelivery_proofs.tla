--------------------- MODULE CheckpointedDelivery_proofs ---------------------
(***************************************************************************)
(* The delivery of batches from plugin to database, for any number of      *)
(* targets and records, any capacity of the queues and any faults: no gap  *)
(* behind a checkpoint, no record twice, answers go to their request, and  *)
(* the tables implement the ledger.                                        *)
(*                                                                         *)
(* The invariant comes in layers, each proved with the ones before it:     *)
(* types; one request at a time on the socket; an ack is of a stored       *)
(* batch; the batches of a target follow one another; and what is stored.  *)
(***************************************************************************)
EXTENDS CheckpointedDelivery, SequenceTheorems, TLAPS

-----------------------------------------------------------------------------
(* Sequences *)

LEMMA ElementsAppend ==
  ASSUME NEW S, NEW s \in Seq(S), NEW e \in S
  PROVE  ElementsOf(Append(s, e)) = ElementsOf(s) \cup {e}
<1>1. DOMAIN Append(s, e) = 1..(Len(s) + 1) /\ DOMAIN s = 1..Len(s) /\ Len(s) \in Nat
  BY AppendProperties, LenProperties
<1>2. /\ \A i \in 1..Len(s) : Append(s, e)[i] = s[i]
      /\ Append(s, e)[Len(s) + 1] = e
  BY AppendProperties
<1>3. 1..(Len(s) + 1) = 1..Len(s) \cup {Len(s) + 1}
  BY <1>1
<1> QED
  BY <1>1, <1>2, <1>3 DEF ElementsOf

LEMMA ElementsHeadTail ==
  ASSUME NEW S, NEW s \in Seq(S), s # <<>>
  PROVE  /\ Head(s) \in ElementsOf(s)
         /\ ElementsOf(Tail(s)) \subseteq ElementsOf(s)
         /\ ElementsOf(s) \subseteq {Head(s)} \cup ElementsOf(Tail(s))
<1>1. Len(s) \in Nat \ {0} /\ DOMAIN s = 1..Len(s)
  BY EmptySeq, LenProperties
<1>2. Tail(s) \in Seq(S) /\ Len(Tail(s)) = Len(s) - 1 /\ \A i \in 1..Len(Tail(s)) : Tail(s)[i] = s[i + 1]
  BY HeadTailProperties
<1>3. DOMAIN Tail(s) = 1..(Len(s) - 1)
  BY <1>2, LenProperties
<1>4. Head(s) = s[1]
  OBVIOUS
<1>5. ElementsOf(Tail(s)) \subseteq ElementsOf(s)
  <2> SUFFICES ASSUME NEW i \in 1..(Len(s) - 1) PROVE Tail(s)[i] \in ElementsOf(s)
    BY <1>3 DEF ElementsOf
  <2>1. Tail(s)[i] = s[i + 1] /\ i + 1 \in DOMAIN s
    BY <1>1, <1>2
  <2> QED
    BY <2>1 DEF ElementsOf
<1>6. ElementsOf(s) \subseteq {Head(s)} \cup ElementsOf(Tail(s))
  <2> SUFFICES ASSUME NEW i \in 1..Len(s), i # 1 PROVE s[i] \in ElementsOf(Tail(s))
    BY <1>1, <1>4 DEF ElementsOf
  <2>1. i - 1 \in DOMAIN Tail(s) /\ Tail(s)[i - 1] = s[i]
    BY <1>1, <1>2, <1>3
  <2> QED
    BY <2>1 DEF ElementsOf
<1>7. Head(s) \in ElementsOf(s)
  BY <1>1, <1>4 DEF ElementsOf
<1> QED
  BY <1>5, <1>6, <1>7

LEMMA ElementsSubSeq ==
  ASSUME NEW S, NEW s \in Seq(S), NEW m \in Nat \ {0}, NEW n \in 0..Len(s)
  PROVE  /\ SubSeq(s, m, n) \in Seq(S)
         /\ Len(SubSeq(s, m, n)) <= Len(s)
         /\ ElementsOf(SubSeq(s, m, n)) \subseteq ElementsOf(s)
<1>1. Len(s) \in Nat /\ DOMAIN s = 1..Len(s)
  BY LenProperties
<1>2. \A i \in m..n : s[i] \in S
  BY <1>1, ElementOfSeq
<1>3. /\ SubSeq(s, m, n) \in Seq(S)
      /\ Len(SubSeq(s, m, n)) = IF m <= n THEN n - m + 1 ELSE 0
      /\ \A i \in 1..(n - m + 1) : SubSeq(s, m, n)[i] = s[m + i - 1]
  BY <1>1, <1>2, SubSeqProperties
<1>4. DOMAIN SubSeq(s, m, n) = 1..(n - m + 1)
  <2>1. DOMAIN SubSeq(s, m, n) = 1..Len(SubSeq(s, m, n))
    BY <1>3, LenProperties
  <2> QED
    BY <1>1, <1>3, <2>1
<1>5. ElementsOf(SubSeq(s, m, n)) \subseteq ElementsOf(s)
  <2> SUFFICES ASSUME NEW i \in 1..(n - m + 1) PROVE SubSeq(s, m, n)[i] \in ElementsOf(s)
    BY <1>4 DEF ElementsOf
  <2>1. m + i - 1 \in DOMAIN s
    BY <1>1
  <2> QED
    BY <1>3, <2>1 DEF ElementsOf
<1> QED
  BY <1>1, <1>3, <1>5

LEMMA ElementsTyped ==
  ASSUME NEW S, NEW s \in Seq(S) PROVE ElementsOf(s) \subseteq S
BY ElementOfSeq, LenProperties DEF ElementsOf

-----------------------------------------------------------------------------
(* The batches of a poll *)

LEMMA MinOfTyped ==
  ASSUME NEW a \in Int, NEW b \in Int
  PROVE  MinOf(a, b) \in {a, b} /\ MinOf(a, b) <= a /\ MinOf(a, b) <= b
BY DEF MinOf

BatchesOf(t) == {b \in Batches : b.target = t}

\* The batches of the records lo+1..hi follow one another from lo to hi.
LEMMA ChunksChained ==
  ASSUME plan \in Plans, NEW t \in Targets, NEW lo \in Positions, NEW hi \in Positions
  PROVE  /\ Chunks(t, lo, hi) \in Seq(BatchesOf(t))
         /\ \A i \in DOMAIN Chunks(t, lo, hi) :
              /\ Chunks(t, lo, hi)[i].hi <= hi
              /\ i < Len(Chunks(t, lo, hi)) => Chunks(t, lo, hi)[i + 1].lo = Chunks(t, lo, hi)[i].hi
         /\ Chunks(t, lo, hi) # <<>> => /\ Chunks(t, lo, hi)[1].lo = lo
                                        /\ Chunks(t, lo, hi)[Len(Chunks(t, lo, hi))].hi = hi
         /\ Chunks(t, lo, hi) = <<>> => hi <= lo
<1> DEFINE size == plan.batchSize
           k == (hi - lo + size - 1) \div size
           n == IF k < 0 THEN 0 ELSE k
           b(i) == [target |-> t, lo |-> lo + (i - 1) * size, hi |-> MinOf(hi, lo + i * size)]
           c == Chunks(t, lo, hi)
<1>1. size \in Nat \ {0}
  BY DeliveryAssumption DEF Plan
<1>2. lo \in Nat /\ hi \in Nat /\ lo <= MaxRecords /\ hi <= MaxRecords /\ MaxRecords \in Nat
  BY DeliveryAssumption DEF Positions
<1>3. c = [i \in 1..k |-> b(i)]
  BY DEF Chunks
<1> HIDE DEF size, c
<1>4. k \in Int /\ size * k <= hi - lo + size - 1 /\ hi - lo + size - 1 < size * k + size
  BY <1>1, <1>2
<1> HIDE DEF k
<1>5. n \in Nat /\ 1..k = 1..n /\ (k >= 0 => n = k) /\ (k < 0 => n = 0)
  BY <1>4
<1> HIDE DEF n
<1>6. ASSUME NEW i \in 1..n
      PROVE  /\ b(i) \in Batches /\ b(i).target = t /\ b(i).hi <= hi
             /\ i < n => b(i).hi = lo + i * size
             /\ i = n => b(i).hi = hi
  <2>1. i <= k /\ n = k /\ i \in Nat
    BY <1>4, <1>5
  <2>2. (i - 1) * size \in Nat /\ i * size = (i - 1) * size + size
    BY <1>1, <2>1
  <2>3. i * size <= k * size
    BY <1>1, <1>4, <2>1
  <2>4. (i - 1) * size < hi - lo
    BY <1>1, <1>2, <1>4, <2>2, <2>3
  <2>5. i < k => i * size <= (k - 1) * size /\ (k - 1) * size = k * size - size
    BY <1>1, <1>4, <2>1
  <2>6. i < k => lo + i * size <= hi
    BY <1>1, <1>2, <1>4, <2>2, <2>5
  <2>7. i = k => hi <= lo + i * size
    BY <1>1, <1>2, <1>4, <2>2
  <2> DEFINE x == (i - 1) * size
             y == i * size
  <2>8. /\ x \in Nat /\ y = x + size /\ x < hi - lo
        /\ (i < k => lo + y <= hi) /\ (i = k => hi <= lo + y)
    BY <2>2, <2>4, <2>6, <2>7
  <2>9. b(i) = [target |-> t, lo |-> lo + x, hi |-> MinOf(hi, lo + y)]
    OBVIOUS
  <2> HIDE DEF x, y, b
  <2>10. /\ lo + x \in Positions /\ MinOf(hi, lo + y) \in Positions
         /\ lo + x < MinOf(hi, lo + y) /\ MinOf(hi, lo + y) <= hi
    BY <1>1, <1>2, <2>8 DEF MinOf, Positions
  <2>11. (i < n => MinOf(hi, lo + y) = lo + y) /\ (i = n => MinOf(hi, lo + y) = hi)
    BY <1>1, <1>2, <2>1, <2>8 DEF MinOf
  <2> QED
    BY <2>9, <2>10, <2>11 DEF Batches, y
<1>7. c \in Seq(BatchesOf(t)) /\ Len(c) = n /\ DOMAIN c = 1..n
  <2>1. c \in [1..n -> BatchesOf(t)]
    BY <1>3, <1>5, <1>6 DEF BatchesOf
  <2> QED
    BY <1>5, <2>1
<1>8. \A i \in 1..n : c[i] = b(i)
  BY <1>3, <1>5
<1>9. \A i \in 1..n : i < n => c[i + 1].lo = c[i].hi
  <2> SUFFICES ASSUME NEW i \in 1..n, i < n PROVE c[i + 1].lo = c[i].hi
    OBVIOUS
  <2>1. i + 1 \in 1..n /\ (i + 1) - 1 = i
    BY <1>5
  <2>2. b(i + 1).lo = lo + i * size
    BY <2>1
  <2> QED
    BY <1>6, <1>8, <2>1, <2>2
<1>10. n # 0 => c[1].lo = lo /\ c[n].hi = hi
  <2> SUFFICES ASSUME n # 0 PROVE c[1].lo = lo /\ c[n].hi = hi
    OBVIOUS
  <2>1. 1 \in 1..n /\ n \in 1..n
    BY <1>5
  <2>2. b(1).lo = lo + (1 - 1) * size
    OBVIOUS
  <2>3. (1 - 1) * size = 0
    BY <1>1
  <2>4. b(1).lo = lo
    BY <1>2, <2>2, <2>3
  <2> QED
    BY <1>6, <1>8, <2>1, <2>4
<1>11. n = 0 => hi <= lo
  <2> SUFFICES ASSUME k <= 0 PROVE hi <= lo
    BY <1>4, <1>5
  <2>1. size * k <= size * 0
    BY <1>1, <1>4
  <2> QED
    BY <1>1, <1>2, <1>4, <2>1
<1>12. c = <<>> <=> n = 0
  BY <1>5, <1>7, EmptySeq, LenProperties
<1> HIDE DEF b
<1>13. \A i \in DOMAIN c : c[i].hi <= hi
  BY <1>6, <1>7, <1>8
<1> QED
  BY <1>7, <1>9, <1>10, <1>11, <1>12, <1>13 DEF c

-----------------------------------------------------------------------------
(* Types *)

SourceTypes == plan \in Plans /\ written \in [Targets -> Positions]

\* The plugin works on a batch in the states that say so, and the target of
\* one it still delivers has not failed.
PluginTypes ==
  /\ plugin \in {"down", "polling", "enqueue", "waiting", "reporting"}
  /\ readPos \in [Targets -> Positions \cup {NoCursor}]
  /\ ackedPos \in [Targets -> Positions \cup {NoCursor}]
  /\ failed \subseteq Targets
  /\ todo = [t \in Targets |-> todo[t]] /\ \A t \in Targets : todo[t] \in Seq(BatchesOf(t))
  /\ current \in Batches \cup {NoBatch}
  /\ plugin \in {"enqueue", "waiting"} => current \in Batches /\ current.target \notin failed
  /\ plugin = "reporting" => current \in Batches /\ current.target \in failed
  /\ plugin \in {"down", "polling"} => current = NoBatch

QueueTypes ==
  /\ eventQueue \in Seq(Items) /\ Len(eventQueue) <= QueueSize
  /\ ackQueue \in Seq(Answers) /\ Len(ackQueue) <= QueueSize

GoodFrames == {f \in Frames : f.kind = "batch" => f.batch \in Batches}

SenderTypes ==
  /\ sender \in {"dead", "offline", "ready", "resuming", "sending", "acking", "retrying"}
  /\ pending \in GoodFrames /\ resumed \in BOOLEAN /\ outbox \in Answers

LinkTypes ==
  /\ linkUp \in BOOLEAN /\ wire \in Seq(GoodFrames) /\ bound \in BOOLEAN
  /\ answer \in Answers /\ orphans \subseteq GoodFrames

DbTypes ==
  /\ receipts \subseteq Batches /\ rows \in [Batches -> Nat]
  /\ checkpoint \in [Targets -> Positions \cup {NoCursor}] /\ rawStored \subseteq Batches

GhostTypes ==
  /\ agent \in {"check", "put"}
  /\ base \in [Targets -> Positions] /\ stale \in BOOLEAN /\ faults \in [Faults -> Nat]

TypeInv ==
  SourceTypes /\ PluginTypes /\ QueueTypes /\ SenderTypes /\ LinkTypes /\ DbTypes /\ GhostTypes

LEMMA TypesUnchanged ==
  /\ SourceTypes /\ UNCHANGED <<plan, written>> => SourceTypes'
  /\ PluginTypes /\ UNCHANGED pluginVars => PluginTypes'
  /\ QueueTypes /\ UNCHANGED <<eventQueue, ackQueue>> => QueueTypes'
  /\ SenderTypes /\ UNCHANGED senderVars => SenderTypes'
  /\ LinkTypes /\ UNCHANGED linkVars => LinkTypes'
  /\ DbTypes /\ UNCHANGED dbVars => DbTypes'
  /\ GhostTypes /\ UNCHANGED <<agent, base, stale, faults>> => GhostTypes'
BY DEF SourceTypes, PluginTypes, QueueTypes, SenderTypes, LinkTypes, DbTypes, GhostTypes,
       pluginVars, senderVars, linkVars, dbVars

LEMMA Constants ==
  /\ MaxRecords \in Nat /\ QueueSize \in Nat \ {0} /\ DrainLimit \in Nat \ {0}
  /\ NoCursor = -1 /\ NoCursor \notin Positions /\ 0 \in Positions /\ Positions \subseteq Nat
  /\ NoBatch.target \notin Targets /\ NoBatch \notin Batches
BY DeliveryAssumption DEF Positions, NoCursor, NoBatch, Targets, Batches

LEMMA ItemsTyped ==
  /\ OtherEvent \in Items
  /\ \A b \in Batches : BatchItem(b) \in Items /\ BatchItem(b).kind = "batch" /\ BatchItem(b).batch = b
  /\ \A i \in Items : i.kind = "batch" => i.batch \in Batches
  /\ OtherEvent.kind # "batch"
BY DEF Items, OtherEvent, BatchItem

LEMMA FramesTyped ==
  /\ Resume \in GoodFrames /\ NoFrame \in GoodFrames
  /\ Resume.kind = "resume" /\ NoFrame.kind = "none"
  /\ \A b \in Batches : BatchFrame(b) \in GoodFrames /\ BatchFrame(b).kind = "batch" /\ BatchFrame(b).batch = b
  /\ \A s \in SUBSET Batches : ListFrame(s) \in GoodFrames /\ ListFrame(s).kind = "list"
  /\ \A f \in GoodFrames : f.kind = "batch" => f.batch \in Batches
  /\ \A f \in GoodFrames : f.batch \in Batches \cup {NoBatch} /\ f.list \subseteq Batches
BY DEF GoodFrames, Frames, Resume, NoFrame, BatchFrame, ListFrame

LEMMA AnswersTyped ==
  /\ NoAnswer \in Answers /\ NoAnswer.status = "none" /\ NoAnswer.batch = NoBatch
  /\ \A b \in Batches \cup {NoBatch}, s \in {"none", "resumed", "ack", "nack", "retry"} :
       Answer(b, s) \in Answers /\ Answer(b, s).batch = b /\ Answer(b, s).status = s
  /\ \A a \in Answers : /\ a.batch \in Batches \cup {NoBatch}
                        /\ a.status \in {"none", "resumed", "ack", "nack", "retry"}
BY DEF Answers, Answer, NoAnswer

LEMMA FaultTyped ==
  ASSUME GhostTypes, NEW f \in Faults, Fault(f) PROVE faults' \in [Faults -> Nat]
BY DEF GhostTypes, Fault

LEMMA InitTypes == Init => TypeInv
<1> SUFFICES ASSUME Init PROVE TypeInv
  OBVIOUS
<1> USE Constants, FramesTyped, AnswersTyped DEF Init
<1>1. SourceTypes /\ GhostTypes
  BY DEF SourceTypes, GhostTypes
<1>2. PluginTypes
  BY EmptySeq DEF PluginTypes
<1>3. QueueTypes
  BY EmptySeq DEF QueueTypes
<1>4. SenderTypes
  BY DEF SenderTypes
<1>5. LinkTypes
  BY EmptySeq DEF LinkTypes
<1>6. DbTypes
  BY DEF DbTypes
<1> QED
  BY <1>1, <1>2, <1>3, <1>4, <1>5, <1>6 DEF TypeInv

LEMMA PluginStepTypes == ASSUME TypeInv, PluginStep \/ PluginStart \/ PluginCrash PROVE TypeInv'
<1> USE DEF TypeInv
<1> USE Constants, TypesUnchanged DEF dbVars, senderVars, linkVars
<1>1. CASE PluginStart
  <2>1. PluginTypes'
    BY <1>1, EmptySeq DEF PluginStart, PluginTypes, DbTypes
  <2>2. GhostTypes'
    BY <1>1 DEF PluginStart, GhostTypes
  <2> QED
    BY <1>1, <2>1, <2>2 DEF PluginStart
<1>2. CASE Poll
  <2>1. base' \in [Targets -> Positions] /\ readPos' \in [Targets -> Positions \cup {NoCursor}]
    BY <1>2 DEF Poll, SourceTypes, PluginTypes, GhostTypes
  <2>2. \A t \in Targets : todo'[t] \in Seq(BatchesOf(t))
    <3> DEFINE ready == {t \in Targets \ failed : readPos[t] # NoCursor}
    <3>1. todo' = [t \in Targets |-> IF t \in ready THEN Chunks(t, readPos[t], written[t]) ELSE <<>>]
      BY <1>2 DEF Poll
    <3>2. \A t \in ready : Chunks(t, readPos[t], written[t]) \in Seq(BatchesOf(t))
      BY ChunksChained DEF SourceTypes, PluginTypes
    <3> QED
      BY <3>1, <3>2, EmptySeq
  <2>3. PluginTypes'
    BY <1>2, <2>1, <2>2 DEF Poll, PluginTypes
  <2>4. GhostTypes'
    BY <1>2, <2>1 DEF Poll, GhostTypes
  <2> QED
    BY <1>2, <2>3, <2>4 DEF Poll
<1>3. ASSUME Die PROVE PluginTypes'
  BY <1>3, EmptySeq DEF Die, PluginTypes
<1>4. CASE PollDies
  BY <1>3, <1>4 DEF PollDies, Die, others
<1>5. CASE PluginCrash
  <2>1. GhostTypes'
    BY <1>5, FaultTyped DEF PluginCrash, Die, others, GhostTypes, Faults
  <2> QED
    BY <1>3, <1>5, <2>1 DEF PluginCrash, Die, others
<1>6. ASSUME NEW t \in Targets, Deliver(t) PROVE TypeInv'
  <2>1. /\ todo[t] \in Seq(BatchesOf(t)) /\ todo[t] # <<>>
        /\ todo' = [todo EXCEPT ![t] = Tail(@)]
    BY <1>6 DEF Deliver, PluginTypes
  <2>2. Head(todo[t]) \in BatchesOf(t) /\ Tail(todo[t]) \in Seq(BatchesOf(t))
    BY <2>1, HeadTailProperties
  <2>3. \A s \in Targets : todo'[s] \in Seq(BatchesOf(s))
    BY <2>1, <2>2 DEF PluginTypes
  <2>4. PluginTypes'
    <3>1. CASE t \in failed
      BY <1>6, <2>3, <3>1 DEF Deliver, PluginTypes
    <3>2. CASE t \notin failed
      BY <1>6, <2>2, <2>3, <3>2 DEF Deliver, PluginTypes, BatchesOf
    <3> QED
      BY <3>1, <3>2
  <2> QED
    BY <1>6, <2>4 DEF Deliver, others
<1>7. CASE Enqueue
  <2>1. BatchItem(current) \in Items
    BY <1>7, ItemsTyped DEF Enqueue, PluginTypes
  <2>2. QueueTypes'
    BY <1>7, <2>1, AppendProperties DEF Enqueue, QueueTypes
  <2>3. PluginTypes'
    BY <1>7 DEF Enqueue, PluginTypes
  <2> QED
    BY <1>7, <2>2, <2>3 DEF Enqueue, others
<1>8. CASE TakeAnswer
  <2>1. current \in Batches /\ current.target \in Targets /\ current.hi \in Positions
    BY <1>8 DEF TakeAnswer, PluginTypes, Batches
  <2>2. PluginTypes'
    <3> USE <2>1 DEF TakeAnswer, PluginTypes
    <3>1. CASE Head(ackQueue).batch # current
      BY <1>8, <3>1
    <3>2. CASE Head(ackQueue).batch = current /\ Head(ackQueue).status = "ack"
      BY <1>8, <3>2
    <3>3. CASE Head(ackQueue).batch = current /\ Head(ackQueue).status = "nack"
      BY <1>8, <3>3
    <3>4. CASE Head(ackQueue).batch = current /\ Head(ackQueue).status = "retry"
      BY <1>8, <3>4
    <3> QED
      BY <1>8, <3>1, <3>2, <3>3, <3>4
  <2>3. QueueTypes'
    BY <1>8, HeadTailProperties DEF TakeAnswer, QueueTypes
  <2> QED
    BY <1>8, <2>2, <2>3 DEF TakeAnswer, others
<1>9. CASE Report
  <2>1. QueueTypes'
    BY <1>9, ItemsTyped, AppendProperties DEF Report, QueueTypes
  <2>2. PluginTypes'
    BY <1>9 DEF Report, PluginTypes
  <2> QED
    BY <1>9, <2>1, <2>2 DEF Report, others
<1>10. CASE Timeout
  <2>1. PluginTypes'
    BY <1>10 DEF Timeout, PluginTypes
  <2> QED
    BY <1>10, <2>1 DEF Timeout, others
<1> QED
  BY <1>1, <1>2, <1>4, <1>5, <1>6, <1>7, <1>8, <1>9, <1>10 DEF PluginStep

LEMMA DropLinkTypes ==
  ASSUME LinkTypes, DropLink
  PROVE  /\ linkUp' = FALSE /\ wire' = <<>> /\ bound' = FALSE
         /\ wire' \in Seq(GoodFrames)
         /\ orphans' \subseteq orphans \cup {f \in ElementsOf(wire) : f.kind # "resume"}
         /\ orphans' \subseteq GoodFrames
<1>1. PICK n \in 0..Len(wire) :
        orphans' = orphans \cup {f \in ElementsOf(SubSeq(wire, 1, n)) : f.kind # "resume"}
  BY DEF DropLink
<1>2. ElementsOf(SubSeq(wire, 1, n)) \subseteq ElementsOf(wire) /\ ElementsOf(wire) \subseteq GoodFrames
  BY ElementsSubSeq, ElementsTyped DEF LinkTypes
<1>3. orphans' \subseteq orphans \cup {f \in ElementsOf(wire) : f.kind # "resume"}
  BY <1>1, <1>2
<1> QED
  BY <1>2, <1>3, EmptySeq DEF DropLink, LinkTypes

LEMMA FailTypes == ASSUME TypeInv, Fail PROVE SenderTypes' /\ LinkTypes'
<1> USE DEF TypeInv
<1>1. LinkTypes'
  BY DropLinkTypes, AnswersTyped DEF Fail, LinkTypes
<1>2. SenderTypes'
  BY FramesTyped, AnswersTyped DEF Fail, SenderTypes
<1> QED
  BY <1>1, <1>2

LEMMA PersistTypes ==
  ASSUME DbTypes, NEW b \in Batches, Persist(b) PROVE DbTypes'
<1>1. b.target \in Targets /\ b.hi \in Positions
  BY DEF Batches
<1>2. CASE b \in receipts
  BY <1>2 DEF Persist, DbTypes, dbVars
<1>3. CASE b \notin receipts
  BY <1>1, <1>3 DEF Persist, DbTypes
<1> QED
  BY <1>2, <1>3

LEMMA SenderStepTypes ==
  ASSUME TypeInv, SenderStep \/ SenderRestart \/ SenderExit \/ LinkDrop \/ AckTimeout PROVE TypeInv'
<1> USE DEF TypeInv
<1> USE Constants, TypesUnchanged, FramesTyped, AnswersTyped DEF pluginVars, dbVars, others
<1>1. CASE SenderConnect
  BY <1>1 DEF SenderConnect, SenderTypes, LinkTypes
<1>2. CASE SenderRestart
  BY <1>2 DEF SenderRestart, SenderTypes, linkVars
<1>3. CASE Drain
  <2>1. Len(eventQueue) \in Nat /\ eventQueue \in Seq(Items) /\ Len(eventQueue) <= QueueSize
    BY LenProperties DEF QueueTypes
  <2>2. CASE Head(eventQueue).kind = "batch"
    <3>1. pending' = BatchFrame(Head(eventQueue).batch) /\ eventQueue' = Tail(eventQueue)
          /\ eventQueue # <<>> /\ UNCHANGED <<sender, resumed, outbox, ackQueue>>
      BY <1>3, <2>2 DEF Drain
    <3>2. Head(eventQueue).batch \in Batches /\ Tail(eventQueue) \in Seq(Items)
          /\ Len(Tail(eventQueue)) <= QueueSize
      BY <2>1, <2>2, <3>1, ItemsTyped, HeadTailProperties
    <3>3. QueueTypes' /\ SenderTypes'
      BY <3>1, <3>2 DEF QueueTypes, SenderTypes
    <3> QED
      BY <1>3, <3>3 DEF Drain, linkVars
  <2>3. CASE Head(eventQueue).kind = "event"
    <3>1. PICK n \in 1..MinOf(DrainLimit, Len(eventQueue)) :
            /\ pending' = ListFrame({i.batch : i \in
                 {j \in ElementsOf(SubSeq(eventQueue, 1, n)) : j.kind = "batch"}})
            /\ eventQueue' = SubSeq(eventQueue, n + 1, Len(eventQueue))
      BY <1>3, <2>3 DEF Drain
    <3>2. n \in 0..Len(eventQueue) /\ n + 1 \in Nat \ {0} /\ Len(eventQueue) \in 0..Len(eventQueue)
      BY <2>1, MinOfTyped
    <3>3. ElementsOf(SubSeq(eventQueue, 1, n)) \subseteq Items
      BY <2>1, <3>2, ElementsSubSeq, ElementsTyped
    <3>4. pending' \in GoodFrames
      BY <3>1, <3>3, ItemsTyped
    <3>5. eventQueue' \in Seq(Items) /\ Len(eventQueue') <= Len(eventQueue)
      BY <2>1, <3>1, <3>2, ElementsSubSeq
    <3>6. Len(eventQueue') \in Nat
      BY <3>5, LenProperties
    <3>7. QueueTypes' /\ SenderTypes'
      BY <1>3, <2>1, <3>4, <3>5, <3>6 DEF Drain, QueueTypes, SenderTypes
    <3> QED
      BY <1>3, <3>7 DEF Drain, linkVars
  <2> QED
    BY <1>3, <2>2, <2>3 DEF Drain
<1>4. CASE Send
  <2>1. wire' \in Seq(GoodFrames)
    <3>1. wire' = Append(wire, pending) \/ wire' = Append(wire, Resume)
      BY <1>4 DEF Send
    <3>2. wire \in Seq(GoodFrames) /\ pending \in GoodFrames /\ Resume \in GoodFrames
      BY DEF SenderTypes, LinkTypes
    <3> HIDE TypesUnchanged, AnswersTyped, FramesTyped, Constants DEF TypeInv
    <3>3. \A f \in GoodFrames : Append(wire, f) \in Seq(GoodFrames)
      BY <3>2, AppendProperties
    <3> QED
      BY <3>1, <3>2, <3>3
  <2>2. LinkTypes' /\ SenderTypes'
    BY <1>4, <2>1 DEF Send, SenderTypes, LinkTypes
  <2> QED
    BY <1>4, <2>2 DEF Send
<1>5. CASE ReceiveResume
  <2>1. pending.batch \in Batches \cup {NoBatch} /\ answer.status \in {"none", "resumed", "ack", "nack", "retry"}
    BY DEF SenderTypes, LinkTypes
  <2>2. Answer(pending.batch, answer.status) \in Answers
    BY <2>1
  <2>3. sender' \in {"ready", "acking"} /\ pending' \in GoodFrames /\ resumed' \in BOOLEAN
        /\ outbox' \in Answers
    <3>1. CASE answer.status = "resumed"
      BY <1>5, <3>1 DEF ReceiveResume, SenderTypes
    <3>2. CASE answer.status # "resumed"
      BY <1>5, <2>2, <3>2 DEF ReceiveResume, SenderTypes
    <3> QED
      BY <3>1, <3>2
  <2>4. LinkTypes'
    BY <1>5 DEF ReceiveResume, LinkTypes
  <2> QED
    BY <1>5, <2>3, <2>4 DEF ReceiveResume, SenderTypes
<1>6. CASE ReceiveAnswer
  <2>1. LinkTypes' /\ SenderTypes'
    BY <1>6 DEF ReceiveAnswer, SenderTypes, LinkTypes
  <2> QED
    BY <1>6, <2>1 DEF ReceiveAnswer
<1>7. CASE SenderFails
  BY <1>7, FailTypes DEF SenderFails, Fail
<1>8. CASE AckTimeout
  <2>1. GhostTypes'
    BY <1>8, FaultTyped DEF AckTimeout, Fail, GhostTypes, Faults
  <2> QED
    BY <1>8, <2>1, FailTypes DEF AckTimeout, Fail
<1>9. CASE PutAnswer
  <2>1. QueueTypes'
    BY <1>9, AppendProperties DEF PutAnswer, QueueTypes, SenderTypes
  <2>2. SenderTypes'
    BY <1>9 DEF PutAnswer, SenderTypes
  <2> QED
    BY <1>9, <2>1, <2>2 DEF PutAnswer
<1>10. CASE SenderExit
  <2>1. GhostTypes'
    BY <1>10, FaultTyped DEF SenderExit, GhostTypes, Faults
  <2>2. LinkTypes'
    BY <1>10, DropLinkTypes DEF SenderExit, LinkTypes
  <2>3. SenderTypes'
    BY <1>10 DEF SenderExit, SenderTypes
  <2> QED
    BY <1>10, <2>1, <2>2, <2>3 DEF SenderExit
<1>11. CASE LinkDrop
  <2>1. GhostTypes'
    BY <1>11, FaultTyped DEF LinkDrop, GhostTypes, Faults
  <2>2. LinkTypes'
    <3>1. linkUp' = FALSE /\ bound' = FALSE /\ wire' \in Seq(GoodFrames) /\ orphans' \subseteq GoodFrames
      BY <1>11, DropLinkTypes DEF LinkDrop
    <3>2. answer' \in Answers
      BY <1>11 DEF LinkDrop, LinkTypes
    <3> QED
      BY <3>1, <3>2 DEF LinkTypes
  <2> QED
    BY <1>11, <2>1, <2>2 DEF LinkDrop
<1> QED
  BY <1>1, <1>2, <1>3, <1>4, <1>5, <1>6, <1>7, <1>8, <1>9, <1>10, <1>11 DEF SenderStep

LEMMA IndexerStepTypes ==
  ASSUME TypeInv, IndexerStep \/ \E f \in orphans : ConsumeOrphan(f) PROVE TypeInv'
<1> USE DEF TypeInv
<1> USE Constants, TypesUnchanged, FramesTyped, AnswersTyped DEF pluginVars, senderVars, others
<1>1. ASSUME TakeFrame
      PROVE  /\ Head(wire) \in GoodFrames /\ wire' \in Seq(GoodFrames)
             /\ UNCHANGED <<linkUp, orphans>>
             /\ SourceTypes' /\ PluginTypes' /\ QueueTypes' /\ SenderTypes'
             /\ UNCHANGED <<agent, base, stale>>
  <2>1. wire \in Seq(GoodFrames) /\ wire # <<>> /\ wire' = Tail(wire)
    BY <1>1 DEF TakeFrame, LinkTypes
  <2>2. Head(wire) \in GoodFrames /\ Tail(wire) \in Seq(GoodFrames)
    BY <2>1, HeadTailProperties
  <2> QED
    BY <1>1, <2>1, <2>2 DEF TakeFrame
<1>2. CASE ConsumeResume
  <2>1. answer' \in Answers /\ bound' \in BOOLEAN
    <3>1. \A s \in {"resumed", "retry", "nack"} : Answer(NoBatch, s) \in Answers
      OBVIOUS
    <3>2. bound' \in {TRUE, bound}
      BY <1>2 DEF ConsumeResume
    <3>3. \E s \in {"resumed", "retry", "nack"} : answer' = Answer(NoBatch, s)
      BY <1>2 DEF ConsumeResume
    <3>4. bound \in BOOLEAN
      BY DEF LinkTypes
    <3> HIDE TypesUnchanged, AnswersTyped, FramesTyped, Constants DEF TypeInv
    <3> QED
      BY <3>1, <3>2, <3>3, <3>4
  <2>2. faults' \in [Faults -> Nat]
    BY <1>2, FaultTyped DEF ConsumeResume, GhostTypes, Faults
  <2>3. LinkTypes' /\ GhostTypes'
    BY <1>1, <1>2, <2>1, <2>2 DEF ConsumeResume, LinkTypes, GhostTypes
  <2> QED
    BY <1>1, <1>2, <2>3 DEF ConsumeResume
<1>3. CASE ConsumeBatch
  <2> DEFINE b == Head(wire).batch
  <2>1. b \in Batches
    BY <1>1, <1>3 DEF ConsumeBatch
  <2>2. answer' \in Answers /\ bound' \in BOOLEAN
    BY <1>3, <2>1 DEF ConsumeBatch, LinkTypes
  <2>3. DbTypes'
    BY <1>3, <2>1, PersistTypes DEF ConsumeBatch
  <2>4. faults' \in [Faults -> Nat]
    BY <1>3, FaultTyped DEF ConsumeBatch, GhostTypes, Faults
  <2>5. LinkTypes' /\ GhostTypes'
    BY <1>1, <1>3, <2>2, <2>4 DEF ConsumeBatch, LinkTypes, GhostTypes
  <2> QED
    BY <1>1, <1>3, <2>3, <2>5 DEF ConsumeBatch
<1>4. CASE ConsumeList
  <2>1. DbTypes'
    BY <1>1, <1>4 DEF ConsumeList, StoreList, DbTypes
  <2>2. LinkTypes' /\ GhostTypes'
    BY <1>1, <1>4 DEF ConsumeList, LinkTypes, GhostTypes
  <2> QED
    BY <1>1, <1>4, <2>1, <2>2 DEF ConsumeList
<1>5. ASSUME NEW f \in orphans, ConsumeOrphan(f) PROVE TypeInv'
  <2>1. f \in GoodFrames
    BY DEF LinkTypes
  <2>2. DbTypes'
    BY <1>5, <2>1, PersistTypes DEF ConsumeOrphan, StoreList, DbTypes, dbVars
  <2>3. LinkTypes'
    BY <1>5 DEF ConsumeOrphan, LinkTypes
  <2> QED
    BY <1>5, <2>2, <2>3 DEF ConsumeOrphan
<1> QED
  BY <1>2, <1>3, <1>4, <1>5 DEF IndexerStep

LEMMA StepTypes == ASSUME TypeInv, [Next]_vars PROVE TypeInv'
<1>1. ASSUME NEW t \in Targets, Write(t) PROVE TypeInv'
  <2>1. written[t] + 1 \in Positions
    BY <1>1, DeliveryAssumption DEF Write, Positions, TypeInv, SourceTypes, Plan, Targets
  <2>2. SourceTypes'
    BY <1>1, <2>1 DEF Write, TypeInv, SourceTypes, others
  <2> QED
    BY <1>1, <2>2, TypesUnchanged DEF Write, TypeInv, others
<1>2. CASE QueueOtherEvent
  <2>1. QueueTypes'
    BY <1>2, ItemsTyped, AppendProperties, Constants DEF QueueOtherEvent, TypeInv, QueueTypes
  <2>2. GhostTypes'
    BY <1>2 DEF QueueOtherEvent, TypeInv, GhostTypes
  <2> QED
    BY <1>2, <2>1, <2>2, TypesUnchanged DEF QueueOtherEvent, TypeInv
<1>3. CASE UNCHANGED vars
  BY <1>3, TypesUnchanged DEF vars, TypeInv, others
<1>4. CASE HeartbeatDue
  <2>1. GhostTypes'
    BY <1>4, FaultTyped DEF HeartbeatDue, TypeInv, GhostTypes, Faults
  <2> QED
    BY <1>4, <2>1, TypesUnchanged DEF HeartbeatDue, TypeInv
<1> QED
  BY <1>1, <1>2, <1>3, <1>4, PluginStepTypes, SenderStepTypes, IndexerStepTypes DEF Next, AgentStep, FaultStep

\* The types with which every step is reasoned about: those of TypeOK, and that
\* `todo` holds the batches of its own target, and what the plugin works on in
\* each of its states (deliver_batch in src/agent/plugins/base.py).
THEOREM TypesInvariant == Spec => []TypeInv
BY InitTypes, StepTypes, PTL DEF Spec

\* Processes, queues and tables hold what they are made for, whatever the
\* capacity of the queues and the faults (src/agent/plugins/base.py,
\* src/agent/plugins/plugin_process_manager.py).
THEOREM TypeCorrect == Spec => []TypeOK
<1>1. TypeInv => TypeOK
  <2> SUFFICES ASSUME TypeInv PROVE TypeOK
    OBVIOUS
  <2>1. todo \in [Targets -> Seq(Batches)]
    <3>1. todo = [t \in Targets |-> todo[t]]
      BY DEF TypeInv, PluginTypes
    <3>2. ASSUME NEW t \in Targets PROVE todo[t] \in Seq(Batches)
      <4>1. todo[t] \in Seq(BatchesOf(t)) /\ BatchesOf(t) \subseteq Batches
        BY DEF TypeInv, PluginTypes, BatchesOf
      <4> QED
        BY <4>1, SeqMonotonic
    <3> QED
      BY <3>1, <3>2
  <2>2. wire \in Seq(Frames) /\ pending \in Frames /\ orphans \subseteq Frames
    BY SeqMonotonic DEF TypeInv, SenderTypes, LinkTypes, GoodFrames
  <2> QED
    BY <2>1, <2>2 DEF TypeOK, TypeInv, SourceTypes, PluginTypes, QueueTypes, SenderTypes, LinkTypes,
       DbTypes, GhostTypes
<1> QED
  BY <1>1, TypesInvariant, PTL

-----------------------------------------------------------------------------
(* One request at a time *)

\* Answers carry no number: they are matched by there being at most one frame
\* that is answered, behind any lists, and nothing of a lost connection.
Request(f) ==
  \/ sender = "sending" /\ f = pending
  \/ sender = "resuming" /\ f = Resume

OneRequest ==
  /\ ~linkUp => wire = <<>>
  /\ sender \in {"dead", "offline", "retrying"} => ~linkUp
  /\ sender \in {"sending", "resuming"} => pending.kind = "batch"
  /\ \A i \in DOMAIN wire : wire[i].kind # "list" => i = Len(wire) /\ answer = NoAnswer /\ Request(wire[i])
  /\ answer # NoAnswer => \/ sender = "sending" /\ answer.batch = pending.batch
                          \/ sender = "resuming" /\ answer.batch = NoBatch

LEMMA OneRequestSender ==
  ASSUME TypeInv, OneRequest, SenderStep \/ SenderRestart \/ SenderExit \/ LinkDrop \/ AckTimeout PROVE OneRequest'
<1> USE DEF OneRequest, Request
<1>1. wire \in Seq(GoodFrames) /\ DOMAIN wire = 1..Len(wire) /\ Len(wire) \in Nat
  BY LenProperties DEF TypeInv, LinkTypes
<1>2. DOMAIN (<<>>) = {}
  OBVIOUS
<1>3. ASSUME DropLink PROVE linkUp' = FALSE /\ wire' = <<>>
  BY <1>3 DEF DropLink
<1>4. sender \notin {"sending", "resuming"} =>
        answer = NoAnswer /\ \A i \in DOMAIN wire : wire[i].kind = "list"
  OBVIOUS
<1>5. answer # NoAnswer => \A i \in DOMAIN wire : wire[i].kind = "list"
  OBVIOUS
<1>6. CASE SenderConnect
  BY <1>2, <1>4, <1>6 DEF SenderConnect
<1>7. CASE SenderRestart
  BY <1>2, <1>4, <1>7 DEF SenderRestart, linkVars
<1>8. CASE Drain
  BY <1>4, <1>8 DEF Drain, linkVars
<1>9. CASE Send
  <2>1. /\ sender = "ready" /\ linkUp /\ linkUp' = linkUp /\ answer = NoAnswer /\ answer' = answer
        /\ \A i \in DOMAIN wire : wire[i].kind = "list"
    BY <1>4, <1>9 DEF Send
  <2>2. ASSUME NEW f \in GoodFrames, wire' = Append(wire, f)
        PROVE  /\ DOMAIN wire' = 1..(Len(wire) + 1) /\ Len(wire') = Len(wire) + 1
               /\ wire'[Len(wire')] = f
               /\ \A i \in DOMAIN wire' : i # Len(wire') => wire'[i].kind = "list"
    <3>1. /\ Append(wire, f) \in Seq(GoodFrames) /\ Len(Append(wire, f)) = Len(wire) + 1
          /\ \A i \in 1..Len(wire) : Append(wire, f)[i] = wire[i]
          /\ Append(wire, f)[Len(wire) + 1] = f
      BY <1>1, AppendProperties
    <3>2. DOMAIN wire' = 1..(Len(wire) + 1)
      BY <2>2, <3>1, LenProperties
    <3> QED
      BY <1>1, <2>1, <2>2, <3>1, <3>2
  <2>3. CASE pending.kind = "list"
    <3>1. wire' = Append(wire, pending) /\ pending \in GoodFrames /\ sender' = sender
      BY <1>9, <2>3 DEF Send, TypeInv, SenderTypes
    <3> QED
      BY <2>1, <2>2, <2>3, <3>1
  <2>4. CASE pending.kind = "batch" /\ resumed
    <3>1. wire' = Append(wire, pending) /\ pending \in GoodFrames /\ sender' = "sending" /\ pending' = pending
      BY <1>9, <2>4 DEF Send, TypeInv, SenderTypes
    <3> QED
      BY <2>1, <2>2, <2>4, <3>1
  <2>5. CASE pending.kind = "batch" /\ ~resumed
    <3>1. wire' = Append(wire, Resume) /\ Resume \in GoodFrames /\ sender' = "resuming" /\ pending' = pending
      BY <1>9, <2>5, FramesTyped DEF Send
    <3> QED
      BY <2>1, <2>2, <2>5, <3>1
  <2> QED
    BY <1>9, <2>3, <2>4, <2>5 DEF Send
<1>10. CASE ReceiveResume
  BY <1>5, <1>10 DEF ReceiveResume
<1>11. CASE ReceiveAnswer
  BY <1>5, <1>11 DEF ReceiveAnswer
<1>12. ASSUME Fail PROVE OneRequest'
  BY <1>2, <1>3, <1>12 DEF Fail
<1>13. CASE PutAnswer
  BY <1>4, <1>13 DEF PutAnswer, linkVars
<1>14. CASE SenderExit
  BY <1>2, <1>3, <1>14 DEF SenderExit
<1>15. CASE LinkDrop
  BY <1>2, <1>3, <1>15 DEF LinkDrop, senderVars
<1> QED
  BY <1>6, <1>7, <1>8, <1>9, <1>10, <1>11, <1>12, <1>13, <1>14, <1>15
     DEF SenderStep, SenderFails, AckTimeout

LEMMA OneRequestIndexer == ASSUME TypeInv, OneRequest, IndexerStep PROVE OneRequest'
<1> USE DEF OneRequest, Request
<1>1. linkUp /\ wire # <<>> /\ wire' = Tail(wire) /\ UNCHANGED <<linkUp, sender, pending>>
  BY DEF IndexerStep, ConsumeResume, ConsumeBatch, ConsumeList, TakeFrame, senderVars
<1>2. wire \in Seq(GoodFrames) /\ Head(wire) = wire[1] /\ DOMAIN wire = 1..Len(wire) /\ Len(wire) \in Nat \ {0}
  BY <1>1, LenProperties, EmptySeq DEF TypeInv, LinkTypes
<1>3. /\ Tail(wire) \in Seq(GoodFrames) /\ Len(Tail(wire)) = Len(wire) - 1
      /\ \A i \in 1..Len(Tail(wire)) : Tail(wire)[i] = wire[i + 1]
  BY <1>1, <1>2, HeadTailProperties
<1>4. DOMAIN wire' = 1..(Len(wire) - 1) /\ Len(wire') = Len(wire) - 1
      /\ \A i \in 1..(Len(wire) - 1) : i + 1 \in DOMAIN wire /\ wire'[i] = wire[i + 1]
  BY <1>1, <1>2, <1>3, LenProperties
<1>5. CASE Head(wire).kind = "list"
  <2>1. answer' = answer
    BY <1>5 DEF IndexerStep, ConsumeResume, ConsumeBatch, ConsumeList
  <2>2. ASSUME NEW i \in DOMAIN wire', wire'[i].kind # "list"
        PROVE  i = Len(wire') /\ answer = NoAnswer /\ Request(wire'[i])
    BY <1>2, <1>4, <2>2
  <2> QED
    BY <1>1, <2>1, <2>2
<1>6. CASE Head(wire).kind # "list"
  <2>1. Len(wire) = 1 /\ Request(wire[1])
    BY <1>2, <1>6
  <2>2. DOMAIN wire' = {}
    BY <1>4, <2>1
  <2>3. answer'.batch = IF Head(wire).kind = "resume" THEN NoBatch ELSE Head(wire).batch
    <3>1. Head(wire).batch \in Batches \cup {NoBatch}
      BY <1>2, FramesTyped, ElementOfSeq
    <3>2. CASE ConsumeResume
      <4>1. \E s \in {"resumed", "retry", "nack"} : answer' = Answer(NoBatch, s)
        BY <3>2 DEF ConsumeResume
      <4> QED
        BY <3>2, <4>1, AnswersTyped DEF ConsumeResume
    <3>3. CASE ConsumeBatch
      <4>1. \E s \in {"ack", "retry", "nack"} : answer' = Answer(Head(wire).batch, s)
        BY <3>3 DEF ConsumeBatch
      <4> QED
        BY <3>1, <3>3, <4>1, AnswersTyped DEF ConsumeBatch
    <3> QED
      BY <1>6, <3>2, <3>3 DEF IndexerStep, ConsumeList
  <2>4. \/ sender = "sending" /\ answer'.batch = pending.batch
        \/ sender = "resuming" /\ answer'.batch = NoBatch
    BY <1>2, <2>1, <2>3, FramesTyped
  <2> QED
    BY <1>1, <2>2, <2>4
<1> QED
  BY <1>5, <1>6

LEMMA OneRequestStep == ASSUME TypeInv, OneRequest, [Next]_vars PROVE OneRequest'
<1>1. ASSUME UNCHANGED <<linkUp, wire, sender, pending, answer>> PROVE OneRequest'
  BY <1>1 DEF OneRequest, Request
<1>2. CASE PluginStep \/ PluginStart \/ PluginCrash
  <2>1. UNCHANGED <<linkUp, wire, sender, pending, answer>>
    BY <1>2 DEF PluginStep, PluginStart, Poll, PollDies, PluginCrash, Die, Deliver, Enqueue, TakeAnswer,
       Report, Timeout, linkVars, senderVars
  <2> QED
    BY <1>1, <2>1
<1>3. CASE (\E t \in Targets : Write(t)) \/ QueueOtherEvent \/ HeartbeatDue \/ (\E f \in orphans : ConsumeOrphan(f))
  <2>1. UNCHANGED <<linkUp, wire, sender, pending, answer>>
    BY <1>3 DEF Write, QueueOtherEvent, HeartbeatDue, ConsumeOrphan, linkVars, senderVars
  <2> QED
    BY <1>1, <2>1
<1>4. CASE UNCHANGED vars
  BY <1>1, <1>4 DEF vars, linkVars, senderVars
<1> QED
  BY <1>2, <1>3, <1>4, OneRequestSender, OneRequestIndexer DEF Next, AgentStep, FaultStep

-----------------------------------------------------------------------------
(* What a step does to the batches on their way and to the tables *)

\* A step that only carries batches, or loses them.
Carry ==
  /\ InFlight' \subseteq InFlight
  /\ UNCHANGED <<plan, written, pluginVars, base, stale, receipts, rows, checkpoint>>

\* A step that stores a batch that was on its way.
Store(b) ==
  /\ b \in InFlight \ receipts
  /\ InFlight' \subseteq InFlight
  /\ receipts' = receipts \cup {b}
  /\ rows' = [rows EXCEPT ![b] = @ + 1]
  /\ checkpoint' = [checkpoint EXCEPT ![b.target] = b.hi]
  /\ UNCHANGED <<plan, written, pluginVars, base, stale>>

\* A step of the plugin that puts no batch on the queue.
PluginMove ==
  /\ InFlight' = InFlight
  /\ UNCHANGED <<plan, written, receipts, rows, checkpoint>>
  /\ \/ PluginStart \/ Poll \/ Die
     \/ \E t \in Targets : Deliver(t)
     \/ TakeAnswer \/ Report \/ Timeout

Grow(t) ==
  /\ written[t] < plan.records[t]
  /\ written' = [written EXCEPT ![t] = @ + 1]
  /\ InFlight' = InFlight
  /\ UNCHANGED <<plan, pluginVars, base, stale, receipts, rows, checkpoint>>

QueuedBatches(q) == {i.batch : i \in {j \in ElementsOf(q) : j.kind = "batch"}}
FramedBatches(s) == {f.batch : f \in {g \in s : g.kind = "batch"}}

LEMMA InFlightParts ==
  InFlight = QueuedBatches(eventQueue) \cup FramedBatches({pending} \cup ElementsOf(wire) \cup orphans)
BY DEF InFlight, QueuedBatches, FramedBatches

LEMMA InFlightUnchanged ==
  UNCHANGED <<eventQueue, pending, wire, orphans>> => InFlight' = InFlight
BY DEF InFlight

LEMMA InFlightTyped == TypeInv => InFlight \subseteq Batches
<1> SUFFICES ASSUME TypeInv PROVE InFlight \subseteq Batches
  OBVIOUS
<1>1. ElementsOf(eventQueue) \subseteq Items
  BY ElementsTyped DEF TypeInv, QueueTypes
<1>2. {pending} \cup ElementsOf(wire) \cup orphans \subseteq GoodFrames
  BY ElementsTyped DEF TypeInv, SenderTypes, LinkTypes
<1> QED
  BY <1>1, <1>2, ItemsTyped, FramesTyped DEF InFlight

\* The frames a step may leave under way or with the sender.
LEMMA FramesCarried ==
  ASSUME {pending'} \cup ElementsOf(wire') \cup orphans'
           \subseteq {pending} \cup ElementsOf(wire) \cup orphans \cup {Resume, NoFrame},
         eventQueue' = eventQueue
  PROVE  InFlight' \subseteq InFlight
<1>1. FramedBatches({pending'} \cup ElementsOf(wire') \cup orphans')
        \subseteq FramedBatches({pending} \cup ElementsOf(wire) \cup orphans)
  BY FramesTyped DEF FramedBatches
<1>2. InFlight' = QueuedBatches(eventQueue)
                  \cup FramedBatches({pending'} \cup ElementsOf(wire') \cup orphans')
  BY DEF InFlight, QueuedBatches, FramedBatches
<1> QED
  BY <1>1, <1>2, InFlightParts

LEMMA DroppedFrames ==
  ASSUME TypeInv, DropLink
  PROVE  ElementsOf(wire') \cup orphans' \subseteq ElementsOf(wire) \cup orphans
<1>1. ElementsOf(<<>>) = {}
  BY DEF ElementsOf
<1> QED
  BY <1>1, DropLinkTypes DEF TypeInv, DropLink

LEMMA SenderCarries ==
  ASSUME TypeInv, SenderStep \/ SenderRestart \/ SenderExit \/ LinkDrop \/ AckTimeout PROVE Carry
<1>1. UNCHANGED <<plan, written, pluginVars, base, stale, receipts, rows, checkpoint>>
  BY DEF SenderStep, SenderConnect, SenderRestart, Drain, Send, ReceiveResume, ReceiveAnswer,
     SenderFails, PutAnswer, SenderExit, LinkDrop, AckTimeout, Fail, others, dbVars
<1> SUFFICES InFlight' \subseteq InFlight
  BY <1>1 DEF Carry
<1>2. CASE SenderConnect \/ SenderRestart \/ PutAnswer
  BY <1>2, InFlightUnchanged DEF SenderConnect, SenderRestart, PutAnswer, linkVars
<1>3. CASE Drain
  <2>1. eventQueue \in Seq(Items) /\ eventQueue # <<>> /\ Len(eventQueue) \in Nat
    BY <1>3, LenProperties DEF Drain, TypeInv, QueueTypes
  <2>2. UNCHANGED <<wire, orphans>> /\ pending = NoFrame
    BY <1>3 DEF Drain, linkVars
  <2>3. CASE Head(eventQueue).kind = "batch"
    <3>1. /\ pending' = BatchFrame(Head(eventQueue).batch) /\ eventQueue' = Tail(eventQueue)
          /\ Head(eventQueue).batch \in QueuedBatches(eventQueue)
          /\ QueuedBatches(eventQueue') \subseteq QueuedBatches(eventQueue)
      BY <1>3, <2>1, <2>3, ElementsHeadTail DEF Drain, QueuedBatches
    <3>2. FramedBatches({pending'}) = {Head(eventQueue).batch}
      BY <3>1 DEF FramedBatches, BatchFrame
    <3> DEFINE rest == ElementsOf(wire) \cup orphans
    <3>3. InFlight' = QueuedBatches(eventQueue') \cup FramedBatches({pending'} \cup rest)
      BY <2>2 DEF InFlight, QueuedBatches, FramedBatches
    <3>4. InFlight = QueuedBatches(eventQueue) \cup FramedBatches({pending} \cup rest)
      BY DEF InFlight, QueuedBatches, FramedBatches
    <3>5. /\ FramedBatches({pending'} \cup rest) = FramedBatches({pending'}) \cup FramedBatches(rest)
          /\ FramedBatches(rest) \subseteq FramedBatches({pending} \cup rest)
      BY DEF FramedBatches
    <3> QED
      BY <3>1, <3>2, <3>3, <3>4, <3>5
  <2>4. CASE Head(eventQueue).kind = "event"
    <3>1. PICK n \in 1..MinOf(DrainLimit, Len(eventQueue)) :
            /\ pending' = ListFrame({i.batch : i \in
                 {j \in ElementsOf(SubSeq(eventQueue, 1, n)) : j.kind = "batch"}})
            /\ eventQueue' = SubSeq(eventQueue, n + 1, Len(eventQueue))
      BY <1>3, <2>4 DEF Drain
    <3>2. n + 1 \in Nat \ {0} /\ Len(eventQueue) \in 0..Len(eventQueue)
      BY <2>1
    <3>3. ElementsOf(eventQueue') \subseteq ElementsOf(eventQueue)
      BY <2>1, <3>1, <3>2, ElementsSubSeq
    <3>4. pending'.kind = "list"
      BY <3>1 DEF ListFrame
    <3> QED
      BY <2>2, <3>3, <3>4 DEF InFlight
  <2> QED
    BY <1>3, <2>3, <2>4 DEF Drain
<1>4. CASE Send
  <2>1. ElementsOf(wire') \subseteq ElementsOf(wire) \cup {pending, Resume}
    <3>1. wire \in Seq(GoodFrames) /\ pending \in GoodFrames /\ Resume \in GoodFrames
      BY FramesTyped DEF TypeInv, SenderTypes, LinkTypes
    <3>2. wire' = Append(wire, pending) \/ wire' = Append(wire, Resume)
      BY <1>4 DEF Send
    <3>3. \A f \in GoodFrames : ElementsOf(Append(wire, f)) = ElementsOf(wire) \cup {f}
      BY <3>1, ElementsAppend
    <3> QED
      BY <3>1, <3>2, <3>3
  <2>2. pending' \in {pending, NoFrame} /\ orphans' = orphans /\ eventQueue' = eventQueue
    BY <1>4 DEF Send
  <2> QED
    BY <2>1, <2>2, FramesCarried
<1>5. CASE ReceiveResume \/ ReceiveAnswer
  <2>1. pending' \in {pending, NoFrame} /\ UNCHANGED <<eventQueue, wire, orphans>>
    BY <1>5 DEF ReceiveResume, ReceiveAnswer
  <2> QED
    BY <2>1, FramesCarried
<1>6. CASE SenderFails \/ AckTimeout \/ SenderExit \/ LinkDrop
  <2>1. pending' \in {pending, NoFrame} /\ eventQueue' = eventQueue /\ DropLink
    BY <1>6 DEF SenderFails, AckTimeout, Fail, SenderExit, LinkDrop, senderVars
  <2> QED
    BY <2>1, DroppedFrames, FramesCarried
<1> QED
  BY <1>2, <1>3, <1>4, <1>5, <1>6 DEF SenderStep

LEMMA PersistStores ==
  ASSUME NEW b \in InFlight, Persist(b), InFlight' \subseteq InFlight,
         UNCHANGED <<plan, written, pluginVars, base, stale>>
  PROVE  Carry \/ Store(b)
BY DEF Persist, Carry, Store, dbVars

LEMMA IndexerCarriesOrStores ==
  ASSUME TypeInv, IndexerStep \/ \E f \in orphans : ConsumeOrphan(f)
  PROVE  Carry \/ \E b \in InFlight : Store(b)
<1>1. UNCHANGED <<plan, written, pluginVars, base, stale, eventQueue, pending>>
  BY DEF IndexerStep, ConsumeResume, ConsumeBatch, ConsumeList, TakeFrame, ConsumeOrphan, others, senderVars
<1>2. ASSUME TakeFrame PROVE InFlight' \subseteq InFlight /\ Head(wire) \in ElementsOf(wire)
  <2>1. wire \in Seq(GoodFrames) /\ wire # <<>> /\ wire' = Tail(wire) /\ orphans' = orphans
    BY <1>2 DEF TakeFrame, TypeInv, LinkTypes
  <2>2. ElementsOf(wire') \subseteq ElementsOf(wire) /\ Head(wire) \in ElementsOf(wire)
    BY <2>1, ElementsHeadTail
  <2> QED
    BY <1>1, <2>1, <2>2, FramesCarried
<1>3. CASE ConsumeResume \/ ConsumeList
  BY <1>1, <1>2, <1>3 DEF ConsumeResume, ConsumeList, StoreList, Carry, dbVars
<1>4. CASE ConsumeBatch
  <2>1. Head(wire).batch \in InFlight
    BY <1>2, <1>4 DEF ConsumeBatch, InFlight
  <2>2. Persist(Head(wire).batch) \/ UNCHANGED dbVars
    BY <1>4 DEF ConsumeBatch
  <2> QED
    BY <1>1, <1>2, <1>4, <2>1, <2>2, PersistStores DEF ConsumeBatch, Carry, dbVars
<1>5. ASSUME NEW f \in orphans, ConsumeOrphan(f) PROVE Carry \/ \E b \in InFlight : Store(b)
  <2>1. InFlight' \subseteq InFlight
    BY <1>1, <1>5, FramesCarried DEF ConsumeOrphan
  <2>2. CASE f.kind = "batch" /\ Persist(f.batch)
    <3>1. f.batch \in InFlight
      BY <2>2 DEF InFlight
    <3> QED
      BY <1>1, <2>1, <2>2, <3>1, PersistStores
  <2>3. CASE StoreList(f.list) \/ UNCHANGED dbVars
    BY <1>1, <2>1, <2>3 DEF StoreList, Carry, dbVars
  <2> QED
    BY <1>5, <2>2, <2>3 DEF ConsumeOrphan
<1> QED
  BY <1>3, <1>4, <1>5 DEF IndexerStep

LEMMA PluginMoves ==
  ASSUME TypeInv, PluginStep \/ PluginStart \/ PluginCrash
  PROVE  PluginMove \/ (Enqueue /\ InFlight' = InFlight \cup {current}
                        /\ UNCHANGED <<plan, receipts, rows, checkpoint, base, stale>>)
<1>1. UNCHANGED <<plan, written, receipts, rows, checkpoint, pending, wire, orphans>>
  BY DEF PluginStep, PluginStart, Poll, PollDies, PluginCrash, Die, Deliver, Enqueue, TakeAnswer,
     Report, Timeout, linkVars, senderVars, dbVars, others
<1>2. eventQueue \in Seq(Items)
  BY DEF TypeInv, QueueTypes
<1>3. CASE Enqueue
  <2>1. current \in Batches /\ BatchItem(current) \in Items /\ BatchItem(current).kind = "batch"
        /\ BatchItem(current).batch = current
    BY <1>3, ItemsTyped DEF Enqueue, TypeInv, PluginTypes
  <2>2. ElementsOf(eventQueue') = ElementsOf(eventQueue) \cup {BatchItem(current)}
    BY <1>2, <1>3, <2>1, ElementsAppend DEF Enqueue
  <2>3. QueuedBatches(eventQueue') = QueuedBatches(eventQueue) \cup {current}
    BY <2>1, <2>2 DEF QueuedBatches
  <2>4. InFlight' = QueuedBatches(eventQueue') \cup FramedBatches({pending} \cup ElementsOf(wire) \cup orphans)
    BY <1>1 DEF InFlight, QueuedBatches, FramedBatches
  <2> QED
    BY <1>1, <1>3, <2>3, <2>4, InFlightParts DEF Enqueue, others
<1>4. CASE Report
  <2>1. ElementsOf(eventQueue') = ElementsOf(eventQueue) \cup {OtherEvent}
    BY <1>2, <1>4, ItemsTyped, ElementsAppend DEF Report
  <2>2. QueuedBatches(eventQueue') = QueuedBatches(eventQueue)
    BY <2>1, ItemsTyped DEF QueuedBatches
  <2>3. InFlight' = QueuedBatches(eventQueue') \cup FramedBatches({pending} \cup ElementsOf(wire) \cup orphans)
    BY <1>1 DEF InFlight, QueuedBatches, FramedBatches
  <2> QED
    BY <1>1, <1>4, <2>2, <2>3, InFlightParts DEF PluginMove
<1>5. CASE PluginStart \/ Poll \/ PollDies \/ PluginCrash \/ (\E t \in Targets : Deliver(t))
           \/ TakeAnswer \/ Timeout
  <2>1. eventQueue' = eventQueue
    BY <1>5 DEF PluginStart, Poll, PollDies, PluginCrash, Die, Deliver, TakeAnswer, Timeout
  <2> QED
    BY <1>1, <1>5, <2>1, InFlightUnchanged DEF PluginMove, PollDies, PluginCrash
<1> QED
  BY <1>3, <1>4, <1>5 DEF PluginStep

\* The shapes of a step, for the invariants that see only the batches on
\* their way, the plugin and the tables.
LEMMA StepShape ==
  ASSUME TypeInv, [Next]_vars
  PROVE  \/ Carry
         \/ \E b \in InFlight : Store(b)
         \/ PluginMove
         \/ Enqueue /\ InFlight' = InFlight \cup {current}
            /\ UNCHANGED <<plan, receipts, rows, checkpoint, base, stale>>
         \/ \E t \in Targets : Grow(t)
<1>1. ASSUME NEW t \in Targets, Write(t) PROVE Grow(t)
  BY <1>1, InFlightUnchanged DEF Write, Grow, senderVars, linkVars, dbVars, others
<1>2. CASE QueueOtherEvent
  <2>1. eventQueue' = Append(eventQueue, OtherEvent) /\ UNCHANGED <<pending, wire, orphans>>
        /\ UNCHANGED <<plan, written, pluginVars, base, stale, receipts, rows, checkpoint>>
    BY <1>2 DEF QueueOtherEvent, senderVars, linkVars, dbVars, others
  <2>2. ElementsOf(eventQueue') = ElementsOf(eventQueue) \cup {OtherEvent}
    BY <2>1, ItemsTyped, ElementsAppend DEF TypeInv, QueueTypes
  <2>3. InFlight' = InFlight
    BY <2>1, <2>2, ItemsTyped DEF InFlight
  <2> QED
    BY <2>1, <2>3 DEF Carry
<1>3. CASE UNCHANGED vars
  BY <1>3, InFlightUnchanged DEF vars, Carry, senderVars, linkVars, dbVars, others
<1>4. CASE HeartbeatDue
  BY <1>4, InFlightUnchanged DEF HeartbeatDue, Carry, senderVars, linkVars, dbVars
<1> QED
  BY <1>1, <1>2, <1>3, <1>4, PluginMoves, SenderCarries, IndexerCarriesOrStores DEF Next, AgentStep, FaultStep

-----------------------------------------------------------------------------
(* An ack is of a stored batch *)

Answered == {answer, outbox} \cup ElementsOf(ackQueue)

AcksStored == \A a \in Answered : a.status = "ack" => a.batch \in receipts

LEMMA ReceiptsGrow == ASSUME TypeInv, [Next]_vars PROVE receipts \subseteq receipts'
BY StepShape DEF Carry, Store, PluginMove, Grow

LEMMA AnsweredByIndexer ==
  ASSUME TypeInv, IndexerStep
  PROVE  UNCHANGED <<outbox, ackQueue>> /\ (answer' = answer \/ (answer'.status = "ack" => answer'.batch \in receipts'))
<1>1. UNCHANGED <<outbox, ackQueue>>
  BY DEF IndexerStep, ConsumeResume, ConsumeBatch, ConsumeList, TakeFrame, senderVars
<1>2. CASE ConsumeList
  BY <1>1, <1>2 DEF ConsumeList
<1>3. CASE ConsumeResume
  <2>1. \E s \in {"resumed", "retry", "nack"} : answer' = Answer(NoBatch, s)
    BY <1>3 DEF ConsumeResume
  <2> QED
    BY <1>1, <2>1, AnswersTyped
<1>4. CASE ConsumeBatch
  <2> DEFINE b == Head(wire).batch
  <2>1. wire \in Seq(GoodFrames) /\ wire # <<>> /\ Head(wire).kind = "batch"
    BY <1>4 DEF ConsumeBatch, TakeFrame, TypeInv, LinkTypes
  <2>2. Head(wire) \in GoodFrames
    BY <2>1, HeadTailProperties
  <2>3. b \in Batches
    BY <2>1, <2>2, FramesTyped
  <2>4. answer' = Answer(b, "nack") \/ answer' = Answer(b, "retry") \/ (answer' = Answer(b, "ack") /\ Persist(b))
    BY <1>4 DEF ConsumeBatch
  <2>5. Persist(b) => b \in receipts'
    BY DEF Persist, dbVars
  <2> HIDE DEF b
  <2> QED
    BY <1>1, <2>3, <2>4, <2>5, AnswersTyped
<1> QED
  BY <1>2, <1>3, <1>4 DEF IndexerStep

LEMMA AnsweredBySender ==
  ASSUME TypeInv, OneRequest, AcksStored, SenderStep \/ SenderRestart \/ SenderExit \/ LinkDrop \/ AckTimeout
  PROVE  \A a \in Answered' : a.status = "ack" => a \in Answered
<1> DEFINE Fresh == \A a \in Answered' : a.status = "ack" => a \in Answered
<1>1. CASE SenderConnect \/ SenderRestart \/ Drain \/ Send
  BY <1>1 DEF Answered, SenderConnect, SenderRestart, Drain, Send, linkVars
<1>2. CASE ReceiveResume
  <2>1. answer' = NoAnswer /\ ackQueue' = ackQueue
    BY <1>2 DEF ReceiveResume
  <2>2. CASE answer.status = "resumed"
    BY <1>2, <2>1, <2>2, AnswersTyped DEF Answered, ReceiveResume
  <2>3. CASE answer.status # "resumed"
    <3>1. outbox' = Answer(pending.batch, answer.status) /\ answer # NoAnswer /\ sender = "resuming"
      BY <1>2, <2>3 DEF ReceiveResume
    <3>2. answer.batch = NoBatch
      BY <3>1 DEF OneRequest
    <3>3. answer.status # "ack"
      BY <3>2, Constants DEF AcksStored, Answered, TypeInv, DbTypes
    <3>4. outbox'.status # "ack"
      BY <3>1, <3>3 DEF Answer
    <3> QED
      BY <2>1, <3>4, AnswersTyped DEF Answered
  <2> QED
    BY <2>2, <2>3
<1>3. CASE ReceiveAnswer
  BY <1>3, AnswersTyped DEF Answered, ReceiveAnswer
<1>4. ASSUME Fail PROVE Fresh
  <2>1. answer' = NoAnswer /\ ackQueue' = ackQueue /\ outbox' \in {outbox, Answer(pending.batch, "retry")}
    BY <1>4 DEF Fail
  <2>2. Answer(pending.batch, "retry").status = "retry"
    BY DEF Answer
  <2> QED
    BY <2>1, <2>2, AnswersTyped DEF Answered
<1>5. CASE PutAnswer
  <2>1. ElementsOf(ackQueue') = ElementsOf(ackQueue) \cup {outbox}
    BY <1>5, ElementsAppend DEF PutAnswer, TypeInv, QueueTypes, SenderTypes
  <2>2. answer' = answer /\ outbox' = NoAnswer
    BY <1>5 DEF PutAnswer, linkVars
  <2> QED
    BY <2>1, <2>2, AnswersTyped DEF Answered
<1>6. CASE SenderExit
  BY <1>6, AnswersTyped DEF Answered, SenderExit
<1>7. CASE LinkDrop
  BY <1>7, AnswersTyped DEF Answered, LinkDrop, senderVars
<1> QED
  BY <1>1, <1>2, <1>3, <1>4, <1>5, <1>6, <1>7 DEF SenderStep, SenderFails, AckTimeout

LEMMA AcksStoredStep == ASSUME TypeInv, OneRequest, AcksStored, [Next]_vars PROVE AcksStored'
<1> SUFFICES ASSUME NEW a \in Answered', a.status = "ack" PROVE a \in Answered \/ a.batch \in receipts'
  BY ReceiptsGrow DEF AcksStored
<1>1. CASE IndexerStep
  BY <1>1, AnsweredByIndexer DEF Answered
<1>2. CASE SenderStep \/ SenderRestart \/ SenderExit \/ LinkDrop \/ AckTimeout
  BY <1>2, AnsweredBySender
<1>3. CASE TakeAnswer
  <2>1. ackQueue \in Seq(Answers) /\ ackQueue # <<>> /\ ackQueue' = Tail(ackQueue) /\ UNCHANGED <<answer, outbox>>
    BY <1>3 DEF TakeAnswer, TypeInv, QueueTypes, linkVars, senderVars
  <2> QED
    BY <2>1, ElementsHeadTail DEF Answered
<1>4. CASE \/ PluginStart \/ Poll \/ PollDies \/ (\E t \in Targets : Deliver(t)) \/ Enqueue \/ Report
           \/ Timeout \/ PluginCrash \/ (\E t \in Targets : Write(t)) \/ QueueOtherEvent \/ HeartbeatDue
           \/ (\E f \in orphans : ConsumeOrphan(f)) \/ UNCHANGED vars
  <2>1. UNCHANGED <<answer, outbox, ackQueue>>
    BY <1>4 DEF PluginStart, Poll, PollDies, PluginCrash, Die, Deliver, Enqueue, Report, Timeout, Write,
       QueueOtherEvent, HeartbeatDue, ConsumeOrphan, vars, linkVars, senderVars
  <2> QED
    BY <2>1 DEF Answered
<1> QED
  BY <1>1, <1>2, <1>3, <1>4 DEF Next, PluginStep, AgentStep, FaultStep

-----------------------------------------------------------------------------
(* The batches of a target follow one another *)

\* The hi of `current`, and where the next batch of the target begins.
NextLo(t) == IF todo[t] = <<>> THEN readPos[t] ELSE todo[t][1].lo

Chained ==
  \A t \in Targets :
    /\ \A i \in DOMAIN todo[t] : i < Len(todo[t]) => todo[t][i + 1].lo = todo[t][i].hi
    /\ todo[t] # <<>> => todo[t][Len(todo[t])].hi = readPos[t]
    /\ current.target = t => current.hi = NextLo(t)

\* Nothing is beyond what the source has written.
Known ==
  /\ \A t \in Targets : checkpoint[t] <= written[t] /\ ackedPos[t] <= written[t] /\ readPos[t] <= written[t]
  /\ \A b \in InFlight \cup receipts : b.hi <= written[b.target]
  /\ current # NoBatch => current.hi <= written[current.target]
  /\ \A t \in Targets : \A i \in DOMAIN todo[t] : todo[t][i].hi <= written[t]

LEMMA Numbers ==
  ASSUME TypeInv
  PROVE  /\ \A p \in Positions \cup {NoCursor} : p \in Int /\ NoCursor <= p
         /\ \A t \in Targets : /\ written[t] \in Int /\ NoCursor <= written[t]
                              /\ checkpoint[t] \in Int /\ ackedPos[t] \in Int /\ readPos[t] \in Int
                              /\ base[t] \in Int
         /\ \A b \in Batches : b.lo \in Int /\ b.hi \in Int /\ b.lo < b.hi /\ b.target \in Targets
         /\ \A t \in Targets : \A i \in DOMAIN todo[t] : todo[t][i] \in Batches /\ todo[t][i].target = t
<1>1. \A p \in Positions \cup {NoCursor} : p \in Int /\ NoCursor <= p
  BY DEF Positions, NoCursor
<1>2. \A t \in Targets : /\ written[t] \in Positions /\ base[t] \in Positions
                        /\ checkpoint[t] \in Positions \cup {NoCursor}
                        /\ ackedPos[t] \in Positions \cup {NoCursor}
                        /\ readPos[t] \in Positions \cup {NoCursor}
  BY DEF TypeInv, SourceTypes, PluginTypes, DbTypes, GhostTypes
<1>3. \A b \in Batches : b.lo \in Positions /\ b.hi \in Positions /\ b.lo < b.hi /\ b.target \in Targets
  BY DEF Batches
<1>4. ASSUME NEW t \in Targets, NEW i \in DOMAIN todo[t] PROVE todo[t][i] \in BatchesOf(t)
  <2>1. todo[t] \in Seq(BatchesOf(t))
    BY DEF TypeInv, PluginTypes
  <2> QED
    BY <1>4, <2>1, LenProperties, ElementOfSeq
<1> QED
  BY <1>1, <1>2, <1>3, <1>4 DEF BatchesOf

\* What Poll makes of a target.
LEMMA PollTarget ==
  ASSUME TypeInv, Poll, NEW t \in Targets
  PROVE  /\ current = NoBatch /\ current' = NoBatch /\ plugin = "polling" /\ plugin' = "polling" /\ failed' = failed
         /\ todo[t] = <<>>
         /\ t \in failed => todo'[t] = <<>> /\ readPos'[t] = readPos[t] /\ base'[t] = base[t]
         /\ t \notin failed /\ readPos[t] = NoCursor =>
              todo'[t] = <<>> /\ readPos'[t] = written[t] /\ base'[t] = written[t]
         /\ t \notin failed /\ readPos[t] # NoCursor =>
              /\ todo'[t] = Chunks(t, readPos[t], written[t]) /\ readPos[t] \in Positions
              /\ readPos'[t] = written[t] /\ base'[t] = base[t]
<1>1. /\ current = NoBatch /\ plugin = "polling" /\ UNCHANGED <<plugin, current, failed>>
      /\ \A s \in Targets : todo[s] = <<>>
  BY DEF Poll, Idle
<1>2. /\ base' = [s \in Targets |->
           IF s \in {u \in Targets \ failed : readPos[u] = NoCursor} THEN written[s] ELSE base[s]]
      /\ readPos' = [s \in Targets |-> IF s \in failed THEN readPos[s] ELSE written[s]]
      /\ todo' = [s \in Targets |->
           IF s \in {u \in Targets \ failed : readPos[u] # NoCursor}
           THEN Chunks(s, readPos[s], written[s]) ELSE <<>>]
  BY DEF Poll
<1>3. readPos[t] \in Positions \cup {NoCursor}
  BY DEF TypeInv, PluginTypes
<1> QED
  BY <1>1, <1>2, <1>3

\* What Deliver takes off the batches of a target.
LEMMA DeliverTarget ==
  ASSUME TypeInv, NEW t \in Targets, Deliver(t)
  PROVE  /\ current = NoBatch /\ todo' = [todo EXCEPT ![t] = Tail(@)]
         /\ Len(todo[t]) \in Nat \ {0} /\ DOMAIN todo[t] = 1..Len(todo[t])
         /\ Head(todo[t]) = todo[t][1] /\ todo[t][1] \in Batches /\ todo[t][1].target = t
         /\ Len(todo'[t]) = Len(todo[t]) - 1 /\ DOMAIN todo'[t] = 1..(Len(todo[t]) - 1)
         /\ \A i \in DOMAIN todo'[t] : todo'[t][i] = todo[t][i + 1] /\ i + 1 \in DOMAIN todo[t]
         /\ todo'[t] = <<>> <=> Len(todo[t]) = 1
         /\ \A s \in Targets \ {t} : todo'[s] = todo[s]
         /\ current' = IF t \in failed THEN NoBatch ELSE todo[t][1]
         /\ UNCHANGED <<readPos, ackedPos, failed>>
<1>1. todo[t] \in Seq(BatchesOf(t)) /\ todo[t] # <<>> /\ current = NoBatch
      /\ todo' = [todo EXCEPT ![t] = Tail(@)] /\ todo'[t] = Tail(todo[t])
      /\ \A s \in Targets \ {t} : todo'[s] = todo[s]
  BY DEF Deliver, TypeInv, PluginTypes
<1>2. Len(todo[t]) \in Nat \ {0} /\ DOMAIN todo[t] = 1..Len(todo[t]) /\ Head(todo[t]) = todo[t][1]
  BY <1>1, LenProperties, EmptySeq
<1>3. todo[t][1] \in BatchesOf(t)
  BY <1>1, <1>2, ElementOfSeq
<1>4. /\ Tail(todo[t]) \in Seq(BatchesOf(t)) /\ Len(Tail(todo[t])) = Len(todo[t]) - 1
      /\ \A i \in 1..Len(Tail(todo[t])) : Tail(todo[t])[i] = todo[t][i + 1]
  BY <1>1, HeadTailProperties
<1>5. DOMAIN todo'[t] = 1..(Len(todo[t]) - 1)
  BY <1>1, <1>4, LenProperties
<1>6. todo'[t] = <<>> <=> Len(todo[t]) = 1
  <2> DEFINE q == Tail(todo[t])
  <2>1. q # <<>> => Len(q) \in Nat \ {0}
    BY <1>4, EmptySeq
  <2>2. q = <<>> => Len(q) = 0
    <3> HIDE DEF q
    <3> QED
      BY EmptySeq
  <2>3. Len(q) = Len(todo[t]) - 1 /\ todo'[t] = q
    BY <1>1, <1>4
  <2> HIDE DEF q
  <2> QED
    BY <1>2, <2>1, <2>2, <2>3
<1>7. \A i \in DOMAIN todo'[t] : todo'[t][i] = todo[t][i + 1] /\ i + 1 \in DOMAIN todo[t]
  BY <1>1, <1>2, <1>4, <1>5
<1>8. current' = (IF t \in failed THEN NoBatch ELSE todo[t][1]) /\ UNCHANGED <<readPos, ackedPos, failed>>
  BY <1>1, <1>2 DEF Deliver
<1> QED
  BY <1>1, <1>2, <1>3, <1>4, <1>5, <1>6, <1>7, <1>8 DEF BatchesOf

LEMMA ChainedStep == ASSUME TypeInv, Chained, [Next]_vars PROVE Chained'
<1> USE DEF Chained, NextLo
<1>1. ASSUME UNCHANGED <<todo, readPos>>, current' \in {current, NoBatch} PROVE Chained'
  BY <1>1, Constants
<1>2. CASE Carry \/ (\E b \in InFlight : Store(b)) \/ Enqueue \/ (\E t \in Targets : Grow(t))
  BY <1>1, <1>2 DEF Carry, Store, Enqueue, Grow, pluginVars
<1>3. CASE PluginStart \/ Die
  <2>1. current' = NoBatch /\ \A t \in Targets : todo'[t] = <<>>
    BY <1>3 DEF PluginStart, Die
  <2> QED
    BY <2>1, Constants
<1>4. CASE Poll
  <2> SUFFICES ASSUME NEW t \in Targets
               PROVE  /\ \A i \in DOMAIN todo'[t] : i < Len(todo'[t]) => todo'[t][i + 1].lo = todo'[t][i].hi
                      /\ todo'[t] # <<>> => todo'[t][Len(todo'[t])].hi = readPos'[t]
    BY <1>4, PollTarget, Constants
  <2>1. CASE t \in failed \/ readPos[t] = NoCursor
    BY <1>4, <2>1, PollTarget
  <2>2. CASE t \notin failed /\ readPos[t] # NoCursor
    <3>1. readPos[t] \in Positions /\ written[t] \in Positions /\ plan \in Plans
          /\ todo'[t] = Chunks(t, readPos[t], written[t]) /\ readPos'[t] = written[t]
      BY <1>4, <2>2, PollTarget DEF TypeInv, SourceTypes
    <3> QED
      BY <3>1, ChunksChained
  <2> QED
    BY <2>1, <2>2
<1>5. ASSUME NEW t \in Targets, Deliver(t) PROVE Chained'
  <2>1. ASSUME NEW s \in Targets, s # t
        PROVE  /\ todo'[s] = todo[s] /\ readPos'[s] = readPos[s] /\ current'.target # s
    BY <1>5, <2>1, DeliverTarget, Constants
  <2>2. /\ \A i \in DOMAIN todo'[t] : i < Len(todo'[t]) => todo'[t][i + 1].lo = todo'[t][i].hi
        /\ todo'[t] # <<>> => todo'[t][Len(todo'[t])].hi = readPos'[t]
    <3> DEFINE n == Len(todo[t])
               next == todo'[t]
    <3>1. /\ n \in Nat \ {0} /\ DOMAIN todo[t] = 1..n /\ readPos'[t] = readPos[t]
          /\ Len(next) = n - 1 /\ DOMAIN next = 1..(n - 1) /\ (next = <<>> <=> n = 1)
          /\ \A i \in DOMAIN next : next[i] = todo[t][i + 1]
      BY <1>5, DeliverTarget
    <3>2. \A i \in DOMAIN todo[t] : i < n => todo[t][i + 1].lo = todo[t][i].hi
      OBVIOUS
    <3>3. n # 1 => todo[t] # <<>> /\ todo[t][n].hi = readPos[t]
      BY <3>1
    <3> HIDE DEF n, next
    <3>4. ASSUME NEW i \in DOMAIN next, i < Len(next) PROVE next[i + 1].lo = next[i].hi
      <4>1. i + 1 \in DOMAIN next /\ i + 1 \in DOMAIN todo[t] /\ i + 1 < n
        BY <3>1, <3>4
      <4> QED
        BY <3>1, <3>2, <4>1
    <3>5. next # <<>> => next[Len(next)].hi = readPos[t]
      <4> SUFFICES ASSUME n # 1 PROVE next[n - 1].hi = readPos[t]
        BY <3>1
      <4>1. n - 1 \in DOMAIN next /\ (n - 1) + 1 = n
        BY <3>1
      <4> QED
        BY <3>1, <3>3, <4>1
    <3> QED
      BY <3>1, <3>4, <3>5 DEF next
  <2>3. current'.target = t => current'.hi = IF todo'[t] = <<>> THEN readPos'[t] ELSE todo'[t][1].lo
    <3> SUFFICES ASSUME t \notin failed
                 PROVE  todo[t][1].hi = IF todo'[t] = <<>> THEN readPos[t] ELSE todo'[t][1].lo
      BY <1>5, DeliverTarget, Constants
    <3>1. CASE Len(todo[t]) = 1
      BY <1>5, <3>1, DeliverTarget
    <3>2. CASE Len(todo[t]) # 1
      <4>1. 1 \in DOMAIN todo'[t] /\ 1 \in DOMAIN todo[t] /\ 1 < Len(todo[t]) /\ todo'[t] # <<>>
        BY <1>5, <3>2, DeliverTarget
      <4>2. todo'[t][1] = todo[t][1 + 1]
        BY <1>5, <4>1, DeliverTarget
      <4> QED
        BY <4>1, <4>2
    <3> QED
      BY <3>1, <3>2
  <2> QED
    BY <2>1, <2>2, <2>3
<1>6. CASE TakeAnswer \/ Report \/ Timeout
  BY <1>1, <1>6 DEF TakeAnswer, Report, Timeout
<1> QED
  BY <1>2, <1>3, <1>4, <1>5, <1>6, StepShape DEF PluginMove

LEMMA KnownStep == ASSUME TypeInv, Known, [Next]_vars PROVE Known'
<1> USE DEF Known
<1>0. /\ InFlight \cup receipts \subseteq Batches
      /\ checkpoint \in [Targets -> Positions \cup {NoCursor}]
      /\ ackedPos \in [Targets -> Positions \cup {NoCursor}]
      /\ readPos \in [Targets -> Positions \cup {NoCursor}]
      /\ written \in [Targets -> Positions]
  BY InFlightTyped DEF TypeInv, SourceTypes, PluginTypes, DbTypes
<1>1. CASE Carry
  BY <1>1 DEF Carry, pluginVars
<1>2. ASSUME NEW b \in InFlight, Store(b) PROVE Known'
  <2>1. \A t \in Targets : checkpoint'[t] <= written[t]
    BY <1>0, <1>2 DEF Store
  <2> QED
    BY <1>2, <2>1 DEF Store, pluginVars
<1>3. CASE Enqueue /\ InFlight' = InFlight \cup {current} /\ UNCHANGED <<plan, receipts, rows, checkpoint, base, stale>>
  <2>1. current # NoBatch
    BY <1>3, Constants DEF Enqueue, TypeInv, PluginTypes
  <2> QED
    BY <1>3, <2>1 DEF Enqueue
<1>4. ASSUME NEW t \in Targets, Grow(t) PROVE Known'
  <2>1. /\ \A s \in Targets : written[s] \in Int /\ written'[s] \in Int /\ written[s] <= written'[s]
        /\ UNCHANGED pluginVars /\ InFlight' = InFlight /\ UNCHANGED <<receipts, checkpoint>>
    BY <1>0, <1>4, Numbers DEF Grow
  <2>2. \A m \in Int, s \in Targets : m <= written[s] => m <= written'[s]
    BY <2>1
  <2>3. \A s \in Targets : checkpoint[s] \in Int /\ ackedPos[s] \in Int /\ readPos[s] \in Int
    BY Numbers
  <2>4. \A b \in Batches : b.hi \in Int /\ b.target \in Targets
    BY Numbers
  <2>5. current # NoBatch => current \in Batches
    BY DEF TypeInv, PluginTypes
  <2>6. \A s \in Targets : \A i \in DOMAIN todo[s] : todo[s][i] \in Batches
    BY Numbers
  <2>7. /\ \A s \in Targets : checkpoint[s] <= written'[s] /\ ackedPos[s] <= written'[s] /\ readPos[s] <= written'[s]
        /\ \A b \in InFlight \cup receipts : b.hi <= written'[b.target]
        /\ current # NoBatch => current.hi <= written'[current.target]
    BY <1>0, <2>2, <2>3, <2>4, <2>5
  <2>8. \A s \in Targets : \A i \in DOMAIN todo[s] : todo[s][i].hi <= written'[s]
    BY <2>2, <2>4, <2>6
  <2> QED
    BY <2>1, <2>7, <2>8 DEF pluginVars
<1>5. ASSUME PluginMove,
             \A t \in Targets : ackedPos'[t] \in {ackedPos[t], checkpoint[t], NoCursor}
                                /\ readPos'[t] \in {readPos[t], checkpoint[t], NoCursor}
                                /\ todo'[t] \in {todo[t], <<>>},
             current' \in {current, NoBatch}
      PROVE  Known'
  <2>1. \A t \in Targets : NoCursor <= written[t]
    BY Numbers
  <2> QED
    BY <1>5, <2>1 DEF PluginMove
<1>6. CASE PluginMove /\ (PluginStart \/ Die \/ Report \/ Timeout)
  BY <1>5, <1>6 DEF PluginStart, Die, Report, Timeout
<1>7. CASE PluginMove /\ Poll
  <2>1. \A t \in Targets : written[t] <= written[t]
    BY Numbers
  <2>2. \A t \in Targets : readPos'[t] <= written[t] /\ ackedPos'[t] = ackedPos[t]
    BY <1>7, <2>1, PollTarget DEF Poll
  <2>3. ASSUME NEW t \in Targets, NEW i \in DOMAIN todo'[t] PROVE todo'[t][i].hi <= written[t]
    BY <1>0, <1>7, <2>3, PollTarget, ChunksChained DEF TypeInv, SourceTypes
  <2>4. current' = NoBatch
    BY <1>7 DEF Poll, Idle
  <2> QED
    BY <1>7, <2>2, <2>3, <2>4 DEF PluginMove
<1>8. ASSUME NEW t \in Targets, PluginMove, Deliver(t) PROVE Known'
  <2>1. \A s \in Targets : \A i \in DOMAIN todo'[s] : todo'[s][i].hi <= written[s]
    BY <1>8, DeliverTarget
  <2>2. current' # NoBatch => current'.hi <= written[current'.target]
    BY <1>8, DeliverTarget
  <2>3. UNCHANGED <<readPos, ackedPos>>
    BY <1>8, DeliverTarget
  <2> QED
    BY <1>8, <2>1, <2>2, <2>3 DEF PluginMove
<1>9. CASE PluginMove /\ TakeAnswer
  <2>1. current \in Batches /\ current # NoBatch /\ current.target \in Targets
    BY <1>9, Constants DEF TakeAnswer, TypeInv, PluginTypes, Batches
  <2>2. \A t \in Targets : ackedPos'[t] <= written[t]
    BY <1>0, <1>9, <2>1 DEF TakeAnswer
  <2>3. current' \in {current, NoBatch} /\ UNCHANGED <<readPos, todo>>
    BY <1>9 DEF TakeAnswer
  <2> QED
    BY <1>9, <2>2, <2>3 DEF PluginMove
<1> QED
  BY <1>1, <1>2, <1>3, <1>4, <1>6, <1>7, <1>8, <1>9, StepShape DEF PluginMove

\* Where what is neither stored nor on its way begins.
Floor(t) == IF current.target = t THEN current.lo ELSE NextLo(t)

LEMMA FloorTyped ==
  ASSUME TypeInv, NEW t \in Targets
  PROVE  Floor(t) \in Int /\ NextLo(t) \in Int /\ (current.target = t => current \in Batches)
<1>1. current.target = t => current \in Batches
  BY Constants DEF TypeInv, PluginTypes
<1>2. todo[t] # <<>> => 1 \in DOMAIN todo[t]
  <2>1. todo[t] \in Seq(BatchesOf(t))
    BY DEF TypeInv, PluginTypes
  <2>2. todo[t] # <<>> => Len(todo[t]) \in Nat \ {0}
    BY <2>1, EmptySeq
  <2> QED
    BY <2>1, <2>2, LenProperties
<1> QED
  BY <1>1, <1>2, Numbers DEF Floor, NextLo

LEMMA PollFloor ==
  ASSUME TypeInv, Known, Poll, NEW t \in Targets \ failed
  PROVE  /\ readPos[t] = NoCursor => Floor(t)' = written[t] /\ base'[t] = written[t]
         /\ readPos[t] # NoCursor => Floor(t)' = Floor(t) /\ base'[t] = base[t]
<1>1. current.target # t /\ current'.target # t /\ Floor(t) = readPos[t]
  BY PollTarget, Constants DEF Floor, NextLo
<1>2. CASE readPos[t] = NoCursor
  BY <1>1, <1>2, PollTarget DEF Floor, NextLo
<1>3. CASE readPos[t] # NoCursor
  <2>1. /\ todo'[t] = Chunks(t, readPos[t], written[t]) /\ readPos[t] \in Positions
        /\ readPos'[t] = written[t] /\ base'[t] = base[t] /\ written[t] \in Positions /\ plan \in Plans
    BY <1>3, PollTarget DEF TypeInv, SourceTypes
  <2>2. /\ Chunks(t, readPos[t], written[t]) # <<>> => Chunks(t, readPos[t], written[t])[1].lo = readPos[t]
        /\ Chunks(t, readPos[t], written[t]) = <<>> => written[t] <= readPos[t]
    BY <2>1, ChunksChained
  <2>3. readPos[t] <= written[t] /\ readPos[t] \in Int /\ written[t] \in Int
    BY Numbers DEF Known
  <2>4. Floor(t)' = IF todo'[t] = <<>> THEN written[t] ELSE todo'[t][1].lo
    BY <1>1, <2>1 DEF Floor, NextLo
  <2> HIDE DEF Floor
  <2>5. CASE todo'[t] = <<>>
    BY <1>1, <1>3, <2>1, <2>2, <2>3, <2>4, <2>5
  <2>6. CASE todo'[t] # <<>>
    BY <1>1, <1>3, <2>1, <2>2, <2>4, <2>6
  <2> QED
    BY <2>5, <2>6
<1> QED
  BY <1>2, <1>3

LEMMA DeliverFloor ==
  ASSUME TypeInv, NEW t \in Targets, Deliver(t), NEW s \in Targets \ failed
  PROVE  Floor(s)' = Floor(s)
<1>1. CASE s # t
  BY <1>1, DeliverTarget, Constants DEF Floor, NextLo
<1>2. CASE s = t
  <2>1. current.target # t /\ current' = todo[t][1] /\ current'.target = t /\ todo[t] # <<>>
    BY <1>2, DeliverTarget, Constants DEF Deliver
  <2> QED
    BY <1>2, <2>1 DEF Floor, NextLo
<1> QED
  BY <1>1, <1>2

\* What TakeAnswer does to the frontier, when it does anything.
LEMMA TakeAnswerCases ==
  ASSUME TypeInv, AcksStored, Chained, TakeAnswer
  PROVE  /\ current \in Batches /\ current.target \in Targets \ failed
         /\ failed \subseteq failed' /\ UNCHANGED <<base, stale, readPos, todo>>
         /\ \/ UNCHANGED <<ackedPos, current>>
            \/ /\ current \in receipts
               /\ ackedPos' = [ackedPos EXCEPT ![current.target] = current.hi]
               /\ current' = NoBatch /\ failed' = failed
               /\ \A t \in Targets : Floor(t)' = IF t = current.target THEN current.hi ELSE Floor(t)
<1>1. current \in Batches /\ current.target \in Targets \ failed
  BY DEF TakeAnswer, TypeInv, PluginTypes, Batches
<1>2. failed \subseteq failed' /\ UNCHANGED <<base, stale, readPos, todo>>
  BY DEF TakeAnswer, others
<1>3. CASE Head(ackQueue).batch = current /\ Head(ackQueue).status = "ack"
  <2>1. Head(ackQueue) \in Answered
    BY ElementsHeadTail DEF TakeAnswer, TypeInv, QueueTypes, Answered
  <2>2. current \in receipts
    BY <1>3, <2>1 DEF AcksStored
  <2>3. ackedPos' = [ackedPos EXCEPT ![current.target] = current.hi] /\ current' = NoBatch /\ failed' = failed
    BY <1>3 DEF TakeAnswer
  <2>4. ASSUME NEW t \in Targets PROVE Floor(t)' = IF t = current.target THEN current.hi ELSE Floor(t)
    BY <1>2, <2>3, Constants DEF Floor, NextLo, Chained
  <2> QED
    BY <1>1, <1>2, <2>2, <2>3, <2>4
<1>4. CASE ~(Head(ackQueue).batch = current /\ Head(ackQueue).status = "ack")
  <2>1. UNCHANGED <<ackedPos, current>>
    BY <1>4 DEF TakeAnswer
  <2> QED
    BY <1>1, <1>2, <2>1
<1> QED
  BY <1>3, <1>4

-----------------------------------------------------------------------------
(* What is stored *)

\* All records of t up to n, from where collection began.
Backed(t, n) == \A i \in Positions : base[t] < i /\ i <= n => Stored(t, i)

Frontier ==
  /\ \A t \in Targets : Backed(t, checkpoint[t]) /\ Backed(t, ackedPos[t])
  /\ \A b \in InFlight : Backed(b.target, b.lo)
  /\ \A t \in Targets \ failed : Backed(t, Floor(t))

LEMMA BatchExtends ==
  ASSUME TypeInv, NEW b \in Batches, b \in receipts, Backed(b.target, b.lo)
  PROVE  Backed(b.target, b.hi)
<1> SUFFICES ASSUME NEW i \in Positions, base[b.target] < i, i <= b.hi PROVE Stored(b.target, i)
  BY DEF Backed
<1>1. i \in Int /\ b.lo \in Int
  BY Numbers
<1>2. CASE i <= b.lo
  BY <1>2 DEF Backed
<1>3. CASE b.lo < i
  BY <1>3 DEF Stored, Holds
<1> QED
  BY <1>1, <1>2, <1>3

LEMMA FrontierStep ==
  ASSUME TypeInv, AcksStored, Chained, Known, Frontier, [Next]_vars PROVE Frontier'
<1> DEFINE BackedNext(t, n) == \A i \in Positions : base'[t] < i /\ i <= n => Stored(t, i)'
<1>1. receipts \subseteq receipts'
  BY ReceiptsGrow
<1>2. ASSUME NEW t, NEW n, Backed(t, n), base'[t] = base[t] PROVE BackedNext(t, n)
  BY <1>1, <1>2 DEF Backed, Stored
<1>3. ASSUME \A t \in Targets : BackedNext(t, checkpoint'[t]) /\ BackedNext(t, ackedPos'[t]),
             \A b \in InFlight' : BackedNext(b.target, b.lo),
             \A t \in Targets \ failed' : \A n : n = Floor(t)' => BackedNext(t, n)
      PROVE  Frontier'
  BY <1>3 DEF Frontier, Backed
<1> USE DEF Frontier
<1> HIDE DEF BackedNext
<1>4. ASSUME UNCHANGED <<base, checkpoint, ackedPos>>, InFlight' \subseteq InFlight, failed \subseteq failed',
             \A t \in Targets \ failed' : Floor(t)' = Floor(t)
      PROVE  Frontier'
  BY <1>2, <1>3, <1>4
<1>5. CASE Carry
  BY <1>4, <1>5 DEF Carry, pluginVars, Floor, NextLo
<1>6. CASE \E t \in Targets : Grow(t)
  BY <1>4, <1>6 DEF Grow, pluginVars, Floor, NextLo
<1>7. ASSUME NEW b \in InFlight, Store(b) PROVE Frontier'
  <2>1. b \in Batches /\ b.target \in Targets
    BY InFlightTyped, Numbers
  <2>2. UNCHANGED <<base, ackedPos, failed>> /\ \A t \in Targets : Floor(t)' = Floor(t)
    BY <1>7 DEF Store, pluginVars, Floor, NextLo
  <2>3. BackedNext(b.target, b.hi)
    <3> SUFFICES ASSUME NEW i \in Positions, base'[b.target] < i, i <= b.hi PROVE Stored(b.target, i)'
      BY DEF BackedNext
    <3>1. i \in Int /\ b.lo \in Int
      BY <2>1, Numbers
    <3>2. CASE i <= b.lo
      BY <1>1, <2>2, <3>2 DEF Backed, Stored
    <3>3. CASE b.lo < i
      BY <1>7, <3>3 DEF Store, Stored, Holds
    <3> QED
      BY <3>1, <3>2, <3>3
  <2>4. ASSUME NEW t \in Targets PROVE BackedNext(t, checkpoint'[t])
    <3>1. checkpoint'[t] = IF t = b.target THEN b.hi ELSE checkpoint[t]
      BY <1>7, <2>1 DEF Store, TypeInv, DbTypes
    <3> QED
      BY <1>2, <2>2, <2>3, <3>1
  <2>5. InFlight' \subseteq InFlight
    BY <1>7 DEF Store
  <2> QED
    BY <1>2, <1>3, <2>2, <2>4, <2>5
<1>8. CASE Enqueue /\ InFlight' = InFlight \cup {current} /\ UNCHANGED <<plan, receipts, rows, checkpoint, base, stale>>
  <2>1. current \in Batches /\ current.target \in Targets \ failed
    BY <1>8, Numbers DEF Enqueue, TypeInv, PluginTypes
  <2>2. Backed(current.target, current.lo)
    BY <2>1 DEF Floor
  <2>3. UNCHANGED <<ackedPos, failed>> /\ \A t \in Targets : Floor(t)' = Floor(t)
    BY <1>8 DEF Enqueue, Floor, NextLo
  <2> QED
    BY <1>2, <1>3, <1>8, <2>2, <2>3
<1>9. CASE PluginMove /\ (PluginStart \/ Die)
  <2>1. UNCHANGED <<base, checkpoint>> /\ InFlight' = InFlight
    BY <1>9 DEF PluginMove, PluginStart, Die, others
  <2>2. ASSUME NEW t \in Targets
        PROVE  ackedPos'[t] \in {checkpoint[t], NoCursor} /\ Floor(t)' \in {checkpoint[t], NoCursor}
    BY <1>9, Constants DEF PluginStart, Die, Floor, NextLo
  <2>3. ASSUME NEW t \in Targets PROVE Backed(t, NoCursor)
    BY Numbers, Constants DEF Backed
  <2> QED
    BY <1>2, <1>3, <2>1, <2>2, <2>3
<1>10. CASE PluginMove /\ Poll
  <2>1. UNCHANGED <<checkpoint, ackedPos, failed>> /\ InFlight' = InFlight
    BY <1>10 DEF PluginMove, Poll
  <2>2. ASSUME NEW t \in Targets PROVE base'[t] = base[t] \/ base'[t] = written[t]
    BY <1>10, PollTarget
  <2>3. ASSUME NEW t \in Targets, NEW n \in Int, base'[t] = written[t], n <= written[t] PROVE BackedNext(t, n)
    BY <2>3, Numbers DEF BackedNext
  <2>4. ASSUME NEW t \in Targets PROVE BackedNext(t, checkpoint[t]) /\ BackedNext(t, ackedPos[t])
    BY <1>2, <2>2, <2>3, Numbers DEF Known
  <2>5. ASSUME NEW b \in InFlight PROVE BackedNext(b.target, b.lo)
    <3>1. b \in Batches
      BY InFlightTyped
    <3>2. b.target \in Targets /\ b.lo \in Int /\ b.hi \in Int /\ b.lo < b.hi /\ written[b.target] \in Int
      BY <3>1, Numbers
    <3>3. b.lo <= written[b.target]
      BY <3>2 DEF Known
    <3> QED
      BY <1>2, <2>2, <2>3, <3>2, <3>3
  <2>6. ASSUME NEW t \in Targets \ failed PROVE BackedNext(t, Floor(t)')
    <3>1. CASE readPos[t] = NoCursor
      BY <1>10, <2>3, <3>1, PollFloor, Numbers
    <3>2. CASE readPos[t] # NoCursor
      BY <1>2, <1>10, <3>2, PollFloor
    <3> QED
      BY <3>1, <3>2
  <2> QED
    BY <1>3, <2>1, <2>4, <2>5, <2>6
<1>11. ASSUME NEW t \in Targets, PluginMove, Deliver(t) PROVE Frontier'
  BY <1>4, <1>11, DeliverTarget, DeliverFloor DEF PluginMove, Deliver, others
<1>12. CASE PluginMove /\ TakeAnswer
  <2>1. /\ current \in Batches /\ current.target \in Targets \ failed
        /\ failed \subseteq failed' /\ base' = base /\ checkpoint' = checkpoint /\ InFlight' = InFlight
    BY <1>12, TakeAnswerCases DEF PluginMove
  <2>2. CASE UNCHANGED <<ackedPos, current>>
    BY <1>4, <1>12, <2>1, <2>2, TakeAnswerCases DEF Floor, NextLo
  <2>3. CASE /\ current \in receipts /\ ackedPos' = [ackedPos EXCEPT ![current.target] = current.hi]
             /\ failed' = failed
             /\ \A t \in Targets : Floor(t)' = IF t = current.target THEN current.hi ELSE Floor(t)
    <3>1. Backed(current.target, current.hi)
      BY <2>1, <2>3, BatchExtends DEF Floor
    <3>2. ASSUME NEW t \in Targets
          PROVE  ackedPos'[t] = IF t = current.target THEN current.hi ELSE ackedPos[t]
      BY <2>1, <2>3 DEF TypeInv, PluginTypes
    <3>3. ASSUME NEW t \in Targets PROVE Backed(t, ackedPos'[t])
      BY <3>1, <3>2
    <3>4. ASSUME NEW t \in Targets \ failed PROVE Backed(t, Floor(t)')
      BY <2>3, <3>1
    <3> QED
      BY <1>2, <1>3, <2>1, <2>3, <3>3, <3>4
  <2> QED
    BY <1>12, <2>2, <2>3, TakeAnswerCases
<1>13. CASE PluginMove /\ (Report \/ Timeout)
  <2>1. ASSUME NEW t \in Targets \ failed PROVE Floor(t)' = Floor(t)
    BY <1>13, Constants DEF Report, Timeout, TypeInv, PluginTypes, Floor, NextLo
  <2> QED
    BY <1>4, <1>13, <2>1 DEF PluginMove, Report, Timeout, others
<1> QED
  BY <1>5, <1>6, <1>7, <1>8, <1>9, <1>10, <1>11, <1>12, <1>13, StepShape DEF PluginMove

-----------------------------------------------------------------------------
(* At most one batch of a target is to be stored *)

Pending == InFlight \ receipts

CheckpointOfReceipt ==
  \A t \in Targets : checkpoint[t] # NoCursor => \E r \in receipts : r.target = t /\ r.hi = checkpoint[t]

\* What is still to be stored comes after all that is, and there is one such
\* batch of a target, the plugin's; unless a plugin started before one of an
\* earlier plugin was stored or lost.
OneToStore ==
  /\ \A b \in Pending : \A r \in receipts : r.target = b.target => r.hi <= b.lo
  /\ \A b, c \in Pending : b.target = c.target => b = c
ReceiptsBehindCheckpoint == \A r \in receipts : r.hi <= checkpoint[r.target]
OnlyCurrent ==
  plugin # "down" => \A t \in Targets \ failed :
    /\ \A b \in Pending : b.target = t => b = current
    /\ \A r \in receipts : r.target = t => r = current \/ r.hi <= Floor(t)

Order == ~stale => OneToStore /\ ReceiptsBehindCheckpoint /\ OnlyCurrent /\ NoRecordTwice

LEMMA CheckpointOfReceiptStep ==
  ASSUME TypeInv, CheckpointOfReceipt, [Next]_vars PROVE CheckpointOfReceipt'
<1>1. CASE UNCHANGED <<checkpoint, receipts>>
  BY <1>1 DEF CheckpointOfReceipt
<1>2. ASSUME NEW b \in InFlight, Store(b) PROVE CheckpointOfReceipt'
  <2> SUFFICES ASSUME NEW t \in Targets, checkpoint'[t] # NoCursor
               PROVE  \E r \in receipts' : r.target = t /\ r.hi = checkpoint'[t]
    BY DEF CheckpointOfReceipt
  <2>1. checkpoint'[t] = IF t = b.target THEN b.hi ELSE checkpoint[t]
    BY <1>2 DEF Store, TypeInv, DbTypes
  <2> QED
    BY <1>2, <2>1 DEF Store, CheckpointOfReceipt
<1> QED
  BY <1>1, <1>2, StepShape DEF Carry, PluginMove, Grow

LEMMA StoreOrder ==
  ASSUME TypeInv, CheckpointOfReceipt, OneToStore, ReceiptsBehindCheckpoint, NEW b \in InFlight, Store(b)
  PROVE  /\ b \in Batches /\ b \in Pending /\ Pending' \subseteq Pending \ {b}
         /\ checkpoint'[b.target] = b.hi /\ \A t \in Targets : t # b.target => checkpoint'[t] = checkpoint[t]
         /\ \A r \in receipts : r.target = b.target => r.hi <= b.lo
         /\ checkpoint[b.target] <= b.lo \/ checkpoint[b.target] = NoCursor
<1>1. b \in Batches /\ b \in Pending /\ b.target \in Targets
  BY InFlightTyped, Numbers DEF Store, Pending
<1>2. Pending' \subseteq Pending \ {b}
  BY DEF Store, Pending
<1>3. checkpoint'[b.target] = b.hi /\ \A t \in Targets : t # b.target => checkpoint'[t] = checkpoint[t]
  BY <1>1 DEF Store, TypeInv, DbTypes
<1>4. \A r \in receipts : r.target = b.target => r.hi <= b.lo
  BY <1>1 DEF OneToStore
<1>5. checkpoint[b.target] <= b.lo \/ checkpoint[b.target] = NoCursor
  BY <1>1, <1>4 DEF CheckpointOfReceipt
<1> QED
  BY <1>1, <1>2, <1>3, <1>4, <1>5

LEMMA OrderStore ==
  ASSUME TypeInv, CheckpointOfReceipt, Order, ~stale, NEW b \in InFlight, Store(b) PROVE Order'
<1> USE DEF Order
<1>1. /\ b \in Batches /\ b \in Pending /\ Pending' \subseteq Pending \ {b} /\ receipts' = receipts \cup {b}
      /\ checkpoint'[b.target] = b.hi /\ \A t \in Targets : t # b.target => checkpoint'[t] = checkpoint[t]
      /\ \A r \in receipts : r.target = b.target => r.hi <= b.lo
      /\ UNCHANGED <<pluginVars, stale>>
  BY StoreOrder DEF Store
<1>2. \A r \in receipts \cup {b} : /\ r \in Batches /\ r.lo \in Int /\ r.hi \in Int /\ r.lo < r.hi
                                 /\ r.target \in Targets
  BY <1>1, Numbers DEF TypeInv, DbTypes
<1>3. OneToStore'
  BY <1>1 DEF OneToStore
<1>4. ReceiptsBehindCheckpoint'
  <2> SUFFICES ASSUME NEW r \in receipts \cup {b} PROVE r.hi <= checkpoint'[r.target]
    BY <1>1 DEF ReceiptsBehindCheckpoint
  <2>1. CASE r.target = b.target
    BY <1>1, <1>2, <2>1
  <2>2. CASE r.target # b.target
    BY <1>1, <1>2, <2>2 DEF ReceiptsBehindCheckpoint
  <2> QED
    BY <2>1, <2>2
<1>5. OnlyCurrent'
  <2> SUFFICES ASSUME plugin # "down", NEW t \in Targets \ failed
               PROVE  /\ \A c \in Pending' : c.target = t => c = current
                      /\ \A r \in receipts \cup {b} : r.target = t => r = current \/ r.hi <= Floor(t)
    BY <1>1 DEF OnlyCurrent, Floor, NextLo, pluginVars
  <2> QED
    BY <1>1 DEF OnlyCurrent
<1>6. NoRecordTwice'
  BY <1>1, <1>2 DEF NoRecordTwice
<1> QED
  BY <1>3, <1>4, <1>5, <1>6

LEMMA OrderStart == ASSUME TypeInv, Order, PluginMove, PluginStart PROVE Order'
<1> SUFFICES ASSUME ~stale' PROVE OneToStore' /\ ReceiptsBehindCheckpoint' /\ OnlyCurrent' /\ NoRecordTwice'
  BY DEF Order
<1>1. ~stale /\ Pending' = {} /\ UNCHANGED <<receipts, checkpoint>>
  BY DEF PluginMove, PluginStart, Pending
<1>2. \A t \in Targets : Floor(t)' = checkpoint[t]
  BY Constants DEF PluginStart, Floor, NextLo
<1>3. OnlyCurrent'
  BY <1>1, <1>2 DEF Order, OnlyCurrent, ReceiptsBehindCheckpoint
<1> QED
  BY <1>1, <1>3 DEF Order, OneToStore, ReceiptsBehindCheckpoint, NoRecordTwice

\* The steps of the plugin that leave the tables and what is on its way.
LEMMA OrderMove ==
  ASSUME TypeInv, AcksStored, Chained, Known, Order, ~stale, PluginMove, ~PluginStart PROVE Order'
<1> USE DEF Order
<1>1. Pending' = Pending /\ UNCHANGED <<receipts, checkpoint, stale>>
  BY DEF PluginMove, Poll, Die, Deliver, TakeAnswer, Report, Timeout, others, Pending
<1>2. SUFFICES OnlyCurrent'
  BY <1>1 DEF OneToStore, ReceiptsBehindCheckpoint, NoRecordTwice
<1>3. SUFFICES ASSUME plugin' # "down", NEW t \in Targets \ failed'
               PROVE  /\ \A b \in Pending : b.target = t => b = current'
                      /\ \A r \in receipts : r.target = t => r = current' \/ r.hi <= Floor(t)'
  BY <1>1 DEF OnlyCurrent
<1>4. /\ \A r \in receipts : r \in Batches /\ r.lo \in Int /\ r.hi \in Int /\ r.lo < r.hi
                             /\ r.target \in Targets
      /\ Pending \subseteq Batches /\ \A b \in Batches : b.target \in Targets
  BY InFlightTyped, Numbers DEF TypeInv, DbTypes, Pending
<1>5. ASSUME plugin # "down", t \notin failed
      PROVE  /\ \A b \in Pending : b.target = t => b = current
             /\ \A r \in receipts : r.target = t => r = current \/ r.hi <= Floor(t)
  BY <1>5 DEF OnlyCurrent
<1>6. CASE Die
  BY <1>3, <1>6 DEF Die
<1>7. CASE Poll
  <2>1. t \notin failed /\ plugin # "down" /\ current = NoBatch /\ current' = NoBatch
    BY <1>7, PollTarget
  <2>2. CASE readPos[t] = NoCursor
    <3>1. Floor(t)' = written[t]
      BY <1>7, <2>1, <2>2, PollFloor
    <3>2. \A r \in receipts : r.target = t => r.hi <= written[t]
      BY DEF Known
    <3> QED
      BY <1>5, <2>1, <3>1, <3>2
  <2>3. CASE readPos[t] # NoCursor
    BY <1>5, <1>7, <2>1, <2>3, PollFloor
  <2> QED
    BY <2>2, <2>3
<1>8. ASSUME NEW s \in Targets, Deliver(s)
      PROVE  /\ \A b \in Pending : b.target = t => b = current'
             /\ \A r \in receipts : r.target = t => r = current' \/ r.hi <= Floor(t)'
  <2>1. plugin # "down" /\ t \notin failed /\ current = NoBatch /\ Floor(t)' = Floor(t)
    BY <1>8, DeliverFloor, DeliverTarget DEF Deliver
  <2>2. NoBatch \notin receipts /\ NoBatch \notin Pending
    BY <1>4, Constants
  <2> QED
    BY <1>5, <2>1, <2>2
<1>9. CASE TakeAnswer
  <2>1. /\ plugin # "down" /\ t \notin failed /\ current \in Batches
        /\ \/ UNCHANGED <<readPos, todo, current>>
           \/ /\ current \in receipts /\ current' = NoBatch
              /\ Floor(t)' = IF t = current.target THEN current.hi ELSE Floor(t)
    BY <1>9, TakeAnswerCases DEF TakeAnswer
  <2>2. CASE UNCHANGED <<readPos, todo, current>>
    BY <1>5, <2>1, <2>2 DEF Floor, NextLo
  <2>3. CASE /\ current \in receipts /\ current' = NoBatch
             /\ Floor(t)' = IF t = current.target THEN current.hi ELSE Floor(t)
    <3>1. current \notin Pending
      BY <2>3 DEF Pending
    <3>2. CASE t = current.target
      <4>1. Floor(t) = current.lo /\ Floor(t)' = current.hi /\ current.lo < current.hi
            /\ current.lo \in Int /\ current.hi \in Int
        BY <1>4, <2>3, <3>2 DEF Floor
      <4>2. ASSUME NEW r \in receipts, r.target = t PROVE r.hi <= current.hi
        BY <1>4, <1>5, <2>1, <4>1, <4>2
      <4> QED
        BY <1>5, <2>1, <3>1, <4>1, <4>2
    <3>3. CASE t # current.target
      BY <1>5, <2>1, <2>3, <3>3
    <3> QED
      BY <3>2, <3>3
  <2> QED
    BY <2>1, <2>2, <2>3
<1>10. CASE Report
  <2>1. plugin # "down" /\ t \notin failed /\ current.target \in failed /\ current' = NoBatch
        /\ Floor(t)' = Floor(t)
    BY <1>10, Constants DEF Report, TypeInv, PluginTypes, Floor, NextLo
  <2> QED
    BY <1>5, <2>1
<1>11. CASE Timeout
  BY <1>5, <1>11 DEF Timeout, Floor, NextLo
<1> QED
  BY <1>6, <1>7, <1>8, <1>9, <1>10, <1>11 DEF PluginMove

LEMMA OrderEnqueue ==
  ASSUME TypeInv, Order, ~stale, Enqueue, InFlight' = InFlight \cup {current},
         UNCHANGED <<plan, receipts, rows, checkpoint, base, stale>>
  PROVE  Order'
<1> USE DEF Order
<1>1. /\ current \in Batches /\ current.target \in Targets \ failed /\ plugin # "down" /\ plugin' # "down"
      /\ UNCHANGED <<readPos, failed, todo, current>>
  BY Numbers DEF Enqueue, TypeInv, PluginTypes
<1>2. Pending' \subseteq Pending \cup {current} /\ (current \in receipts => Pending' \subseteq Pending)
  BY DEF Pending
<1>3. /\ \A b \in Pending : b.target = current.target => b = current
      /\ \A r \in receipts : r.target = current.target => r = current \/ r.hi <= current.lo
  BY <1>1 DEF OnlyCurrent, Floor
<1>4. OneToStore'
  BY <1>2, <1>3 DEF OneToStore
<1>5. OnlyCurrent'
  BY <1>1, <1>2, Constants DEF OnlyCurrent, Floor, NextLo
<1> QED
  BY <1>4, <1>5 DEF ReceiptsBehindCheckpoint, NoRecordTwice

LEMMA OrderStep ==
  ASSUME TypeInv, AcksStored, Chained, Known, CheckpointOfReceipt, Order, [Next]_vars PROVE Order'
<1>1. CASE Carry \/ \E t \in Targets : Grow(t)
  <2>1. /\ Pending' \subseteq Pending
        /\ UNCHANGED <<pluginVars, receipts, checkpoint, stale>>
    BY <1>1 DEF Carry, Grow, Pending
  <2> QED
    BY <2>1 DEF Order, OneToStore, ReceiptsBehindCheckpoint, OnlyCurrent, NoRecordTwice, Floor, NextLo, pluginVars
<1>2. CASE PluginMove
  <2>1. CASE PluginStart
    BY <1>2, <2>1, OrderStart
  <2>2. CASE ~PluginStart
    <3>1. stale' = stale
      BY <1>2, <2>2 DEF PluginMove, Poll, Die, Deliver, TakeAnswer, Report, Timeout, others
    <3> QED
      BY <1>2, <2>2, <3>1, OrderMove DEF Order
  <2> QED
    BY <2>1, <2>2
<1>3. ASSUME NEW b \in InFlight, Store(b) PROVE Order'
  <2>1. stale' = stale
    BY <1>3 DEF Store
  <2> QED
    BY <1>3, <2>1, OrderStore DEF Order
<1>4. CASE Enqueue /\ InFlight' = InFlight \cup {current} /\ UNCHANGED <<plan, receipts, rows, checkpoint, base, stale>>
  BY <1>4, OrderEnqueue DEF Order
<1> QED
  BY <1>1, <1>2, <1>3, <1>4, StepShape

-----------------------------------------------------------------------------
(* What the plugin and the tables can rely on *)

Inv == OneRequest /\ AcksStored /\ Chained /\ Known /\ Frontier /\ CheckpointOfReceipt /\ Order

LEMMA InitInv == Init => Inv
<1> SUFFICES ASSUME Init PROVE Inv
  OBVIOUS
<1>1. TypeInv
  BY InitTypes
<1>2. InFlight = {}
  BY FramesTyped DEF Init, InFlight, ElementsOf
<1>3. OneRequest
  BY DEF Init, OneRequest, Request, NoAnswer, Answer
<1>4. AcksStored
  BY AnswersTyped DEF Init, AcksStored, Answered, ElementsOf
<1>5. Chained
  BY Constants DEF Init, Chained, NextLo
<1>6. Known
  BY <1>1, <1>2, Numbers DEF Init, Known
<1>7. Frontier
  <2>1. /\ checkpoint = [t \in Targets |-> NoCursor] /\ ackedPos = [t \in Targets |-> NoCursor]
        /\ base = [t \in Targets |-> 0]
        /\ \A t \in Targets : Floor(t) = NoCursor
    BY Constants DEF Init, Floor, NextLo
  <2>2. \A t \in Targets : Backed(t, NoCursor)
    BY <1>1, <2>1, Numbers, Constants DEF Backed
  <2> QED
    BY <1>2, <2>1, <2>2 DEF Frontier
<1>8. CheckpointOfReceipt
  BY DEF Init, CheckpointOfReceipt
<1>9. Order
  BY <1>2 DEF Init, Order, OneToStore, Pending, ReceiptsBehindCheckpoint, OnlyCurrent, NoRecordTwice
<1> QED
  BY <1>3, <1>4, <1>5, <1>6, <1>7, <1>8, <1>9 DEF Inv

LEMMA StepInv == TypeInv /\ Inv /\ [Next]_vars => Inv'
BY OneRequestStep, AcksStoredStep, ChainedStep, KnownStep, FrontierStep, CheckpointOfReceiptStep, OrderStep
   DEF Inv

\* The inductive invariant of delivery (src/agent/plugins/base.py,
\* src/agent/plugins/plugin_process_manager.py, src/indexer/services.py): one
\* request at a time, acks of stored batches, batches that follow one another,
\* and nothing unstored left behind.
THEOREM Invariant == Spec => [](TypeInv /\ Inv)
BY InitInv, StepInv, TypesInvariant, PTL DEF Spec

\* The sender is never handed the answer to another batch than the one it
\* waits for, although answers carry no sequence number and arrive late
\* (src/agent/plugins/plugin_process_manager.py).
THEOREM AnswersMatchAlways == Spec => []AnswersMatch
<1>1. Inv => AnswersMatch
  BY DEF Inv, OneRequest, AnswersMatch
<1> QED
  BY <1>1, Invariant, PTL

\* No gap: whatever the plugin believes acknowledged, and whatever the
\* checkpoint covers, is stored back to where collection began, however the
\* faults fall (src/agent/plugins/base.py, src/indexer/services.py).
THEOREM NoGapAlways == Spec => []NoGap
<1>1. Inv => NoGap
  BY DEF Inv, Frontier, Backed, NoGap
<1> QED
  BY <1>1, Invariant, PTL

\* No record is stored under two batches, unless a plugin was started while a
\* batch of its predecessor was still neither stored nor lost
\* (src/agent/plugins/base.py, src/indexer/services.py).
THEOREM NoRecordTwiceAlways == Spec => []NoRecordTwice
<1>1. Inv => NoRecordTwice
  BY DEF Inv, Order, NoRecordTwice
<1> QED
  BY <1>1, Invariant, PTL

\* The stored checkpoint of a target never moves back, under the same
\* condition (src/indexer/services.py).
THEOREM CheckpointNeverBack == Spec => CheckpointAdvances
<1> DEFINE Advance == ~stale => \A t \in Targets : checkpoint'[t] >= checkpoint[t]
<1>1. TypeInv /\ Inv /\ [Next]_vars => [Advance]_vars
  <2> SUFFICES ASSUME TypeInv, Inv, [Next]_vars, ~stale, NEW t \in Targets
               PROVE  checkpoint'[t] >= checkpoint[t]
    OBVIOUS
  <2>1. checkpoint[t] \in Int /\ NoCursor <= checkpoint[t]
    BY Numbers DEF TypeInv, DbTypes
  <2>2. CASE checkpoint' = checkpoint
    BY <2>1, <2>2
  <2>3. ASSUME NEW b \in InFlight, Store(b) PROVE checkpoint'[t] >= checkpoint[t]
    <3>1. /\ b \in Batches /\ checkpoint'[b.target] = b.hi
          /\ t # b.target => checkpoint'[t] = checkpoint[t]
          /\ checkpoint[b.target] <= b.lo \/ checkpoint[b.target] = NoCursor
      BY <2>3, StoreOrder DEF Inv, Order
    <3>2. b.lo \in Int /\ b.hi \in Int /\ b.lo < b.hi /\ NoCursor <= b.hi
      BY <3>1, Numbers DEF Batches
    <3> QED
      BY <2>1, <3>1, <3>2, Constants
  <2> QED
    BY <2>2, <2>3, StepShape DEF Carry, PluginMove, Grow
<1> QED
  BY <1>1, Invariant, PTL DEF Spec, CheckpointAdvances

\* The tables implement the ledger: a batch is stored with its receipt and
\* its checkpoint in one step, once, and nothing else changes them, whatever
\* the plugin, the sender and the network do (src/indexer/services.py).
THEOREM ImplementsLedger == Spec => LedgerSpec
<1>1. Init => Ledger!Init
  BY DEF Init, Ledger!Init
<1>2. TypeInv /\ [Next]_vars => [Ledger!Next]_(Ledger!ledgerVars)
  <2> SUFFICES ASSUME TypeInv, [Next]_vars, ~UNCHANGED Ledger!ledgerVars PROVE Ledger!Next
    OBVIOUS
  <2> DEFINE table == [b \in Batches |-> IF b \in receipts THEN [cursor |-> b.hi, content |-> b] ELSE NoReceipt]
  <2>1. PICK b \in InFlight : Store(b)
    BY StepShape DEF Carry, PluginMove, Grow, Ledger!ledgerVars
  <2>2. b \in Batches /\ b.hi \in Positions /\ b \notin receipts
    BY <2>1, InFlightTyped DEF Store, Batches
  <2>3. table[b] = NoReceipt
    BY <2>2
  <2>4. table' = [table EXCEPT ![b] = [cursor |-> b.hi, content |-> b]]
    BY <2>1, <2>2 DEF Store
  <2>5. Ledger!Apply(b, b.hi, b)
    BY <2>1, <2>2, <2>3, <2>4 DEF Ledger!Apply, Store
  <2> QED
    BY <2>2, <2>5 DEF Ledger!Next
<1> QED
  BY <1>1, <1>2, TypesInvariant, PTL DEF Spec, LedgerSpec, Ledger!Spec
=============================================================================
