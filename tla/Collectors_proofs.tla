--------------------------- MODULE Collectors_proofs -------------------------
(***************************************************************************)
(* What the agent's collectors promise, for every value of the constants:  *)
(* that the events about sockets replay to the socket table                *)
(* (NetworkSecurity), that the tail plugin queues whole lines, each once   *)
(* (FileTail), that the posture of the host is told as it was collected    *)
(* (HostPosture), and that the cursors of the Keycloak and the Kubernetes  *)
(* plugin leave no entry out and take none twice (Chunking,                *)
(* KeycloakCursor, KubeCursor).                                            *)
(***************************************************************************)
EXTENDS NetworkSecurity, FileTail, HostPosture, KeycloakCursor, KubeCursor,
        FiniteSetTheorems, SequenceTheorems, WellFoundedInduction, TLAPS

\* A set of naturals has a least element.
LEMMA FirstOf ==
  ASSUME NEW T \in SUBSET Nat, T # {}
  PROVE  \E x \in T : \A y \in T : x <= y
<1> DEFINE Less == {ss \in Nat \X Nat : ss[1] < ss[2]}
<1>1. IsWellFoundedOn(Less, Nat)
  BY NatLessThanWellFounded DEF OpToRel
<1> HIDE DEF Less
<1>2. PICK x \in T : \A y \in T : ~ (<<y, x>> \in Less)
  BY <1>1, WFMin, Zenon
<1>3. ASSUME NEW y \in T PROVE x <= y
  <2>1. ~ (<<y, x>> \in Nat \X Nat /\ y < x)
    BY <1>2 DEF Less
  <2> QED
    BY <2>1
<1> QED
  BY <1>3

\* And a largest one, when it is bounded.
LEMMA LastOf ==
  ASSUME NEW n \in Nat, NEW T \in SUBSET (0..n), T # {}
  PROVE  \E x \in T : \A y \in T : y <= x
<1> DEFINE above == {m \in Nat : \A y \in T : y <= m}
<1>1. n \in above /\ above \in SUBSET Nat
  OBVIOUS
<1>2. PICK x \in above : \A y \in above : x <= y
  <2> HIDE DEF above
  <2> QED
    BY <1>1, FirstOf
<1>3. CASE x \in T
  BY <1>2, <1>3
<1>4. CASE x \notin T
  <2>1. \A y \in T : y \in Nat /\ y < x
    <3>1. \A y \in T : y \in Nat /\ y <= x /\ y # x
      BY <1>2, <1>4
    <3> QED
      BY <1>2, <3>1
  <2>2. x - 1 \in Nat /\ \A y \in T : y <= x - 1
    <3>1. x \in Nat
      BY <1>2
    <3>2. \E y \in T : y \in 0..n
      OBVIOUS
    <3> QED
      BY <2>1, <3>1, <3>2
  <2> QED
    BY <1>2, <2>2
<1> QED
  BY <1>3, <1>4

-----------------------------------------------------------------------------
(* NetworkSecurity *)

\* What replaying the events shows, and that the status kept is the one told.
View ==
  /\ DOMAIN snapshot \subseteq DOMAIN netView /\ DOMAIN netView \subseteq DOMAIN snapshot \cup forgotten
  /\ \A k \in DOMAIN snapshot : netView[k] = snapshot[k]
Told == polled = reported /\ (reported # {} => netHealth = reported)
Found ==
  \A s \in listed : \E k \in DOMAIN snapshot :
    k.listener = IsListener(s) /\ snapshot[k].socket.local = s.local /\ snapshot[k].socket.pid = s.pid

\* Replaying the difference of two snapshots turns a view of the one into a
\* view of the other.
LEMMA ReplayShows ==
  ASSUME NEW view, NEW is, NEW was, NEW old,
         DOMAIN was \subseteq DOMAIN view, DOMAIN view \subseteq DOMAIN was \cup old,
         \A k \in DOMAIN was : view[k] = was[k]
  PROVE  /\ DOMAIN is \subseteq DOMAIN Replayed(view, is, was)
         /\ DOMAIN Replayed(view, is, was) \subseteq DOMAIN is \cup old
         /\ \A k \in DOMAIN is : Replayed(view, is, was)[k] = is[k]
<1> DEFINE news == {k \in DOMAIN is : k \in DOMAIN was => is[k] # was[k]}
           closed == DOMAIN was \ DOMAIN is
           left == (DOMAIN view \ closed) \cup news
           after == [k \in left |-> IF k \in news THEN is[k] ELSE view[k]]
<1>1. Replayed(view, is, was) = after
  BY DEF Replayed
<1>2. DOMAIN after = left
  OBVIOUS
<1>3. DOMAIN is \subseteq left /\ left \subseteq DOMAIN is \cup old
  OBVIOUS
<1>4. ASSUME NEW k \in DOMAIN is PROVE after[k] = is[k]
  <2>1. k \in left
    BY <1>3
  <2>2. k \notin news => view[k] = is[k]
    OBVIOUS
  <2> QED
    BY <2>1, <2>2
<1> HIDE DEF after, left
<1> QED
  BY <1>1, <1>2, <1>3, <1>4

\* Every socket that is listed is in the snapshot, under its address and pid.
LEMMA SnapshotFinds ==
  \A s \in Listed : \E k \in DOMAIN Snapshot :
    k.listener = IsListener(s) /\ Snapshot[k].socket.local = s.local /\ Snapshot[k].socket.pid = s.pid
<1> TAKE s \in Listed
<1> DEFINE keys == {Identity(r) : r \in Listed}
           chosen == CHOOSE r \in Listed : Identity(r) = Identity(s)
<1>1. Snapshot = [k \in keys |-> Record(CHOOSE r \in Listed : Identity(r) = k)]
  BY DEF Snapshot
<1>2. Identity(s) \in keys
  OBVIOUS
<1> HIDE DEF keys
<1>3. DOMAIN Snapshot = keys /\ Snapshot[Identity(s)] = Record(chosen)
  BY <1>1, <1>2
<1>4. Identity(chosen) = Identity(s)
  OBVIOUS
<1> HIDE DEF chosen
<1>5. chosen.local = s.local /\ chosen.pid = s.pid
  BY <1>4 DEF Identity
<1>6. Record(chosen).socket = chosen
  BY DEF Record
<1>7. Identity(s).listener = IsListener(s)
  BY DEF Identity
<1> QED
  BY <1>2, <1>3, <1>5, <1>6, <1>7

\* Replaying the events gives what the plugin last saw, through failed polls
\* and restarts, and the latest health; every process that listens or is
\* connected at an address is in it (_snapshot, _emit_changes and _emit_status
\* in src/agent/plugins/network_security_plugin.py).
THEOREM EventsReplay == NetworkSpec => []SocketsShown
<1> DEFINE Inv == View /\ Told /\ Found
<1>1. NetworkInit => Inv
  BY DEF NetworkInit, View, Told, Found, NoSockets
<1>2. ASSUME Inv, [NetworkNext]_networkVars PROVE Inv'
  <2>1. ASSUME UNCHANGED <<snapshot, reported, netView, netHealth, polled, listed, forgotten>> PROVE Inv'
    BY <1>2, <2>1 DEF View, Told, Found, IsListener
  <2>2. CASE SocketsChange \/ UNCHANGED networkVars
    BY <2>1, <2>2 DEF SocketsChange, networkVars
  <2>3. ASSUME NEW health, EmitStatus(health) PROVE Told'
    BY <1>2, <2>3 DEF Told, EmitStatus
  <2>4. CASE CollectSockets
    <3>1. /\ snapshot' = Snapshot /\ netView' = Replayed(netView, Snapshot, snapshot)
          /\ listed' = Listed /\ forgotten' = forgotten /\ EmitStatus(Health)
      BY <2>4 DEF CollectSockets
    <3>2. View'
      BY <1>2, <3>1, ReplayShows DEF View
    <3>3. Found'
      BY <3>1, SnapshotFinds DEF Found, IsListener
    <3> QED
      BY <2>3, <3>1, <3>2, <3>3
  <2>5. CASE SocketsFail
    <3>1. UNCHANGED <<snapshot, netView, listed, forgotten>> /\ EmitStatus(Failed)
      BY <2>5 DEF SocketsFail
    <3> QED
      BY <1>2, <2>3, <3>1 DEF View, Found, IsListener
  <2>6. CASE RestartNetwork
    BY <1>2, <2>6 DEF RestartNetwork, View, Told, Found, NoSockets
  <2> QED
    BY <1>2, <2>2, <2>4, <2>5, <2>6 DEF NetworkNext
<1>3. Inv => SocketsShown
  BY DEF View, Told, Found, SocketsShown, IsListener
<1> QED
  BY <1>1, <1>2, <1>3, PTL DEF NetworkSpec

-----------------------------------------------------------------------------
(* FileTail *)

Pieces == {"part", "end"}
InHand == reading \in {"opened", "waiting"}
Current == {l \in lines : l[1] = rotation}

\* The file object stands within the file, behind the last whole line it has
\* read; while it waits, what it has read of the next one has no end.
TailTypes ==
  /\ file \in Seq(Pieces) /\ {rotation, noticed, at, full, from} \subseteq Nat /\ noticed <= rotation
  /\ offset \in Nat \cup {Unknown} /\ reading \in {"no", "opened", "waiting", "starting"}
  /\ lines \subseteq Nat \X Nat \X Nat /\ \A l \in lines : l[1] <= rotation
  /\ offset = Unknown => lines = {} /\ reading = "no"
Standing ==
  /\ InHand => full <= at /\ at <= Len(file)
  /\ reading = "opened" => at = full
  /\ reading = "waiting" => /\ \A k \in full + 1..at : file[k] # "end"
                            /\ Len(file) > at => <<rotation, at>> \in torn

\* A rotation the plugin has not noticed hides behind a position within the file.
Unnoticed ==
  noticed # rotation =>
    /\ InHand => offset <= Len(file)
    /\ Current # {} => offset \in Nat /\ offset <= Len(file) /\ reading # "starting"

\* How far the lines have been queued.
Reached == IF InHand THEN full ELSE offset

\* Up to there each line of the rotation is queued once, and none behind it.
Queued ==
  noticed = rotation =>
    /\ reading # "starting"
    /\ reading = "no" /\ offset # Unknown => offset <= Len(file)
    /\ offset # Unknown => from <= Reached /\ Begins(Reached)
    /\ \A l \in Current : l[3] <= Reached /\ (Begins(l[2]) \/ <<rotation, l[2]>> \in torn)
    /\ \A k \in from + 1..Reached : file[k] = "end" => \E l \in Current : {m \in Current : m[3] = k} = {l}

TailInv == TailTypes /\ Standing /\ Unnoticed /\ Queued

\* What readline finds: the first end of a line, or else the end of the file.
LEMMA LineEndFound ==
  ASSUME file \in Seq(Pieces), at \in Nat, at <= Len(file)
  PROVE  /\ LineEnd \in Nat /\ at <= LineEnd /\ LineEnd <= Len(file)
         /\ \A k \in Nat : (at < k /\ k < LineEnd) => file[k] # "end"
         /\ ~ Whole => LineEnd = Len(file) /\ \A k \in at + 1..Len(file) : file[k] # "end"
<1> DEFINE ends == {k \in at + 1..Len(file) : file[k] = "end"}
           first == CHOOSE k \in ends : \A m \in ends : k <= m
<1>1. Len(file) \in Nat
  BY LenProperties
<1>2. LineEnd = IF ends = {} THEN Len(file) ELSE first
  BY DEF LineEnd
<1>3. \A k \in ends : k \in Nat /\ at < k /\ k <= Len(file) /\ file[k] = "end"
  BY <1>1
<1>4. \A k \in Nat : (at < k /\ k <= Len(file) /\ file[k] = "end") => k \in ends
  BY <1>1
<1>5. ends # {} => first \in ends /\ \A m \in ends : first <= m
  <2> HIDE DEF ends
  <2> SUFFICES ASSUME ends # {} PROVE \E x \in ends : \A y \in ends : x <= y
    OBVIOUS
  <2> QED
    BY <1>3, FirstOf
<1> HIDE DEF ends, first
<1>6. CASE ends = {}
  <2>1. LineEnd = Len(file) /\ \A k \in at + 1..Len(file) : file[k] # "end"
    BY <1>1, <1>2, <1>4, <1>6
  <2>2. \A k \in Nat : (at < k /\ k < Len(file)) => file[k] # "end"
    BY <1>1, <1>4, <1>6
  <2> QED
    BY <1>1, <2>1, <2>2
<1>7. CASE ends # {}
  <2>1. LineEnd = first /\ first \in ends /\ \A m \in ends : first <= m
    BY <1>2, <1>5, <1>7
  <2>2. Whole
    BY <1>3, <2>1 DEF Whole
  <2>3. first \in Nat /\ at < first /\ first <= Len(file)
    BY <1>3, <2>1
  <2>4. \A k \in Nat : (at < k /\ k < first) => file[k] # "end"
    BY <1>1, <1>4, <2>1, <2>3
  <2> QED
    BY <2>1, <2>2, <2>3, <2>4
<1> QED
  BY <1>6, <1>7

\* A piece is written behind what the plugin has read.
LEMMA WriteKeeps == ASSUME TailInv, Write PROVE TailInv'
<1>1. PICK piece \in Pieces : file' = Append(file, piece)
  BY DEF Write, Pieces
<1>2. /\ torn' = IF reading = "waiting" THEN torn \cup {<<rotation, at>>} ELSE torn
      /\ UNCHANGED <<rotation, offset, reading, at, full, lines, from, noticed>>
  BY DEF Write
<1>3. file \in Seq(Pieces) /\ Len(file) \in Nat /\ DOMAIN file = 1..Len(file)
  BY LenProperties DEF TailInv, TailTypes
<1>4. /\ file' \in Seq(Pieces) /\ Len(file') = Len(file) + 1 /\ DOMAIN file' = 1..Len(file) + 1
      /\ \A k \in 1..Len(file) : file'[k] = file[k]
  BY <1>1, <1>3, AppendProperties
<1>5. TailTypes'
  BY <1>2, <1>4 DEF TailInv, TailTypes
<1>6. Standing'
  <2>1. InHand' = InHand /\ torn \subseteq torn'
    BY <1>2 DEF InHand
  <2>2. InHand => full <= at /\ at <= Len(file) /\ at <= Len(file')
    BY <1>3, <1>4 DEF TailInv, TailTypes, Standing
  <2>3. ASSUME reading = "waiting", NEW k \in full + 1..at PROVE file'[k] # "end"
    <3>1. k \in 1..Len(file) /\ file[k] # "end"
      BY <1>3, <2>2, <2>3 DEF TailInv, TailTypes, Standing, InHand
    <3> QED
      BY <1>4, <3>1
  <2>4. reading = "waiting" => <<rotation, at>> \in torn'
    BY <1>2
  <2> QED
    BY <1>2, <2>1, <2>2, <2>3, <2>4 DEF TailInv, Standing, InHand
<1>7. Unnoticed'
  BY <1>2, <1>3, <1>4 DEF TailInv, TailTypes, Unnoticed, InHand, Current
<1>8. Queued'
  <2> SUFFICES ASSUME noticed = rotation PROVE Queued'
    BY <1>2 DEF Queued
  <2>1. Reached' = Reached /\ Current' = Current /\ InHand' = InHand /\ torn \subseteq torn'
    BY <1>2 DEF Reached, Current, InHand
  <2>2. \A k : Begins(k) => (k = from' \/ (k \in DOMAIN file' /\ file'[k] = "end"))
    BY <1>2, <1>3, <1>4 DEF Begins
  <2>3. offset # Unknown => Reached \in Nat /\ Reached <= Len(file)
    BY <1>3 DEF TailInv, TailTypes, Standing, Queued, Reached, InHand
  <2>4. ASSUME NEW k \in from + 1..Reached, file'[k] = "end"
        PROVE  \E l \in Current : {m \in Current : m[3] = k} = {l}
    <3>1. offset # Unknown
      BY <2>4 DEF TailInv, TailTypes, Reached, InHand, Unknown
    <3>2. k \in 1..Len(file)
      BY <1>3, <2>3, <3>1 DEF TailInv, TailTypes
    <3> QED
      BY <1>4, <2>4, <3>2 DEF TailInv, Queued
  <2>5. offset # Unknown => from <= Reached /\ Begins(Reached)
    BY DEF TailInv, Queued
  <2>6. reading = "no" /\ offset # Unknown => offset <= Len(file')
    BY <2>3, <1>3, <1>4 DEF Reached, InHand
  <2>7. reading # "starting" /\ \A l \in Current : l[3] <= Reached /\ (Begins(l[2]) \/ <<rotation, l[2]>> \in torn)
    BY DEF TailInv, Queued
  <2> QED
    BY <1>2, <2>1, <2>2, <2>4, <2>5, <2>6, <2>7 DEF Queued, Begins
<1> QED
  BY <1>5, <1>6, <1>7, <1>8 DEF TailInv

\* The file is rotated: what was not read yet is gone, and unnoticed.
LEMMA RotateKeeps == ASSUME TailInv, Rotate PROVE TailInv'
<1>1. /\ reading \in {"no", "starting"} /\ file' = <<>> /\ rotation' = rotation + 1
      /\ UNCHANGED <<offset, reading, at, full, lines, torn, from, noticed>>
  BY DEF Rotate
<1>2. rotation' \in Nat /\ noticed' < rotation'
  BY <1>1 DEF TailInv, TailTypes
<1>3. \A l \in lines : l[1] < rotation'
  BY <1>1 DEF TailInv, TailTypes
<1>4. TailTypes'
  <2>1. <<>> \in Seq(Pieces)
    BY EmptySeq
  <2> QED
    BY <1>1, <1>2, <1>3, <2>1 DEF TailInv, TailTypes
<1>5. Current' = {}
  BY <1>1, <1>2, <1>3 DEF Current, TailInv, TailTypes
<1>6. Standing' /\ Unnoticed'
  BY <1>1, <1>5 DEF Standing, InHand, Unnoticed
<1>7. Queued'
  BY <1>1, <1>2 DEF Queued, TailInv, TailTypes
<1> QED
  BY <1>4, <1>6, <1>7 DEF TailInv

\* The plugin finds a file, empty or not.
LEMMA FindKeeps == ASSUME TailInv, FindEmpty \/ FindFile PROVE TailInv'
<1>1. UNCHANGED <<file, rotation, at, full, lines, torn>> /\ Current' = Current /\ file \in Seq(Pieces)
  BY DEF FindEmpty, FindFile, Current, TailInv, TailTypes
<1>2. Len(file) \in Nat /\ (file = <<>> => Len(file) = 0)
  BY <1>1, EmptySeq, LenProperties
<1>3. CASE FindEmpty
  <2>1. /\ offset > 0 /\ reading = "no" /\ file = <<>> /\ reading' = "starting"
        /\ UNCHANGED <<offset, from, noticed>>
    BY <1>3 DEF FindEmpty
  <2>2. offset # Unknown /\ offset \in Nat
    BY <2>1 DEF TailInv, TailTypes, Unknown
  <2>3. noticed # rotation
    BY <1>2, <2>1, <2>2 DEF TailInv, Queued
  <2>4. Current = {}
    BY <1>2, <2>1, <2>2, <2>3 DEF TailInv, Unnoticed
  <2>5. TailTypes' /\ Standing'
    BY <1>1, <2>1, <2>2 DEF TailInv, TailTypes, Standing, InHand
  <2>6. Unnoticed' /\ Queued'
    BY <1>1, <2>1, <2>3, <2>4 DEF Unnoticed, InHand, Queued
  <2> QED
    BY <2>5, <2>6 DEF TailInv
<1>4. CASE FindFile
  <2>1. /\ offset = Unknown \/ reading = "starting"
        /\ offset' = IF SeekFromEnd THEN Len(file) ELSE 0
        /\ from' = offset' /\ noticed' = rotation /\ reading' = "no"
    BY <1>4 DEF FindFile
  <2>2. offset' \in Nat /\ offset' <= Len(file)
    BY <1>2, <2>1
  <2>3. Current = {}
    <3>1. CASE offset = Unknown
      BY <3>1 DEF TailInv, TailTypes, Current
    <3>2. CASE reading = "starting"
      BY <3>2 DEF TailInv, Unnoticed, Queued
    <3> QED
      BY <2>1, <3>1, <3>2
  <2>4. TailTypes' /\ Standing'
    BY <1>1, <2>1, <2>2 DEF TailInv, TailTypes, Standing, InHand, Unknown
  <2>5. Unnoticed'
    BY <1>1, <2>1 DEF Unnoticed
  <2>6. Reached' = offset' /\ Begins(Reached)'
    BY <2>1 DEF Reached, InHand, Begins
  <2>7. Queued'
    BY <1>1, <2>1, <2>2, <2>3, <2>6 DEF Queued
  <2> QED
    BY <2>4, <2>5, <2>7 DEF TailInv
<1> QED
  BY <1>3, <1>4

\* The file is opened, at the position or, when it got shorter, at its start.
LEMMA OpenKeeps == ASSUME TailInv, OpenFile PROVE TailInv'
<1> DEFINE rotated == offset > Len(file)
<1>1. /\ offset # Unknown /\ reading = "no" /\ Len(file) # offset /\ reading' = "opened"
      /\ at' = IF rotated THEN 0 ELSE offset
      /\ full' = at'
      /\ from' = IF rotated THEN 0 ELSE from
      /\ noticed' = IF rotated THEN rotation ELSE noticed
      /\ UNCHANGED <<file, rotation, offset, lines, torn>>
  BY DEF OpenFile
<1>2. offset \in Nat /\ Len(file) \in Nat /\ Current' = Current
  BY <1>1, LenProperties DEF TailInv, TailTypes, Current
<1>3. TailTypes'
  BY <1>1, <1>2 DEF TailInv, TailTypes
<1>4. Standing'
  BY <1>1, <1>2 DEF Standing, InHand
<1>5. CASE rotated
  <2>1. at' = 0 /\ full' = 0 /\ from' = 0 /\ noticed' = rotation
    BY <1>1, <1>5
  <2>2. Current = {}
    BY <1>1, <1>2, <1>5 DEF TailInv, Unnoticed, Queued
  <2>3. Reached' = 0 /\ Begins(Reached)'
    BY <1>1, <2>1 DEF Reached, InHand, Begins
  <2>4. Unnoticed'
    BY <1>1, <2>1 DEF Unnoticed
  <2>5. Queued'
    BY <1>1, <1>2, <2>1, <2>2, <2>3 DEF Queued
  <2> QED
    BY <1>3, <1>4, <2>4, <2>5 DEF TailInv
<1>6. CASE ~ rotated
  <2>1. at' = offset /\ full' = offset /\ from' = from /\ noticed' = noticed /\ offset <= Len(file)
    BY <1>1, <1>2, <1>6
  <2>2. Reached' = Reached
    BY <1>1, <2>1 DEF Reached, InHand
  <2>3. Unnoticed'
    BY <1>1, <1>2, <2>1 DEF Unnoticed
  <2>4. Queued'
    BY <1>1, <1>2, <2>1, <2>2 DEF TailInv, Queued, Begins
  <2> QED
    BY <1>3, <1>4, <2>3, <2>4 DEF TailInv
<1> QED
  BY <1>5, <1>6

\* A whole line is queued.
LEMMA ReadKeeps == ASSUME TailInv, ReadLine PROVE TailInv'
<1> DEFINE e == LineEnd
           line == <<rotation, at, e>>
<1>1. /\ InHand /\ Whole /\ lines' = lines \cup {line} /\ at' = e /\ full' = e /\ reading' = "opened"
      /\ UNCHANGED <<file, rotation, offset, torn, from, noticed>>
  BY DEF ReadLine, InHand
<1>2. /\ rotation \in Nat /\ at \in Nat /\ full \in Nat /\ from \in Nat /\ file \in Seq(Pieces)
      /\ full <= at /\ at <= Len(file) /\ Len(file) \in Nat /\ DOMAIN file = 1..Len(file)
      /\ offset \in Nat
  BY <1>1, LenProperties DEF TailInv, TailTypes, Standing, InHand
<1>3. /\ e \in Nat /\ at < e /\ e <= Len(file) /\ file[e] = "end"
      /\ \A k \in Nat : (at < k /\ k < e) => file[k] # "end"
  BY <1>1, <1>2, LineEndFound DEF Whole
<1> HIDE DEF e
<1>4. line \in Nat \X Nat \X Nat /\ line[1] = rotation /\ line[2] = at /\ line[3] = e
  BY <1>2, <1>3
<1> HIDE DEF line
<1>5. TailTypes'
  BY <1>1, <1>2, <1>3, <1>4 DEF TailInv, TailTypes, Unknown
<1>6. Standing'
  BY <1>1, <1>2, <1>3 DEF Standing, InHand
<1>7. InHand' /\ Current' = Current \cup {line}
  BY <1>1, <1>4 DEF InHand, Current
<1>8. Unnoticed'
  BY <1>1, <1>2, <1>7 DEF TailInv, Unnoticed, InHand
<1>9. Queued'
  <2> SUFFICES ASSUME noticed = rotation PROVE Queued'
    BY <1>1 DEF Queued
  <2>1. Reached = full /\ Reached' = e
    BY <1>1, <1>7 DEF Reached
  <2>2. /\ from <= full /\ Begins(full)
        /\ \A l \in Current : l[3] <= full /\ (Begins(l[2]) \/ <<rotation, l[2]>> \in torn)
        /\ \A k \in from + 1..full : file[k] = "end" => \E l \in Current : {m \in Current : m[3] = k} = {l}
    BY <1>2, <2>1 DEF TailInv, Queued, Unknown
  <2>3. \A k \in Nat : (full < k /\ k < e) => file[k] # "end"
    <3> SUFFICES ASSUME NEW k \in Nat, full < k, k < e, ~ (at < k) PROVE file[k] # "end"
      BY <1>3
    <3>1. CASE reading = "opened"
      BY <1>2, <3>1 DEF TailInv, Standing
    <3>2. CASE reading = "waiting"
      <4>1. k \in full + 1..at
        BY <1>2
      <4> QED
        BY <3>2, <4>1 DEF TailInv, Standing
    <3> QED
      BY <1>1, <3>1, <3>2 DEF InHand
  <2>4. Begins(at) \/ <<rotation, at>> \in torn
    <3>1. CASE reading = "opened"
      BY <2>2, <3>1 DEF TailInv, Standing
    <3>2. CASE reading = "waiting"
      <4>1. Len(file) > at
        BY <1>2, <1>3
      <4> QED
        BY <3>2, <4>1 DEF TailInv, Standing
    <3> QED
      BY <1>1, <3>1, <3>2 DEF InHand
  <2>5. \A k : Begins(k)' = (k = from \/ (k \in DOMAIN file /\ file[k] = "end"))
    BY <1>1 DEF Begins
  <2>6. \A k : Begins(k) => (k = from \/ (k \in DOMAIN file /\ file[k] = "end"))
    BY DEF Begins
  <2>7. \A l \in Current : l[3] \in Nat
    BY DEF Current, TailInv, TailTypes
  <2>8. ASSUME NEW k \in from + 1..e, file[k] = "end"
        PROVE  \E l \in Current' : {m \in Current' : m[3] = k} = {l}
    <3>1. k \in Nat /\ from < k /\ k <= e
      BY <1>2, <1>3, <2>8
    <3>2. CASE k <= full
      <4>1. PICK l \in Current : {m \in Current : m[3] = k} = {l}
        BY <1>2, <2>2, <2>8, <3>1, <3>2
      <4>2. line[3] # k
        BY <1>2, <1>3, <1>4, <3>1, <3>2
      <4> QED
        BY <1>7, <4>1, <4>2
    <3>3. CASE k > full
      <4>1. k = e
        BY <1>3, <2>3, <2>8, <3>1, <3>3
      <4>2. \A m \in Current : m[3] # e
        <5>1. full < e
          BY <1>2, <1>3
        <5>2. \A m \in Current : m[3] <= full
          BY <2>2
        <5> QED
          BY <1>2, <1>3, <2>7, <5>1, <5>2
      <4>3. line[3] = k /\ line \in Current'
        BY <1>4, <1>7, <4>1
      <4>4. {m \in Current' : m[3] = k} = {line}
        BY <1>7, <4>1, <4>2, <4>3
      <4> QED
        BY <4>3, <4>4
    <3> QED
      BY <1>2, <3>1, <3>2, <3>3
  <2>9. \A l \in Current' : l[3] <= e /\ (Begins(l[2]) \/ <<rotation, l[2]>> \in torn)
    BY SMTT(60), <1>2, <1>3, <1>4, <1>7, <2>2, <2>4, <2>7
  <2>10. from <= e /\ e \in DOMAIN file
    BY <1>2, <1>3, <2>2
  <2> QED
    BY <1>1, <1>3, <1>7, <2>1, <2>8, <2>9, <2>10 DEF Queued, Begins
<1> QED
  BY <1>5, <1>6, <1>8, <1>9 DEF TailInv

\* An incomplete line is read, and the position stays before it.
LEMMA WaitKeeps == ASSUME TailInv, WaitForEnd PROVE TailInv'
<1>1. /\ InHand /\ LineEnd > at /\ ~ Whole /\ at' = LineEnd /\ reading' = "waiting"
      /\ UNCHANGED <<file, rotation, offset, full, lines, torn, from, noticed>>
  BY DEF WaitForEnd, InHand
<1>2. /\ at \in Nat /\ full \in Nat /\ file \in Seq(Pieces) /\ full <= at /\ at <= Len(file) /\ Len(file) \in Nat
  BY <1>1, LenProperties DEF TailInv, TailTypes, Standing
<1>3. LineEnd = Len(file) /\ \A k \in at + 1..Len(file) : file[k] # "end"
  BY <1>1, <1>2, LineEndFound
<1>4. TailTypes'
  BY <1>1, <1>2, <1>3 DEF TailInv, TailTypes, InHand
<1>5. ASSUME NEW k \in full + 1..Len(file) PROVE file[k] # "end"
  <2>1. CASE k > at
    BY <1>2, <1>3, <2>1
  <2>2. CASE k <= at
    <3>1. reading = "waiting"
      BY <1>1, <1>2, <2>2 DEF TailInv, Standing, InHand
    <3> QED
      BY <1>2, <2>2, <3>1 DEF TailInv, Standing
  <2> QED
    BY <1>2, <2>1, <2>2
<1>6. Standing'
  BY <1>1, <1>2, <1>3, <1>5 DEF Standing, InHand
<1>7. InHand' /\ Current' = Current /\ Reached' = Reached
  BY <1>1 DEF InHand, Current, Reached
<1>8. Unnoticed'
  BY <1>1, <1>7 DEF TailInv, Unnoticed
<1>9. Queued'
  BY <1>1, <1>7 DEF TailInv, Queued, Begins
<1> QED
  BY <1>4, <1>6, <1>8, <1>9 DEF TailInv

\* The file is closed: the next look starts behind the last whole line.
LEMMA CloseKeeps == ASSUME TailInv, CloseFile PROVE TailInv'
<1>1. /\ InHand /\ offset' = full /\ reading' = "no"
      /\ UNCHANGED <<file, rotation, at, full, lines, torn, from, noticed>>
  BY DEF CloseFile, InHand
<1>2. full \in Nat /\ full <= Len(file)
  BY <1>1, LenProperties DEF TailInv, TailTypes, Standing
<1>3. TailTypes' /\ Standing'
  BY <1>1, <1>2 DEF TailInv, TailTypes, Standing, InHand, Unknown
<1>4. Current' = Current /\ Reached' = Reached /\ ~ InHand'
  BY <1>1 DEF InHand, Current, Reached
<1>5. Unnoticed'
  BY <1>1, <1>2, <1>4 DEF Unnoticed
<1>6. offset # Unknown
  BY <1>1 DEF TailInv, TailTypes, InHand
<1>7. Queued'
  BY <1>1, <1>2, <1>4, <1>6 DEF TailInv, Queued, Begins
<1> QED
  BY <1>3, <1>5, <1>7 DEF TailInv

\* What makes the lines whole: where the file object and the position stand.
THEOREM TailInvariant == TailSpec => []TailInv
<1>1. TailInit => TailInv
  <2> SUFFICES ASSUME TailInit PROVE TailInv
    OBVIOUS
  <2>1. file \in Seq(Pieces)
    BY EmptySeq DEF TailInit
  <2>2. TailTypes /\ Standing /\ Unnoticed
    BY <2>1 DEF TailInit, TailTypes, Standing, InHand, Unnoticed
  <2>3. Reached = Unknown /\ Current = {}
    BY DEF TailInit, Reached, InHand, Current
  <2>4. from + 1..Unknown = {}
    BY DEF TailInit, Unknown
  <2>5. Queued
    BY <2>3, <2>4 DEF TailInit, Queued
  <2> QED
    BY <2>2, <2>5 DEF TailInv
<1>2. ASSUME TailInv, [TailNext]_tailVars PROVE TailInv'
  <2>1. CASE UNCHANGED tailVars
    <3>1. TailTypes' /\ Standing'
      BY <1>2, <2>1 DEF tailVars, TailInv, TailTypes, Standing, InHand
    <3>2. Unnoticed'
      BY <1>2, <2>1 DEF tailVars, TailInv, Unnoticed, InHand, Current
    <3>3. Queued'
      BY <1>2, <2>1 DEF tailVars, TailInv, Queued, Begins, Reached, Current, InHand
    <3> QED
      BY <3>1, <3>2, <3>3 DEF TailInv
  <2> QED
    BY <1>2, <2>1, WriteKeeps, RotateKeeps, FindKeeps, OpenKeeps, ReadKeeps, WaitKeeps, CloseKeeps
       DEF TailNext
<1> QED
  BY <1>1, <1>2, PTL DEF TailSpec

\* Every line behind which the plugin has come is queued once and whole, even if
\* it was incomplete when first read, unless its rest came during the very wait
\* for it or a rotation went unnoticed (src/agent/plugins/tail_plugin.py).
THEOREM LinesOnceAndWhole == TailSpec => []LinesWhole
<1>1. ASSUME TailInv PROVE LinesWhole
  <2> SUFFICES ASSUME rotation = noticed PROVE LinesWhole
    BY DEF LinesWhole
  <2>1. Queued
    BY <1>1 DEF TailInv
  <2>2. \A l \in lines : l[1] = rotation => (Begins(l[2]) \/ <<rotation, l[2]>> \in torn)
    BY <2>1 DEF Queued, Current
  <2>3. ASSUME NEW k \in from + 1..offset, reading = "no", file[k] = "end"
        PROVE  Cardinality({l \in lines : l[1] = rotation /\ l[3] = k}) = 1
    <3>1. Reached = offset
      BY <2>3 DEF Reached, InHand
    <3>2. PICK l \in Current : {m \in Current : m[3] = k} = {l}
      BY <2>1, <2>3, <3>1 DEF Queued
    <3>3. {m \in lines : m[1] = rotation /\ m[3] = k} = {m \in Current : m[3] = k}
      BY DEF Current
    <3> QED
      BY <3>2, <3>3, FS_Singleton
  <2> QED
    BY <2>2, <2>3 DEF LinesWhole
<1> QED
  BY <1>1, TailInvariant, PTL

-----------------------------------------------------------------------------
(* HostPosture *)

\* The ways in which a set of sessions may be listed.
ListingsOf(S) == {q \in [1..Cardinality(S) -> S] : ToSet(q) = S}
KeysDiffer(S) == \A d, e \in S : d # e => d.key # e.key

\* A set that is listed in as many places as it has members is listed without
\* repetition.
LEMMA ListedOnce ==
  ASSUME NEW S, IsFiniteSet(S), NEW q \in ListingsOf(S),
         NEW k \in DOMAIN q, NEW l \in DOMAIN q, q[k] = q[l]
  PROVE  k = l
<1> DEFINE n == Cardinality(S)
<1>1. n \in Nat /\ q \in [1..n -> S] /\ ToSet(q) = S
  BY FS_CardinalityType DEF ListingsOf
<1> HIDE DEF n
<1>2. \A x \in S : \E i \in 1..n : q[i] = x
  BY <1>1 DEF ToSet
<1>3. q \in Surjection(1..n, S)
  BY <1>1, <1>2 DEF Surjection
<1>4. IsFiniteSet(1..n) /\ Cardinality(1..n) = n
  BY <1>1, FS_Interval
<1>5. q \in Injection(1..n, S)
  BY <1>3, <1>4, FS_SurjSameCardinalityImpliesInj DEF n
<1> QED
  BY <1>1, <1>5 DEF Injection, IsInjective

\* Sessions that differ in what they are sorted by have one order, however they
\* are listed.
LEMMA OneOrder ==
  ASSUME NEW S, IsFiniteSet(S), KeysDiffer(S), NEW q \in ListingsOf(S), NEW r \in ListingsOf(S)
  PROVE  Sorted(q) = Sorted(r)
<1>1. ASSUME NEW x \in ListingsOf(S), NEW y \in ListingsOf(S), NEW s \in Orders(x) PROVE s \in Orders(y)
  <2> DEFINE N == 1..Cardinality(S)
  <2>1. DOMAIN x = N /\ DOMAIN y = N /\ ToSet(x) = S /\ ToSet(y) = S
    BY DEF ListingsOf
  <2>2. /\ s \in [N -> S] /\ ToSet(s) = S
        /\ \A i, j \in N : i < j =>
             \/ s[i].key < s[j].key
             \/ s[i].key = s[j].key /\ \E k, l \in N : k < l /\ x[k] = s[i] /\ x[l] = s[j]
    BY <2>1 DEF Orders
  <2>3. ASSUME NEW i \in N, NEW j \in N, s[i].key = s[j].key
        PROVE  ~ \E k, l \in N : k < l /\ x[k] = s[i] /\ x[l] = s[j]
    <3> SUFFICES ASSUME NEW k \in N, NEW l \in N, k < l, x[k] = s[i], x[l] = s[j] PROVE FALSE
      OBVIOUS
    <3>1. s[i] \in S /\ s[j] \in S
      BY <2>2
    <3>2. x[k] = x[l]
      BY <2>3, <3>1 DEF KeysDiffer
    <3>3. k = l
      BY <2>1, <3>2, ListedOnce
    <3>4. Cardinality(S) \in Nat
      BY FS_CardinalityType
    <3> QED
      BY <3>3, <3>4
  <2>4. \A i, j \in N : i < j => s[i].key < s[j].key
    BY <2>2, <2>3
  <2> QED
    BY <2>1, <2>2, <2>4 DEF Orders
<1>2. Orders(q) = Orders(r)
  <2>1. \A s \in Orders(q) : s \in Orders(r)
    BY <1>1
  <2>2. \A s \in Orders(r) : s \in Orders(q)
    BY <1>1
  <2> QED
    BY <2>1, <2>2
<1> QED
  BY <1>2 DEF Sorted

\* What has been told, and of which sessions the list was made.
ToldOfLast ==
  /\ DOMAIN last = Components
  /\ \A c \in Components : last[c] # Unsaid => told[c] = last[c]
  /\ trouble = lastHealth /\ (lastHealth # Unsaid => told["health"] = lastHealth)
SortedBehind ==
  /\ sessions \subseteq Sessions
  /\ last["user_sessions"] # Unsaid =>
       \E S \in SUBSET Sessions : \E q \in ListingsOf(S) : behind = {S} /\ last["user_sessions"] = {Sorted(q)}
NoisyByTies == noisy => \E d, e \in UNION behind : d # e /\ d.key = e.key
PostureInv == ToldOfLast /\ SortedBehind /\ NoisyByTies

\* A poll of the posture: what it tells is what it collected.
LEMMA PollKeeps == ASSUME PostureInv, CollectPosture PROVE PostureInv'
<1>1. PICK q \in Listings, unlisted \in SUBSET {"user_sessions"} :
        LET failing == unlisted \cup (IF ControlsRaise THEN {"security_controls"} ELSE {})
            value(c) == IF c = "user_sessions" THEN Sorted(q) ELSE SecurityControls
            tells(c) == c \notin failing /\ last[c] # {value(c)}
        IN /\ last' = [c \in Components |-> IF c \in failing THEN last[c] ELSE {value(c)}]
           /\ told' = [c \in Components \cup {"health"} |->
                         IF c = "health" THEN IF SameHealth(failing) THEN told[c] ELSE {failing}
                         ELSE IF tells(c) THEN {value(c)} ELSE told[c]]
           /\ lastHealth' = {failing}
           /\ trouble' = {failing}
           /\ noisy' = (tells("user_sessions") /\ last["user_sessions"] # Unsaid /\ behind = {sessions})
           /\ behind' = IF "user_sessions" \in failing THEN behind ELSE {sessions}
  BY Zenon DEF CollectPosture
<1> DEFINE failing == unlisted \cup (IF ControlsRaise THEN {"security_controls"} ELSE {})
           value(c) == IF c = "user_sessions" THEN Sorted(q) ELSE SecurityControls
           tells(c) == c \notin failing /\ last[c] # {value(c)}
<1>2. /\ last' = [c \in Components |-> IF c \in failing THEN last[c] ELSE {value(c)}]
      /\ told' = [c \in Components \cup {"health"} |->
                    IF c = "health" THEN IF SameHealth(failing) THEN told[c] ELSE {failing}
                    ELSE IF tells(c) THEN {value(c)} ELSE told[c]]
      /\ lastHealth' = {failing} /\ trouble' = {failing}
      /\ noisy' = (tells("user_sessions") /\ last["user_sessions"] # Unsaid /\ behind = {sessions})
      /\ behind' = IF "user_sessions" \in failing THEN behind ELSE {sessions}
  BY <1>1
<1>3. sessions' = sessions /\ value("user_sessions") = Sorted(q) /\ q \in ListingsOf(sessions)
  BY DEF CollectPosture, Listings, ListingsOf
<1> HIDE DEF failing, value
<1>4. /\ DOMAIN last' = Components
      /\ \A c \in Components : last'[c] = IF c \in failing THEN last[c] ELSE {value(c)}
  BY <1>2
<1>5. /\ \A c \in Components : told'[c] = IF tells(c) THEN {value(c)} ELSE told[c]
      /\ told'["health"] = IF SameHealth(failing) THEN told["health"] ELSE {failing}
  <2>1. "health" \notin Components
    BY DEF Components
  <2> HIDE DEF tells
  <2> QED
    BY <1>2, <2>1
<1>6. ASSUME NEW c \in Components, last'[c] # Unsaid PROVE told'[c] = last'[c]
  <2>1. CASE c \in failing
    BY <1>4, <1>5, <1>6, <2>1 DEF PostureInv, ToldOfLast
  <2>2. CASE c \notin failing
    <3>1. last'[c] = {value(c)}
      BY <1>4, <2>2
    <3>2. CASE last[c] = {value(c)}
      <4>1. told[c] = last[c]
        BY <3>2 DEF PostureInv, ToldOfLast, Unsaid
      <4> QED
        BY <1>5, <3>1, <3>2, <4>1
    <3>3. CASE last[c] # {value(c)}
      BY <1>5, <2>2, <3>1, <3>3
    <3> QED
      BY <3>2, <3>3
  <2> QED
    BY <2>1, <2>2
<1>7. told'["health"] = {failing}
  BY <1>5 DEF SameHealth, PostureInv, ToldOfLast, Unsaid
<1>8. ToldOfLast'
  BY <1>2, <1>4, <1>6, <1>7 DEF ToldOfLast
<1>9. "user_sessions" \in Components /\ last'["user_sessions"] =
        IF "user_sessions" \in failing THEN last["user_sessions"] ELSE {Sorted(q)}
  BY <1>3, <1>4 DEF Components
<1>10. SortedBehind'
  <2>1. CASE "user_sessions" \in failing
    BY <1>2, <1>3, <1>9, <2>1 DEF PostureInv, SortedBehind
  <2>2. CASE "user_sessions" \notin failing
    <3>1. behind' = {sessions} /\ last'["user_sessions"] = {Sorted(q)} /\ sessions \in SUBSET Sessions
      BY <1>2, <1>9, <2>2 DEF PostureInv, SortedBehind
    <3> QED
      BY <1>3, <3>1 DEF SortedBehind
  <2> QED
    BY <2>1, <2>2
<1>11. NoisyByTies'
  <2> SUFFICES ASSUME noisy' PROVE \E d, e \in UNION behind' : d # e /\ d.key = e.key
    BY DEF NoisyByTies
  <2>1. /\ "user_sessions" \notin failing /\ last["user_sessions"] # {Sorted(q)}
        /\ last["user_sessions"] # Unsaid /\ behind = {sessions} /\ behind' = {sessions}
    BY <1>2, <1>3
  <2>2. PICK r \in ListingsOf(sessions) : last["user_sessions"] = {Sorted(r)}
    BY <2>1 DEF PostureInv, SortedBehind
  <2>3. IsFiniteSet(sessions)
    BY PostureAssumption, FS_Subset DEF PostureInv, SortedBehind
  <2>4. ~ KeysDiffer(sessions)
    BY <1>3, <2>1, <2>2, <2>3, OneOrder
  <2> QED
    BY <2>1, <2>4 DEF KeysDiffer
<1> QED
  BY <1>8, <1>10, <1>11 DEF PostureInv

\* Whoever follows the events knows of every component what the plugin last
\* collected and which failed, through failures and restarts, and is not told of
\* sessions that were only listed in another order (collect_once in
\* src/agent/plugins/host_security_posture_plugin.py).
THEOREM PostureTold == PostureSpec => []PostureShown
<1>1. PostureInit => PostureInv
  BY DEF PostureInit, PostureInv, ToldOfLast, SortedBehind, NoisyByTies, Components
<1>2. ASSUME PostureInv, [PostureNext]_postureVars PROVE PostureInv'
  <2>1. ASSUME UNCHANGED <<last, lastHealth, told, trouble, behind, noisy>>, sessions' \subseteq Sessions
        PROVE  PostureInv'
    BY <1>2, <2>1 DEF PostureInv, ToldOfLast, SortedBehind, NoisyByTies
  <2>2. CASE HostChanges
    BY <1>2, <2>1, <2>2 DEF HostChanges, PostureInv, SortedBehind
  <2>3. CASE RestartPosture
    BY <1>2, <2>3 DEF RestartPosture, PostureInv, ToldOfLast, SortedBehind, NoisyByTies, Components
  <2>4. CASE UNCHANGED postureVars
    BY <1>2, <2>1, <2>4 DEF postureVars, PostureInv, SortedBehind
  <2> QED
    BY <1>2, <2>2, <2>3, <2>4, PollKeeps DEF PostureNext
<1>3. PostureInv => PostureShown
  BY DEF PostureInv, ToldOfLast, SortedBehind, NoisyByTies, PostureShown
<1> QED
  BY <1>1, <1>2, <1>3, PTL DEF PostureSpec

-----------------------------------------------------------------------------
(* Chunking *)

\* What one time stamp does to the number of the chunk, and what Place is.
NextPlace(stamps, Full, was, t) ==
  IF t \in stamps /\ (was.number = 0 \/ <<was.begin, t>> \in Full)
  THEN [number |-> was.number + 1, begin |-> t] ELSE was
IsPlace(stamps, Full, n, p) ==
  p = [t \in 0..n |-> NextPlace(stamps, Full, IF t = 0 THEN [number |-> 0, begin |-> 0] ELSE p[t - 1], t)]

\* Place is the function its recursion describes.
LEMMA PlaceExists ==
  ASSUME NEW stamps, NEW Full, NEW final \in Nat
  PROVE  IsPlace(stamps, Full, final, Place(stamps, final, Full))
<1> DEFINE nil == [number |-> 0, begin |-> 0]
           missing == {n \in Nat : ~ \E p : IsPlace(stamps, Full, n, p)}
<1>1. missing = {}
  <2> SUFFICES ASSUME missing # {} PROVE FALSE
    OBVIOUS
  <2>1. PICK n \in missing : \A m \in missing : n <= m
    BY FirstOf
  <2>2. CASE n = 0
    <3> DEFINE p == [t \in 0..0 |-> NextPlace(stamps, Full, nil, t)]
    <3>1. IsPlace(stamps, Full, 0, p)
      BY DEF IsPlace
    <3> QED
      BY <2>1, <2>2, <3>1
  <2>3. CASE n # 0
    <3>1. n \in Nat /\ n - 1 \in Nat /\ n - 1 \notin missing
      BY <2>1, <2>3
    <3>2. PICK p : IsPlace(stamps, Full, n - 1, p)
      BY <3>1
    <3> DEFINE q == [t \in 0..n |-> IF t = n THEN NextPlace(stamps, Full, p[n - 1], n) ELSE p[t]]
    <3>3. \A t \in 0..n - 1 : p[t] = NextPlace(stamps, Full, IF t = 0 THEN nil ELSE p[t - 1], t)
      BY <3>2 DEF IsPlace
    <3>4. \A t \in 0..n : q[t] = NextPlace(stamps, Full, IF t = 0 THEN nil ELSE q[t - 1], t)
      <4> TAKE t \in 0..n
      <4>1. CASE t = n
        <5>1. q[t] = NextPlace(stamps, Full, p[n - 1], n) /\ t # 0 /\ q[t - 1] = p[n - 1]
          BY <2>3, <3>1, <4>1
        <5> QED
          BY <4>1, <5>1
      <4>2. CASE t # n
        <5>1. t \in 0..n - 1 /\ q[t] = p[t] /\ (t # 0 => q[t - 1] = p[t - 1])
          BY <3>1, <4>2
        <5> QED
          BY <3>3, <5>1
      <4> QED
        BY <4>1, <4>2
    <3>5. q = [t \in 0..n |-> q[t]]
      OBVIOUS
    <3> HIDE DEF q
    <3>6. q = [t \in 0..n |-> NextPlace(stamps, Full, IF t = 0 THEN nil ELSE q[t - 1], t)]
      BY <3>4, <3>5, Zenon
    <3>7. IsPlace(stamps, Full, n, q)
      BY <3>6 DEF IsPlace
    <3> QED
      BY <2>1, <3>1, <3>7
  <2> QED
    BY <2>2, <2>3
<1>2. PICK p : IsPlace(stamps, Full, final, p)
  BY <1>1
<1>3. Place(stamps, final, Full) = CHOOSE q : IsPlace(stamps, Full, final, q)
  BY Zenon DEF Place, IsPlace, NextPlace
<1> QED
  BY <1>2, <1>3, Zenon

\* The chunks are numbered from 1 in the order of time, none is left out, and
\* what has one of the time stamps is in a chunk.
Cuts(p, stamps, final) ==
  /\ \A t \in 0..final : p[t].number \in Nat
  /\ \A s, t \in 0..final : s <= t => p[s].number <= p[t].number
  /\ \A t \in stamps : 1 <= p[t].number
  /\ \A n \in Nat : 1 <= n /\ n <= p[final].number => \E t \in stamps : p[t].number = n

\* Place numbers the chunks like that.
LEMMA PlaceCuts ==
  ASSUME NEW final \in Nat, NEW stamps \in SUBSET (0..final), NEW Full,
         NEW p, p = Place(stamps, final, Full)
  PROVE  Cuts(p, stamps, final)
<1> DEFINE nil == [number |-> 0, begin |-> 0]
           was(t) == IF t = 0 THEN nil ELSE p[t - 1]
           num(t) == p[t].number
<1>1. \A t \in 0..final : p[t] = NextPlace(stamps, Full, was(t), t)
  BY PlaceExists DEF IsPlace
<1>2. \A t \in 0..final :
        \/ num(t) = was(t).number + 1 /\ t \in stamps
        \/ num(t) = was(t).number /\ (t \in stamps => was(t).number # 0)
  <2> TAKE t \in 0..final
  <2> DEFINE w == was(t)
  <2>1. p[t] = NextPlace(stamps, Full, w, t)
    BY <1>1
  <2> HIDE DEF w
  <2>2. \/ p[t] = [number |-> w.number + 1, begin |-> t] /\ t \in stamps
        \/ p[t] = w /\ (t \in stamps => w.number # 0)
    BY <2>1 DEF NextPlace
  <2>3. \/ p[t].number = w.number + 1 /\ t \in stamps
        \/ p[t].number = w.number /\ (t \in stamps => w.number # 0)
    BY <2>2
  <2> QED
    BY <2>3 DEF w
<1>3. 0 \in 0..final => (num(0) = 1 /\ 0 \in stamps) \/ (num(0) = 0 /\ 0 \notin stamps)
  BY <1>2
<1>4. \A t \in 1..final :
        \/ num(t) = num(t - 1) + 1 /\ t \in stamps
        \/ num(t) = num(t - 1) /\ (t \in stamps => num(t - 1) # 0)
  <2> TAKE t \in 1..final
  <2>1. t \in 0..final /\ was(t) = p[t - 1]
    OBVIOUS
  <2> QED
    BY <1>2, <2>1
<1> HIDE DEF num
<1>5. \A t \in 0..final : num(t) \in Nat
  <2> DEFINE bad == {t \in 0..final : num(t) \notin Nat}
  <2> SUFFICES ASSUME bad # {} PROVE FALSE
    OBVIOUS
  <2>1. PICK t \in bad : \A s \in bad : t <= s
    <3>1. bad \in SUBSET Nat
      OBVIOUS
    <3> HIDE DEF bad
    <3> QED
      BY <3>1, FirstOf
  <2>2. t # 0
    BY <1>3, <2>1
  <2>3. t \in 1..final /\ num(t - 1) \in Nat
    BY <2>1, <2>2
  <2> QED
    BY <1>4, <2>1, <2>3
<1>6. ASSUME NEW s \in 0..final PROVE \A t \in 0..final : s <= t => num(s) <= num(t)
  <2> DEFINE bad == {t \in 0..final : s <= t /\ num(t) < num(s)}
  <2> SUFFICES ASSUME bad # {} PROVE FALSE
    BY <1>5
  <2>1. PICK t \in bad : \A r \in bad : t <= r
    <3>1. bad \in SUBSET Nat
      OBVIOUS
    <3> HIDE DEF bad
    <3> QED
      BY <3>1, FirstOf
  <2>2. s < t
    BY <1>5, <2>1
  <2>3. t \in 1..final /\ t - 1 \in 0..final /\ num(t - 1) >= num(s)
    BY <1>5, <2>1, <2>2
  <2> QED
    BY <1>4, <1>5, <2>1, <2>3
<1>7. ASSUME NEW t \in stamps PROVE 1 <= num(t)
  <2>1. CASE t = 0
    BY <1>3, <2>1
  <2>2. CASE t # 0
    <3>1. t \in 1..final /\ num(t - 1) \in Nat /\ num(t) \in Nat
      BY <1>5, <2>2
    <3> QED
      BY <1>4, <3>1
  <2> QED
    BY <2>1, <2>2
<1>8. ASSUME NEW n \in Nat, 1 <= n, n <= num(final) PROVE \E t \in stamps : num(t) = n
  <2> DEFINE those == {t \in 0..final : n <= num(t)}
  <2>1. final \in those /\ those \in SUBSET Nat
    BY <1>8
  <2>2. PICK t \in those : \A s \in those : t <= s
    BY <2>1, FirstOf
  <2>3. CASE t = 0
    BY <1>3, <1>8, <2>2, <2>3
  <2>4. CASE t # 0
    <3>1. t \in 1..final /\ t - 1 \in 0..final /\ num(t - 1) < n
      BY <1>5, <2>2, <2>4
    <3> QED
      BY <1>4, <1>5, <2>2, <3>1
  <2> QED
    BY <2>3, <2>4
<1> QED
  BY <1>5, <1>6, <1>7, <1>8 DEF num, Cuts

-----------------------------------------------------------------------------
(* KeycloakCursor *)

KcCursor == [t : Int, prints : SUBSET KcEvents]
KcBatch == [events : SUBSET KcEvents, cursor : KcCursor]

\* A cursor covers what had its time before the cursor's, and of the events at
\* that time those it has the prints of.
Covers(c, e) == e \in committed /\ (happened[e] < c.t \/ (happened[e] = c.t /\ e \in c.prints))

\* An event is committed after it got its time; those in time are committed.
KcHistory ==
  /\ kcTime \in Nat /\ committed \subseteq KcEvents /\ IsFiniteSet(committed)
  /\ happened \in [KcEvents -> -1..kcTime] /\ \A e \in committed : happened[e] # -1
  /\ kcTimes \in [KcEvents -> {0, 1}]
  /\ inTime \subseteq committed /\ before \subseteq inTime /\ (kcRead = KcNone => inTime = {})
  /\ undelivered \in Seq(KcBatch)
  /\ \A j \in DOMAIN undelivered : \A e \in undelivered[j].events : e \in committed /\ kcTimes[e] = 0
  /\ \A j, k \in DOMAIN undelivered :
       j < k => undelivered[j].events \cap undelivered[k].events = {}
  /\ \A e \in before : Covers(kcRead, e)

KcCursorAt(k) ==
  IF k = 0 THEN kcStored ELSE IF k \in DOMAIN undelivered THEN undelivered[k].cursor ELSE kcRead

\* What no cursor covers is not stored; what was in time and is covered is
\* stored, or in the batches up to the cursor's own.
KcSettled(k, c) ==
  /\ c \in KcCursor /\ c.prints \subseteq committed /\ c.t <= kcRead.t /\ c.t <= kcTime
  /\ \A e \in KcEvents : kcTimes[e] = 1 => Covers(c, e)
  /\ \A e \in inTime : Covers(c, e) =>
       kcTimes[e] = 1 \/ \E j \in DOMAIN undelivered : j <= k /\ e \in undelivered[j].events
  /\ \A j \in DOMAIN undelivered : j <= k => \A e \in undelivered[j].events : Covers(c, e)

Window(lo, hi) == {e \in committed : lo <= happened[e] /\ happened[e] <= hi}
PlaceIn(W, e) == Cardinality({d \in W : Newer(d, e)})

\* While pages are fetched: an event that was there when the poll began has been
\* fetched or is on a later page, and what is committed meanwhile in time is no
\* older than the window.
Paging ==
  poll.on =>
    LET W == Window(kcRead.t, poll.to) IN
    /\ poll \in [on : BOOLEAN, to : Nat, page : Nat, got : SUBSET KcEvents, had : SUBSET KcEvents]
    /\ undelivered = <<>> /\ kcRead # KcNone /\ kcRead.t <= poll.to /\ poll.to <= kcTime
    /\ poll.page <= MaxPages + 1 /\ poll.had \subseteq inTime /\ poll.got \subseteq W
    /\ \A e \in inTime \ poll.had : poll.to <= happened[e]
    /\ \A e \in poll.had \cap W :
         e \in poll.got \/ (poll.page <= MaxPages /\ poll.page * PageSize <= PlaceIn(W, e))

KcInv == KcHistory /\ Paging /\ \A k \in 0..Len(undelivered) + 1 : KcSettled(k, KcCursorAt(k))

\* The batches of a poll: they hold the new events, each once and in the order
\* of time, and a batch's cursor has its latest time.
Batched(made, events, cursor) ==
  /\ made \in Seq(KcBatch)
  /\ \A e \in events : \E n \in DOMAIN made : e \in made[n].events
  /\ \A n \in DOMAIN made :
       /\ made[n].events \subseteq events
       /\ \E e \in made[n].events : happened[e] = made[n].cursor.t
       /\ \A e \in made[n].events : happened[e] <= made[n].cursor.t
       /\ made[n].cursor.prints = {e \in made[n].events : happened[e] = made[n].cursor.t} \cup
                                    (IF made[n].cursor.t = cursor.t THEN cursor.prints ELSE {})
  /\ \A m, n \in DOMAIN made : m < n =>
       \A d \in made[m].events, e \in made[n].events : happened[d] < happened[e]

\* Chunks cuts the events of a poll like that.
LEMMA ChunksMade ==
  ASSUME NEW events, NEW cursor, cursor \in KcCursor, kcTime \in Nat, events \in SUBSET KcEvents,
         \A e \in events : happened[e] \in 0..kcTime,
         NEW made, made = Chunks(events, cursor)
  PROVE  Batched(made, events, cursor)
<1> DEFINE stamps == {happened[e] : e \in events}
           Full == {p \in (0..kcTime) \X (0..kcTime) :
                      Cardinality({e \in events : p[1] <= happened[e] /\ happened[e] < p[2]}) >= KcBatchSize}
           place == Place(stamps, kcTime, Full)
           number(t) == place[t].number
           chunk(n) == {e \in events : number(happened[e]) = n}
           stampsOf(n) == {happened[e] : e \in chunk(n)}
           latest(n) == CHOOSE t \in stampsOf(n) : \A e \in chunk(n) : happened[e] <= t
           prints(n) == {e \in chunk(n) : happened[e] = latest(n)}
           batch(n) == [events |-> chunk(n),
                        cursor |-> [t |-> latest(n),
                                    prints |-> prints(n) \cup
                                                 (IF latest(n) = cursor.t THEN cursor.prints ELSE {})]]
           N == number(kcTime)
<1>1. made = [n \in 1..N |-> batch(n)]
  BY DEF Chunks
<1>2. stamps \in SUBSET (0..kcTime)
  OBVIOUS
<1> HIDE DEF Full
<1>3. /\ \A t \in 0..kcTime : number(t) \in Nat
      /\ \A s, t \in 0..kcTime : s <= t => number(s) <= number(t)
      /\ \A t \in stamps : 1 <= number(t)
      /\ \A n \in Nat : 1 <= n /\ n <= N => \E t \in stamps : number(t) = n
  <2> HIDE DEF stamps, place
  <2>1. place = Place(stamps, kcTime, Full)
    BY DEF place
  <2>2. PICK k \in Nat : k = kcTime
    OBVIOUS
  <2>3. PICK T, F, pl : T = stamps /\ F = Full /\ pl = place
    OBVIOUS
  <2>4. T \in SUBSET (0..k) /\ pl = Place(T, k, F)
    BY <1>2, <2>1, <2>2, <2>3
  <2>5. Cuts(pl, T, k)
    BY <2>4, PlaceCuts
  <2> QED
    BY <2>2, <2>3, <2>5 DEF Cuts
<1> HIDE DEF place, number
<1>4. N \in Nat /\ kcTime \in 0..kcTime
  BY <1>3
<1>5. ASSUME NEW n \in 1..N PROVE latest(n) \in stampsOf(n) /\ \A e \in chunk(n) : happened[e] <= latest(n)
  <2>1. PICK e \in events : number(happened[e]) = n
    <3>1. n \in Nat /\ 1 <= n /\ n <= N
      BY <1>4
    <3> QED
      BY <1>3, <3>1
  <2>2. stampsOf(n) \in SUBSET (0..kcTime) /\ happened[e] \in stampsOf(n)
    BY <2>1
  <2>3. PICK t \in stampsOf(n) : \A s \in stampsOf(n) : s <= t
    <3> HIDE DEF stampsOf
    <3> QED
      BY <2>2, LastOf
  <2>4. \A d \in chunk(n) : happened[d] <= t
    BY <2>3
  <2>5. \E s \in stampsOf(n) : \A d \in chunk(n) : happened[d] <= s
    BY <2>3, <2>4
  <2> HIDE DEF stampsOf, chunk
  <2> QED
    BY <2>5, Zenon
<1>6. ASSUME NEW n \in 1..N PROVE batch(n) \in KcBatch
  <2>1. latest(n) \in Int
    <3>1. latest(n) \in stampsOf(n) /\ \A s \in stampsOf(n) : s \in Int
      BY <1>5
    <3> HIDE DEF latest, stampsOf
    <3> QED
      BY <3>1
  <2>2. chunk(n) \subseteq KcEvents /\ prints(n) \subseteq KcEvents
    OBVIOUS
  <2> HIDE DEF latest, chunk, prints
  <2> QED
    BY <2>1, <2>2 DEF KcBatch, KcCursor
<1>7. made \in Seq(KcBatch) /\ DOMAIN made = 1..N
  <2> HIDE DEF batch
  <2> QED
    BY <1>1, <1>4, <1>6
<1>8. \A n \in 1..N : made[n].events = chunk(n) /\ made[n].cursor.t = latest(n)
        /\ made[n].cursor.prints = prints(n) \cup (IF latest(n) = cursor.t THEN cursor.prints ELSE {})
  <2> HIDE DEF latest, chunk, prints
  <2> QED
    BY <1>1
<1>9. ASSUME NEW e \in events PROVE number(happened[e]) \in 1..N
  BY <1>3, <1>4
<1>10. ASSUME NEW m \in 1..N, NEW n \in 1..N, m < n, NEW d \in chunk(m), NEW e \in chunk(n)
       PROVE  happened[d] < happened[e]
  <2>1. happened[d] \in 0..kcTime /\ happened[e] \in 0..kcTime /\ number(happened[d]) < number(happened[e])
    BY <1>10
  <2> QED
    BY <1>3, <2>1
<1>11. ASSUME NEW n \in 1..N PROVE \E e \in chunk(n) : happened[e] = latest(n)
  BY <1>5
<1> HIDE DEF latest, N
<1>12. \A e \in events : e \in chunk(number(happened[e]))
  OBVIOUS
<1>13. \A n : chunk(n) \subseteq events
  OBVIOUS
<1> HIDE DEF chunk
<1>14. \A e \in events : \E n \in DOMAIN made : e \in made[n].events
  BY <1>7, <1>8, <1>9, <1>12
<1>15. \A m, n \in DOMAIN made : m < n =>
         \A d \in made[m].events, e \in made[n].events : happened[d] < happened[e]
  BY <1>7, <1>8, <1>10
<1>16. ASSUME NEW n \in DOMAIN made
       PROVE  /\ made[n].events \subseteq events
              /\ \E e \in made[n].events : happened[e] = made[n].cursor.t
              /\ \A e \in made[n].events : happened[e] <= made[n].cursor.t
              /\ made[n].cursor.prints = {e \in made[n].events : happened[e] = made[n].cursor.t} \cup
                                     (IF made[n].cursor.t = cursor.t THEN cursor.prints ELSE {})
  BY <1>5, <1>7, <1>8, <1>11, <1>13
<1> QED
  BY <1>7, <1>14, <1>15, <1>16 DEF Batched

-----------------------------------------------------------------------------
\* The events of a window have the places from 0 on, each its own.
LEMMA PlacesFilled ==
  ASSUME happened \in [KcEvents -> Int], NEW W \in SUBSET KcEvents, IsFiniteSet(W)
  PROVE  LET place == [e \in W |-> PlaceIn(W, e)] IN
         /\ place \in Surjection(W, 0..Cardinality(W) - 1)
         /\ \A e \in W : PlaceIn(W, e) \in 0..Cardinality(W) - 1
<1> DEFINE newer(e) == {d \in W : Newer(d, e)}
           place == [e \in W |-> PlaceIn(W, e)]
           N == Cardinality(W)
<1>1. N \in Nat
  BY FS_CardinalityType
<1>2. \A e \in W : happened[e] \in Int /\ e \in Nat
  BY KeycloakAssumption
<1>3. \A e \in W : newer(e) \subseteq W \ {e}
  BY <1>2 DEF Newer
<1>4. ASSUME NEW e \in W PROVE PlaceIn(W, e) \in 0..N - 1
  <2>1. IsFiniteSet(W \ {e}) /\ Cardinality(W \ {e}) = N - 1
    BY FS_RemoveElement
  <2>2. Cardinality(newer(e)) \in Nat /\ Cardinality(newer(e)) <= N - 1
    <3> HIDE DEF newer
    <3> QED
      BY <1>3, <2>1, FS_Subset, FS_CardinalityType
  <2> QED
    BY <1>1, <2>2 DEF PlaceIn
<1>5. ASSUME NEW d \in W, NEW e \in W, Newer(d, e) PROVE PlaceIn(W, d) < PlaceIn(W, e)
  <2>1. newer(d) \subseteq newer(e)
    BY <1>2, <1>5 DEF Newer
  <2>2. d \in newer(e) /\ d \notin newer(d)
    BY <1>3, <1>5
  <2>3. newer(e) \subseteq W
    OBVIOUS
  <2> HIDE DEF newer
  <2>4. IsFiniteSet(newer(e)) /\ Cardinality(newer(e)) \in Nat
    BY <2>3, FS_Subset, FS_CardinalityType
  <2>5. Cardinality(newer(d)) <= Cardinality(newer(e)) /\ Cardinality(newer(d)) # Cardinality(newer(e))
    BY <2>1, <2>2, <2>4, FS_Subset
  <2>6. IsFiniteSet(newer(d)) /\ Cardinality(newer(d)) \in Nat
    BY <2>1, <2>4, FS_Subset, FS_CardinalityType
  <2> QED
    BY <2>4, <2>5, <2>6 DEF PlaceIn, newer
<1>6. \A d, e \in W : d # e => Newer(d, e) \/ Newer(e, d)
  BY <1>2 DEF Newer
<1>7. place \in Injection(W, 0..N - 1)
  <2>1. place \in [W -> 0..N - 1]
    BY <1>4
  <2>2. ASSUME NEW d \in W, NEW e \in W, place[d] = place[e] PROVE d = e
    BY <1>4, <1>5, <1>6, <2>2
  <2> HIDE DEF place
  <2> QED
    BY <2>1, <2>2 DEF Injection, IsInjective
<1>8. IsFiniteSet(0..N - 1) /\ Cardinality(0..N - 1) = N
  <2>1. 0 \in Int /\ N - 1 \in Int /\ (0 > N - 1 => N = 0) /\ (N - 1) - 0 + 1 = N
    BY <1>1
  <2> HIDE DEF N
  <2> QED
    BY <2>1, FS_Interval
<1>9. place \in Surjection(W, 0..N - 1)
  <2> HIDE DEF place
  <2> QED
    BY <1>7, <1>8, FS_Injection
<1> QED
  BY <1>4, <1>9

\* A page that an event lies behind is full.
LEMMA PageFull ==
  ASSUME happened \in [KcEvents -> Int], committed \subseteq KcEvents, IsFiniteSet(committed),
         NEW lo, NEW hi, NEW first \in Nat, NEW e \in Window(lo, hi),
         first + PageSize <= PlaceIn(Window(lo, hi), e)
  PROVE  PageSize <= Cardinality(Page(lo, hi, first)) /\ Cardinality(Page(lo, hi, first)) \in Nat
<1> DEFINE W == Window(lo, hi)
           page == Page(lo, hi, first)
           place == [d \in W |-> PlaceIn(W, d)]
           offsets == first..first + PageSize - 1
           onPage == [d \in page |-> PlaceIn(W, d)]
           N == Cardinality(W)
<1>1. W \in SUBSET KcEvents /\ IsFiniteSet(W)
  BY FS_Subset DEF Window
<1>2. place \in Surjection(W, 0..N - 1) /\ \A d \in W : PlaceIn(W, d) \in 0..N - 1
  <2> HIDE DEF W
  <2> QED
    BY <1>1, PlacesFilled
<1>3. page = {d \in W : first <= PlaceIn(W, d) /\ PlaceIn(W, d) < first + PageSize}
  BY DEF Page, Window, PlaceIn
<1>4. PageSize \in Nat /\ N \in Nat
  BY <1>1, KeycloakAssumption, FS_CardinalityType
<1> HIDE DEF W, page, N
<1>5. ASSUME NEW n \in offsets PROVE \E d \in page : PlaceIn(W, d) = n
  <2>1. n \in 0..N - 1
    BY <1>2, <1>4 DEF W
  <2>2. PICK d \in W : place[d] = n
    BY <1>2, <2>1 DEF Surjection
  <2> QED
    BY <1>3, <1>4, <2>2
<1>6. onPage \in Surjection(page, offsets)
  <2>1. onPage \in [page -> offsets]
    BY <1>2, <1>3, <1>4
  <2>2. \A n \in offsets : \E d \in page : onPage[d] = n
    BY <1>5
  <2> HIDE DEF onPage, offsets
  <2> QED
    BY <2>1, <2>2 DEF Surjection
<1>7. IsFiniteSet(page)
  BY <1>1, <1>3, FS_Subset
<1>8. Cardinality(offsets) = PageSize
  BY <1>4, FS_Interval
<1>9. Cardinality(offsets) <= Cardinality(page)
  <2> HIDE DEF onPage, offsets
  <2> QED
    BY <1>6, <1>7, FS_Surjection
<1> QED
  BY <1>7, <1>8, <1>9, FS_CardinalityType DEF page

\* The checkpoint and the position are the first and the last of the cursors.
LEMMA ReadSettled ==
  ASSUME KcInv
  PROVE  /\ KcSettled(0, kcStored) /\ KcSettled(Len(undelivered) + 1, kcRead)
         /\ Len(undelivered) \in Nat /\ DOMAIN undelivered = 1..Len(undelivered)
<1>1. Len(undelivered) \in Nat /\ DOMAIN undelivered = 1..Len(undelivered)
  BY LenProperties DEF KcInv, KcHistory
<1>2. KcCursorAt(0) = kcStored /\ KcCursorAt(Len(undelivered) + 1) = kcRead
  BY <1>1 DEF KcCursorAt
<1> QED
  BY <1>1, <1>2 DEF KcInv

\* Without a cursor nothing is covered.
LEMMA KcStarts == KeycloakInit => KcInv
<1> SUFFICES ASSUME KeycloakInit PROVE KcInv
  OBVIOUS
<1>1. /\ kcTime = 0 /\ happened = [e \in KcEvents |-> -1] /\ committed = {}
      /\ kcRead = KcNone /\ kcStored = KcNone /\ poll = NoPoll /\ undelivered = <<>>
      /\ kcTimes = [e \in KcEvents |-> 0] /\ inTime = {} /\ before = {}
  BY DEF KeycloakInit
<1>2. undelivered \in Seq(KcBatch) /\ Len(undelivered) = 0 /\ DOMAIN undelivered = {}
  BY <1>1, EmptySeq
<1>3. KcHistory
  BY <1>1, <1>2, FS_EmptySet DEF KcHistory
<1>4. Paging
  BY <1>1 DEF Paging, NoPoll
<1>5. ASSUME NEW k \in 0..Len(undelivered) + 1 PROVE KcSettled(k, KcCursorAt(k))
  BY <1>1, <1>2 DEF KcSettled, KcCursorAt, KcNone, KcCursor
<1> QED
  BY <1>3, <1>4, <1>5 DEF KcInv

\* Time passes.
LEMMA KcClockKeeps == ASSUME KcInv, KcClock PROVE KcInv'
<1>1. kcTime' = kcTime + 1 /\ UNCHANGED <<happened, committed, kcRead, kcStored, poll, undelivered, kcTimes, inTime, before>>
  BY DEF KcClock
<1>2. KcHistory'
  <2>1. kcTime \in Nat /\ kcTime' \in Nat /\ kcTime <= kcTime'
    BY <1>1 DEF KcInv, KcHistory
  <2>2. happened' \in [KcEvents -> -1..kcTime']
    BY <1>1, <2>1 DEF KcInv, KcHistory
  <2> QED
    BY <1>1, <2>1, <2>2 DEF KcInv, KcHistory, Covers
<1>3. Paging'
  <2> SUFFICES ASSUME poll.on PROVE Paging'
    BY <1>1 DEF Paging
  <2>1. kcTime \in Nat /\ poll.to \in Nat /\ poll.to <= kcTime'
    BY <1>1 DEF KcInv, KcHistory, Paging
  <2> QED
    BY <1>1, <2>1 DEF KcInv, Paging, Window, PlaceIn, Newer
<1>4. ASSUME NEW k \in 0..Len(undelivered) + 1 PROVE KcSettled(k, KcCursorAt(k))'
  <2>1. KcCursorAt(k)' = KcCursorAt(k)
    BY <1>1 DEF KcCursorAt
  <2>2. kcTime \in Nat /\ KcSettled(k, KcCursorAt(k))
    BY DEF KcInv, KcHistory
  <2> QED
    BY <1>1, <2>1, <2>2 DEF KcSettled, KcCursor, Covers
<1> QED
  BY <1>1, <1>2, <1>3, <1>4 DEF KcInv

\* An event that gets its time is not committed yet.
LEMMA HappenKeeps == ASSUME KcInv, NEW e \in KcEvents, Happen(e) PROVE KcInv'
<1>1. /\ happened[e] = -1 /\ happened' = [happened EXCEPT ![e] = kcTime]
      /\ UNCHANGED <<kcTime, committed, kcRead, kcStored, poll, undelivered, kcTimes, inTime, before>>
  BY DEF Happen
<1>2. e \notin committed /\ \A d \in committed : happened'[d] = happened[d]
  BY <1>1 DEF KcInv, KcHistory
<1>3. \A c, d : Covers(c, d)' = Covers(c, d)
  BY <1>1, <1>2 DEF Covers
<1>4. KcHistory'
  BY <1>1, <1>2 DEF KcInv, KcHistory, Covers
<1>5. Paging'
  <2> SUFFICES ASSUME poll.on PROVE Paging'
    BY <1>1 DEF Paging
  <2> DEFINE W == Window(kcRead.t, poll.to)
  <2>1. W' = W
    BY <1>1, <1>2 DEF Window
  <2>2. \A d \in W : PlaceIn(W, d)' = PlaceIn(W, d)
    <3> TAKE d \in W
    <3>1. {x \in W : Newer(x, d)}' = {x \in W : Newer(x, d)}
      BY <1>2, <2>1 DEF Newer, Window
    <3> HIDE DEF W
    <3> QED
      BY <3>1 DEF PlaceIn
  <2>3. \A d \in inTime : d \in committed
    BY DEF KcInv, KcHistory
  <2> QED
    BY <1>1, <1>2, <2>1, <2>2, <2>3 DEF KcInv, Paging
<1>6. ASSUME NEW k \in 0..Len(undelivered) + 1 PROVE KcSettled(k, KcCursorAt(k))'
  <2>1. KcCursorAt(k)' = KcCursorAt(k)
    BY <1>1 DEF KcCursorAt
  <2>2. KcSettled(k, KcCursorAt(k))
    BY DEF KcInv
  <2> QED
    BY <1>1, <1>2, <2>1, <2>2 DEF KcSettled, Covers
<1> QED
  BY <1>1, <1>4, <1>5, <1>6 DEF KcInv

\* An event is committed: one that is in time lies behind every cursor, and while
\* pages are fetched it only moves the others to later places.
LEMMA CommitKeeps == ASSUME KcInv, NEW e \in KcEvents, CommitEvent(e) PROVE KcInv'
<1>1. /\ happened[e] # -1 /\ e \notin committed /\ committed' = committed \cup {e}
      /\ inTime' = IF kcRead # KcNone /\ happened[e] >= Asked THEN inTime \cup {e} ELSE inTime
      /\ UNCHANGED <<kcTime, happened, kcRead, kcStored, poll, undelivered, kcTimes, before>>
  BY DEF CommitEvent
<1>2. KcHistory /\ e \notin inTime /\ \A k \in 0..Len(undelivered) + 1 : KcSettled(k, KcCursorAt(k))
  BY <1>1 DEF KcInv, KcHistory
<1>3. \A c, d : c.prints \subseteq committed =>
        (Covers(c, d)' <=> Covers(c, d) \/ (d = e /\ happened[e] < c.t))
  BY <1>1 DEF Covers
<1>4. /\ inTime \subseteq inTime' /\ inTime' \subseteq inTime \cup {e}
      /\ e \in inTime' => kcRead # KcNone /\ happened[e] >= Asked
  BY <1>1, <1>2
<1>5. KcHistory'
  <2>1. IsFiniteSet(committed')
    BY <1>1, <1>2, FS_AddElement DEF KcHistory
  <2>2. \A d \in before : Covers(kcRead, d)'
    BY <1>1, <1>2 DEF KcHistory, Covers
  <2> QED
    BY <1>1, <1>2, <1>4, <2>1, <2>2 DEF KcHistory
<1>6. Paging'
  <2> SUFFICES ASSUME poll.on PROVE Paging'
    BY <1>1 DEF Paging
  <2> DEFINE W == Window(kcRead.t, poll.to)
  <2>1. W \subseteq W' /\ W' \subseteq W \cup {e} /\ W' \subseteq committed'
    BY <1>1 DEF Window
  <2>2. IsFiniteSet(committed') /\ poll.had \subseteq inTime /\ inTime \subseteq committed
    BY <1>1, <1>2, FS_AddElement DEF KcHistory, KcInv, Paging
  <2>3. IsFiniteSet(W')
    BY <2>1, <2>2, FS_Subset
  <2>4. ASSUME NEW d \in W
        PROVE  PlaceIn(W, d) \in Nat /\ PlaceIn(W, d)' \in Nat /\ PlaceIn(W, d) <= PlaceIn(W, d)'
    <3> DEFINE newer == {x \in W : Newer(x, d)}
    <3>1. newer \subseteq newer' /\ newer' \subseteq W'
      BY <1>1, <2>1 DEF Newer
    <3>2. PlaceIn(W, d) = Cardinality(newer) /\ PlaceIn(W, d)' = Cardinality(newer')
      BY DEF PlaceIn
    <3> HIDE DEF newer
    <3>3. IsFiniteSet(newer') /\ Cardinality(newer') \in Nat
      BY <2>3, <3>1, FS_Subset, FS_CardinalityType
    <3>4. IsFiniteSet(newer) /\ Cardinality(newer) \in Nat /\ Cardinality(newer) <= Cardinality(newer')
      BY <3>1, <3>3, FS_Subset, FS_CardinalityType
    <3> QED
      BY <3>2, <3>3, <3>4
  <2>5. ASSUME NEW d \in poll.had \cap W'
        PROVE  d \in poll.got \/ (poll.page <= MaxPages /\ poll.page * PageSize <= PlaceIn(W, d)')
    <3>1. d \in poll.had \cap W
      BY <1>1, <2>1, <2>2
    <3>2. d \in poll.got \/ (poll.page <= MaxPages /\ poll.page * PageSize <= PlaceIn(W, d))
      BY <3>1 DEF KcInv, Paging
    <3>3. poll.page * PageSize \in Int
      BY KeycloakAssumption DEF KcInv, Paging
    <3> QED
      BY <2>4, <3>1, <3>2, <3>3
  <2>6. \A d \in inTime' \ poll.had : poll.to <= happened[d]
    <3>1. ASSUME e \in inTime' PROVE poll.to <= happened[e]
      <4>1. Asked = IF poll.to > kcRead.t THEN poll.to ELSE kcRead.t
        BY DEF Asked
      <4>2. poll.to \in Int /\ kcRead.t \in Int /\ happened[e] \in Int
        BY <1>2, ReadSettled DEF KcInv, Paging, KcHistory, KcSettled, KcCursor
      <4> QED
        BY <1>4, <3>1, <4>1, <4>2
    <3> QED
      BY <1>4, <3>1 DEF KcInv, Paging
  <2>7. poll.got \subseteq W' /\ poll.had \subseteq inTime'
    BY <1>4, <2>1 DEF KcInv, Paging
  <2> HIDE DEF W
  <2> QED
    BY <1>1, <2>5, <2>6, <2>7 DEF KcInv, Paging, W
<1>7. ASSUME NEW k \in 0..Len(undelivered) + 1 PROVE KcSettled(k, KcCursorAt(k))'
  <2>1. PICK c : c = KcCursorAt(k)
    OBVIOUS
  <2>2. KcCursorAt(k)' = c
    BY <1>1, <2>1 DEF KcCursorAt
  <2>3. KcSettled(k, c)
    BY <1>2, <2>1
  <2>4. e \in inTime' => ~ (happened[e] < c.t)
    <3>1. c.t \in Int /\ kcRead.t \in Int /\ c.t <= kcRead.t /\ happened[e] \in Int
      BY <1>2, <2>3, ReadSettled DEF KcSettled, KcCursor, KcHistory
    <3>2. e \in inTime' => happened[e] >= kcRead.t
      <4>1. poll.on => poll.to \in Int
        BY DEF KcInv, Paging
      <4> QED
        BY <1>4, <3>1, <4>1 DEF Asked
    <3> QED
      BY <3>1, <3>2
  <2>5. KcSettled(k, c)'
    <3>1. \A d \in KcEvents : Covers(c, d) => Covers(c, d)'
      BY <1>1 DEF Covers
    <3>2. \A d \in inTime' : Covers(c, d)' => d \in inTime /\ Covers(c, d)
      <4>1. ~ Covers(c, e) /\ c.prints \subseteq committed
        BY <1>1, <2>3 DEF Covers, KcSettled
      <4>2. ASSUME NEW d \in inTime', Covers(c, d)' PROVE d \in inTime /\ Covers(c, d)
        <5>1. d = e \/ d \in inTime
          BY <1>4
        <5> QED
          BY <1>3, <2>4, <4>1, <4>2, <5>1
      <4> QED
        BY <4>2
    <3>3. c \in KcCursor' /\ (c.prints \subseteq committed)' /\ c.t <= kcRead.t' /\ c.t <= kcTime'
      BY <1>1, <2>3 DEF KcSettled, KcCursor
    <3>4. \A d \in KcEvents : kcTimes'[d] = 1 => Covers(c, d)'
      BY <1>1, <2>3, <3>1 DEF KcSettled
    <3>5. \A d \in inTime' : Covers(c, d)' =>
            kcTimes'[d] = 1 \/ \E j \in DOMAIN undelivered' : j <= k /\ d \in undelivered'[j].events
      BY <1>1, <2>3, <3>2 DEF KcSettled
    <3>6. \A j \in DOMAIN undelivered' : j <= k => \A d \in undelivered'[j].events : Covers(c, d)'
      <4>1. \A j \in DOMAIN undelivered : \A d \in undelivered[j].events : d \in KcEvents
        BY <1>2 DEF KcHistory
      <4> QED
        BY <1>1, <2>3, <3>1, <4>1 DEF KcSettled
    <3> QED
      BY <3>3, <3>4, <3>5, <3>6 DEF KcSettled
  <2> QED
    BY <2>2, <2>5 DEF KcSettled, Covers
<1> QED
  BY <1>1, <1>5, <1>6, <1>7 DEF KcInv

\* A poll begins: all that is in time has its page still to come.
LEMMA StartKeeps == ASSUME KcInv, StartPoll PROVE KcInv'
<1>1. /\ ~ poll.on /\ undelivered = <<>>
      /\ kcRead' = IF kcRead = KcNone THEN [t |-> kcTime, prints |-> {}] ELSE kcRead
      /\ poll' = [on |-> TRUE, to |-> kcTime, page |-> 0, got |-> {}, had |-> inTime]
      /\ UNCHANGED <<kcTime, happened, committed, kcStored, undelivered, kcTimes, inTime, before>>
  BY DEF StartPoll, keycloak
<1>2. KcHistory /\ KcSettled(0, kcStored) /\ KcSettled(1, kcRead) /\ Len(undelivered) = 0
  BY <1>1, ReadSettled, EmptySeq DEF KcInv
<1>3. kcTime \in Nat /\ kcRead.t \in Int /\ kcRead.t <= kcTime
  BY <1>2 DEF KcHistory, KcSettled, KcCursor
<1>4. kcRead = KcNone => inTime = {} /\ before = {} /\ \A e \in KcEvents : kcTimes[e] = 0
  <2> SUFFICES ASSUME kcRead = KcNone PROVE inTime = {} /\ before = {} /\ \A e \in KcEvents : kcTimes[e] = 0
    OBVIOUS
  <2>1. inTime = {} /\ before = {}
    BY <1>2 DEF KcHistory
  <2>2. ASSUME NEW e \in KcEvents PROVE kcTimes[e] = 0
    <3>1. ~ Covers(kcRead, e)
      BY <1>2 DEF Covers, KcNone, KcHistory
    <3> QED
      BY <1>2, <3>1 DEF KcHistory, KcSettled
  <2> QED
    BY <2>1, <2>2
<1>5. kcRead' # KcNone /\ kcRead'.t \in Int /\ kcRead.t <= kcRead'.t /\ kcRead'.t <= kcTime
  <2>1. CASE kcRead = KcNone
    <3>1. kcRead' = [t |-> kcTime, prints |-> {}]
      BY <1>1, <2>1
    <3>2. kcRead'.t = kcTime /\ kcRead.t = -1 /\ KcNone.t = -1
      BY <2>1, <3>1 DEF KcNone
    <3> QED
      BY <1>3, <3>2
  <2>2. CASE kcRead # KcNone
    BY <1>1, <1>3, <2>2
  <2> QED
    BY <2>1, <2>2
<1>6. KcHistory'
  BY <1>1, <1>2, <1>4, <1>5 DEF KcHistory, Covers
<1>7. Paging'
  <2>1. poll'.page = 0 /\ poll'.to = kcTime /\ poll'.got = {} /\ poll'.had = inTime /\ poll'.on
    BY <1>1
  <2>2. poll' \in [on : BOOLEAN, to : Nat, page : Nat, got : SUBSET KcEvents, had : SUBSET KcEvents]
    BY <1>1, <1>2, <1>3 DEF KcHistory
  <2>3. MaxPages \in Nat /\ PageSize \in Nat /\ 0 * PageSize = 0
    BY KeycloakAssumption
  <2>4. ASSUME NEW e \in Window(kcRead.t, poll.to)' PROVE PlaceIn(Window(kcRead.t, poll.to), e)' >= 0
    <3> DEFINE W == Window(kcRead.t, poll.to)'
               newer == {d \in W : Newer(d, e)'}
    <3>1. W \subseteq committed' /\ IsFiniteSet(committed') /\ newer \subseteq W
      BY <1>6 DEF Window, KcHistory
    <3>2. PlaceIn(Window(kcRead.t, poll.to), e)' = Cardinality(newer)
      BY DEF PlaceIn
    <3> HIDE DEF W, newer
    <3>3. Cardinality(newer) \in Nat
      BY <3>1, FS_Subset, FS_CardinalityType
    <3> QED
      BY <3>2, <3>3
  <2> QED
    BY <1>1, <1>3, <1>5, <2>1, <2>2, <2>3, <2>4 DEF Paging
<1>8. ASSUME NEW k \in 0..Len(undelivered) + 1 PROVE KcSettled(k, KcCursorAt(k))'
  <2>1. k \in {0, 1} /\ DOMAIN undelivered = {}
    BY <1>1, <1>2
  <2>2. CASE k = 0
    <3>1. KcCursorAt(k)' = kcStored
      BY <1>1, <2>2 DEF KcCursorAt
    <3>2. kcStored.t \in Int /\ kcStored.t <= kcRead'.t
      BY <1>2, <1>3, <1>5 DEF KcSettled, KcCursor
    <3> QED
      BY <1>1, <1>2, <2>1, <2>2, <3>1, <3>2 DEF KcSettled, Covers
  <2>3. CASE k = 1
    <3>1. KcCursorAt(k)' = kcRead'
      BY <1>1, <2>1, <2>3 DEF KcCursorAt
    <3>2. CASE kcRead = KcNone
      <4>1. kcRead' = [t |-> kcTime, prints |-> {}]
        BY <1>1, <3>2
      <4>2. kcRead' \in KcCursor /\ kcRead'.prints = {}
        BY <1>3, <4>1 DEF KcCursor
      <4> QED
        BY <1>1, <1>2, <1>3, <1>4, <1>5, <2>1, <3>1, <3>2, <4>2 DEF KcSettled, Covers
    <3>3. CASE kcRead # KcNone
      <4>1. kcRead' = kcRead /\ KcCursorAt(k)' = KcCursorAt(k)
        BY <1>1, <3>3 DEF KcCursorAt
      <4>2. KcSettled(k, KcCursorAt(k))
        BY DEF KcInv
      <4> QED
        BY <1>1, <4>1, <4>2 DEF KcSettled, Covers
    <3> QED
      BY <3>2, <3>3
  <2> QED
    BY <2>1, <2>2, <2>3
<1> QED
  BY <1>1, <1>6, <1>7, <1>8 DEF KcInv

\* A page is fetched: who lies behind it is on a later page, and a page that is
\* not full was the last.
LEMMA FetchKeeps == ASSUME KcInv, FetchPage PROVE KcInv'
<1> DEFINE first == poll.page * PageSize
           result == Page(kcRead.t, poll.to, first)
           W == Window(kcRead.t, poll.to)
<1>1. /\ poll.on /\ poll.page < MaxPages
      /\ poll' = [poll EXCEPT !.got = @ \cup result,
                              !.page = IF Cardinality(result) < PageSize THEN MaxPages + 1 ELSE @ + 1]
      /\ UNCHANGED <<kcTime, happened, committed, kcRead, kcStored, undelivered, kcTimes, inTime, before>>
  BY DEF FetchPage, keycloak
<1>2. KcHistory /\ Paging
  BY DEF KcInv
<1>3. /\ poll \in [on : BOOLEAN, to : Nat, page : Nat, got : SUBSET KcEvents, had : SUBSET KcEvents]
      /\ poll.got \subseteq W
      /\ \A e \in poll.had \cap W : e \in poll.got \/ first <= PlaceIn(W, e)
  BY <1>1, <1>2 DEF Paging
<1>4. PageSize \in Nat /\ MaxPages \in Nat /\ poll.page \in Nat /\ first \in Nat
  BY <1>3, KeycloakAssumption
<1>5. (poll.page + 1) * PageSize = first + PageSize
  BY <1>4
<1>6. result = {e \in W : first <= PlaceIn(W, e) /\ PlaceIn(W, e) < first + PageSize}
  BY DEF Page, Window, PlaceIn
<1>7. /\ poll'.on = poll.on /\ poll'.to = poll.to /\ poll'.had = poll.had
      /\ poll'.got = poll.got \cup result
      /\ poll'.page = IF Cardinality(result) < PageSize THEN MaxPages + 1 ELSE poll.page + 1
  <2> HIDE DEF result
  <2> QED
    BY <1>1, <1>3
<1>8. W \in SUBSET KcEvents /\ IsFiniteSet(W)
  BY <1>2, FS_Subset DEF Window, KcHistory
<1>9. ASSUME NEW e \in W PROVE PlaceIn(W, e) \in Nat
  <2> HIDE DEF W
  <2>1. Cardinality({d \in W : Newer(d, e)}) \in Nat
    BY <1>8, FS_Subset, FS_CardinalityType
  <2> QED
    BY <2>1 DEF PlaceIn
<1>10. ASSUME NEW e \in poll.had \cap W, e \notin poll.got, e \notin result
       PROVE  poll'.page <= MaxPages /\ poll'.page * PageSize <= PlaceIn(W, e)
  <2>1. first + PageSize <= PlaceIn(W, e)
    <3> HIDE DEF first, W
    <3> QED
      BY <1>3, <1>4, <1>6, <1>9, <1>10
  <2>2. PageSize <= Cardinality(result) /\ Cardinality(result) \in Nat
    <3>1. happened \in [KcEvents -> Int] /\ committed \subseteq KcEvents /\ IsFiniteSet(committed)
      BY <1>2 DEF KcHistory
    <3> HIDE DEF first
    <3> QED
      BY <1>4, <2>1, <3>1, PageFull
  <2>3. poll'.page = poll.page + 1
    BY <1>4, <1>7, <2>2
  <2> HIDE DEF first, result, W
  <2> QED
    BY <1>1, <1>4, <1>5, <2>1, <2>3
<1>11. poll' \in [on : BOOLEAN, to : Nat, page : Nat, got : SUBSET KcEvents, had : SUBSET KcEvents]
  <2> DEFINE next == IF Cardinality(result) < PageSize THEN MaxPages + 1 ELSE poll.page + 1
  <2>1. poll.got \cup result \in SUBSET KcEvents
    BY <1>3, <1>6, <1>8
  <2>2. next \in Nat
    BY <1>4
  <2>3. poll' = [poll EXCEPT !.got = poll.got \cup result, !.page = next]
    BY <1>1
  <2> HIDE DEF result, next
  <2> QED
    BY <1>3, <2>1, <2>2, <2>3
<1>12. W' = W /\ \A e : PlaceIn(W, e)' = PlaceIn(W, e)
  <2>1. W' = W
    BY <1>1, <1>7 DEF Window
  <2> QED
    BY <1>1, <2>1 DEF PlaceIn, Newer
<1>13. Paging'
  <2>1. poll'.page <= MaxPages + 1 /\ poll'.got \subseteq W
    BY <1>1, <1>3, <1>4, <1>6, <1>7
  <2>2. \A e \in poll'.had \cap W :
          e \in poll'.got \/ (poll'.page <= MaxPages /\ poll'.page * PageSize <= PlaceIn(W, e))
    BY <1>7, <1>10
  <2>3. /\ undelivered' = <<>> /\ kcRead' # KcNone /\ kcRead'.t <= poll'.to /\ poll'.to <= kcTime'
        /\ poll'.had \subseteq inTime' /\ \A e \in inTime' \ poll'.had : poll'.to <= happened'[e]
    BY <1>1, <1>2, <1>7 DEF Paging
  <2> HIDE DEF W
  <2> QED
    BY <1>11, <1>12, <2>1, <2>2, <2>3 DEF Paging, W
<1>14. ASSUME NEW k \in 0..Len(undelivered) + 1 PROVE KcSettled(k, KcCursorAt(k))'
  <2>1. KcCursorAt(k)' = KcCursorAt(k)
    BY <1>1 DEF KcCursorAt
  <2>2. KcSettled(k, KcCursorAt(k))
    BY DEF KcInv
  <2> QED
    BY <1>1, <2>1, <2>2 DEF KcSettled, Covers
<1>15. KcHistory'
  BY <1>1, <1>2 DEF KcHistory, Covers
<1> QED
  BY <1>1, <1>13, <1>14, <1>15 DEF KcInv

\* A poll ends without a result.
LEMMA EndKeeps == ASSUME KcInv, FetchFails \/ GiveUp PROVE KcInv'
<1>1. /\ poll' = NoPoll
      /\ UNCHANGED <<kcTime, happened, committed, kcRead, kcStored, undelivered, kcTimes, inTime, before>>
  BY DEF FetchFails, GiveUp, keycloak
<1>2. KcHistory' /\ Paging'
  BY <1>1 DEF KcInv, KcHistory, Paging, Covers, NoPoll
<1>3. ASSUME NEW k \in 0..Len(undelivered) + 1 PROVE KcSettled(k, KcCursorAt(k))'
  <2>1. KcCursorAt(k)' = KcCursorAt(k)
    BY <1>1 DEF KcCursorAt
  <2>2. KcSettled(k, KcCursorAt(k))
    BY DEF KcInv
  <2> QED
    BY <1>1, <2>1, <2>2 DEF KcSettled, Covers
<1> QED
  BY <1>1, <1>2, <1>3 DEF KcInv

\* The batches of a poll that has all its pages.
LEMMA FinishKeeps == ASSUME KcInv, FinishPoll PROVE KcInv'
<1> DEFINE fresh == {e \in poll.got : happened[e] > kcRead.t \/ e \notin kcRead.prints}
           made == Chunks(fresh, kcRead)
           W == Window(kcRead.t, poll.to)
<1>1. /\ poll.on /\ poll.page >= MaxPages /\ poll.page # MaxPages
      /\ undelivered' = made
      /\ kcRead' = IF made = <<>> THEN kcRead ELSE made[Len(made)].cursor
      /\ before' = {e \in poll.had : happened[e] <= poll.to}
      /\ poll' = NoPoll
      /\ UNCHANGED <<kcTime, happened, committed, kcStored, kcTimes, inTime>>
  BY DEF FinishPoll, TooManyPages, keycloak
<1>2. KcHistory /\ Paging /\ KcSettled(0, kcStored) /\ KcSettled(1, kcRead) /\ undelivered = <<>>
  <2>1. undelivered = <<>>
    BY <1>1 DEF KcInv, Paging
  <2> QED
    BY <2>1, ReadSettled, EmptySeq DEF KcInv
<1>3. kcRead \in KcCursor /\ kcRead.t \in Int /\ kcRead.t <= poll.to /\ poll.to \in Nat /\ poll.to <= kcTime /\ kcTime \in Nat
  BY <1>1, <1>2 DEF KcHistory, KcSettled, KcCursor, Paging
<1>4. \A e \in committed : e \in KcEvents /\ happened[e] \in 0..kcTime
  BY <1>2 DEF KcHistory
<1>5. \A e \in fresh : /\ e \in committed /\ ~ Covers(kcRead, e)
                       /\ kcRead.t <= happened[e] /\ happened[e] <= poll.to
  <2>1. \A e \in fresh : e \in W /\ (happened[e] > kcRead.t \/ e \notin kcRead.prints)
    BY <1>1, <1>2 DEF Paging
  <2> HIDE DEF fresh
  <2> QED
    BY <1>3, <1>4, <2>1 DEF Covers, Window
<1>6. ASSUME NEW e \in inTime, happened[e] <= poll.to, ~ Covers(kcRead, e), e \in poll.had PROVE e \in fresh
  <2>1. e \in committed /\ kcRead.t <= happened[e] /\ (happened[e] > kcRead.t \/ e \notin kcRead.prints)
    BY <1>2, <1>3, <1>4, <1>6 DEF KcHistory, Covers
  <2>2. e \in W
    BY <1>6, <2>1 DEF Window
  <2>3. poll.page \in Nat /\ MaxPages \in Nat
    BY <1>1, <1>2, KeycloakAssumption DEF Paging
  <2>4. e \in poll.got
    BY <1>1, <1>2, <1>6, <2>2, <2>3 DEF Paging
  <2> QED
    BY <2>1, <2>4
<1> HIDE DEF fresh, W
<1>7. Batched(made, fresh, kcRead)
  <2>1. fresh \in SUBSET KcEvents /\ \A e \in fresh : happened[e] \in 0..kcTime
    BY <1>4, <1>5
  <2> HIDE DEF made
  <2>2. made = Chunks(fresh, kcRead)
    BY DEF made
  <2> QED
    BY <1>3, <2>1, <2>2, ChunksMade
<1> HIDE DEF made
<1>8. Len(made) \in Nat /\ DOMAIN made = 1..Len(made) /\ (made = <<>> <=> Len(made) = 0)
  BY <1>7, LenProperties, EmptySeq DEF Batched
<1>9. ASSUME NEW n \in DOMAIN made
      PROVE  /\ made[n].cursor \in KcCursor /\ made[n].cursor.t \in Int
             /\ kcRead.t <= made[n].cursor.t /\ made[n].cursor.t <= poll.to
             /\ made[n].cursor.prints \subseteq committed
             /\ \A e \in made[n].events : e \in committed
  <2>1. made[n] \in KcBatch
    BY <1>7, <1>8, ElementOfSeq DEF Batched
  <2>2. PICK d \in made[n].events : happened[d] = made[n].cursor.t
    BY <1>7 DEF Batched
  <2>3. d \in fresh
    BY <1>7 DEF Batched
  <2>4. \A e \in made[n].events : e \in committed
    BY <1>5, <1>7 DEF Batched
  <2>5. made[n].cursor.prints \subseteq committed
    BY <1>2, <1>7, <2>4 DEF KcSettled, Batched
  <2> QED
    BY <1>5, <2>1, <2>2, <2>3, <2>4, <2>5 DEF KcBatch, KcCursor
<1>10. ASSUME NEW n \in DOMAIN made, NEW e \in committed, Covers(kcRead, e) PROVE Covers(made[n].cursor, e)
  <2>1. happened[e] \in Int
    BY <1>4
  <2>2. CASE kcRead.t < made[n].cursor.t
    BY <1>3, <1>9, <1>10, <2>1, <2>2 DEF Covers
  <2>3. CASE kcRead.t = made[n].cursor.t
    <3>1. kcRead.prints \subseteq made[n].cursor.prints
      BY <1>7, <2>3 DEF Batched
    <3> QED
      BY <1>10, <2>3, <3>1 DEF Covers
  <2> QED
    BY <1>3, <1>9, <2>2, <2>3
<1>11. ASSUME NEW m \in DOMAIN made, NEW n \in DOMAIN made, m < n
       PROVE  /\ made[m].cursor.t < made[n].cursor.t
              /\ \A e \in made[m].events : happened[e] < made[n].cursor.t
              /\ \A e \in made[n].events : made[m].cursor.t < happened[e]
  <2>1. PICK d \in made[m].events : happened[d] = made[m].cursor.t
    BY <1>7 DEF Batched
  <2>2. PICK e \in made[n].events : happened[e] = made[n].cursor.t
    BY <1>7 DEF Batched
  <2>3. \A a \in made[m].events, b \in made[n].events : happened[a] < happened[b]
    BY <1>7, <1>11 DEF Batched
  <2> QED
    BY <2>1, <2>2, <2>3
<1>12. ASSUME NEW m \in DOMAIN made, NEW n \in DOMAIN made, m <= n, NEW e \in made[m].events
       PROVE  Covers(made[n].cursor, e)
  <2>1. e \in committed /\ happened[e] \in Int /\ made[n].cursor.t \in Int
    BY <1>4, <1>9
  <2>2. CASE m = n
    <3>1. happened[e] <= made[n].cursor.t /\ (happened[e] = made[n].cursor.t => e \in made[n].cursor.prints)
      BY <1>7, <2>2 DEF Batched
    <3> QED
      BY <2>1, <3>1 DEF Covers
  <2>3. CASE m < n
    BY <1>11, <2>1, <2>3 DEF Covers
  <2> QED
    BY <1>8, <1>12, <2>2, <2>3
<1>13. ASSUME NEW n \in DOMAIN made, NEW e \in inTime, Covers(made[n].cursor, e), ~ Covers(kcRead, e)
       PROVE  \E j \in DOMAIN made : j <= n /\ e \in made[j].events
  <2>1. e \in committed /\ happened[e] \in Int /\ happened[e] <= made[n].cursor.t /\ happened[e] <= poll.to
    <3>1. e \in committed /\ happened[e] \in Int
      BY <1>2, <1>4 DEF KcHistory
    <3> QED
      BY <1>3, <1>9, <1>13, <3>1 DEF Covers
  <2>2. CASE e \in poll.had
    <3>1. PICK j \in DOMAIN made : e \in made[j].events
      BY <1>6, <1>7, <1>13, <2>1, <2>2 DEF Batched
    <3>2. ~ (n < j)
      BY <1>9, <1>11, <2>1, <3>1
    <3> QED
      BY <1>8, <3>1, <3>2
  <2>3. CASE e \notin poll.had
    <3>1. poll.to <= happened[e]
      BY <1>1, <1>2, <2>3 DEF Paging
    <3>2. happened[e] = made[n].cursor.t
      BY <1>3, <1>9, <2>1, <3>1
    <3>3. e \in made[n].cursor.prints
      BY <1>9, <1>13, <3>2 DEF Covers
    <3>4. e \in made[n].events
      BY <1>7, <1>13, <2>1, <3>2, <3>3 DEF Covers, Batched
    <3> QED
      BY <1>8, <3>4
  <2> QED
    BY <2>2, <2>3
<1>14. \A e \in KcEvents : kcTimes[e] = 1 => Covers(kcRead, e) /\ e \in committed
  BY <1>2 DEF KcSettled, Covers
<1>15. \A e \in inTime : Covers(kcRead, e) => kcTimes[e] = 1
  BY <1>2, EmptySeq DEF KcSettled
<1>16. ASSUME made # <<>>
       PROVE  /\ Len(made) \in DOMAIN made /\ kcRead' = made[Len(made)].cursor
              /\ \A n \in DOMAIN made : made[n].cursor.t <= kcRead'.t
  <2>1. Len(made) \in DOMAIN made /\ kcRead' = made[Len(made)].cursor
    BY <1>1, <1>8, <1>16
  <2>2. ASSUME NEW n \in DOMAIN made PROVE made[n].cursor.t <= made[Len(made)].cursor.t
    BY <1>8, <1>9, <1>11, <2>1
  <2> QED
    BY <2>1, <2>2
<1>17. kcRead'.t \in Int /\ kcRead.t <= kcRead'.t
  <2>1. CASE made = <<>>
    BY <1>1, <1>3, <2>1
  <2>2. CASE made # <<>>
    BY <1>3, <1>9, <1>16, <2>2
  <2> QED
    BY <2>1, <2>2
<1>18. KcHistory'
  <2>1. \A j \in DOMAIN made : \A e \in made[j].events : e \in committed /\ kcTimes[e] = 0
    <3> SUFFICES ASSUME NEW j \in DOMAIN made, NEW e \in made[j].events PROVE e \in committed /\ kcTimes[e] = 0
      OBVIOUS
    <3>1. e \in fresh
      BY <1>7 DEF Batched
    <3>2. e \in committed /\ e \in KcEvents /\ ~ Covers(kcRead, e)
      BY <1>4, <1>5, <3>1
    <3> QED
      BY <1>2, <1>14, <3>2 DEF KcHistory
  <2>2. \A j, k \in DOMAIN made : j < k => made[j].events \cap made[k].events = {}
    <3> SUFFICES ASSUME NEW j \in DOMAIN made, NEW k \in DOMAIN made, j < k,
                        NEW e \in made[j].events, e \in made[k].events PROVE FALSE
      OBVIOUS
    <3>1. happened[e] < happened[e] /\ happened[e] \in Int
      BY <1>4, <1>7, <2>1 DEF Batched
    <3> QED
      BY <3>1
  <2>3. ASSUME NEW e \in poll.had, happened[e] <= poll.to PROVE Covers(kcRead, e)'
    <3>1. e \in inTime /\ e \in committed
      BY <1>1, <1>2 DEF KcHistory, Paging
    <3>2. CASE made = <<>>
      <4>1. Covers(kcRead, e)
        BY <1>6, <1>7, <1>8, <2>3, <3>1, <3>2 DEF Batched
      <4> QED
        BY <1>1, <3>2, <4>1 DEF Covers
    <3>3. CASE made # <<>>
      <4>1. Covers(made[Len(made)].cursor, e)
        <5>1. CASE Covers(kcRead, e)
          BY <1>10, <1>16, <3>1, <3>3, <5>1
        <5>2. CASE ~ Covers(kcRead, e)
          <6>1. PICK j \in DOMAIN made : e \in made[j].events
            BY <1>6, <1>7, <2>3, <3>1, <5>2 DEF Batched
          <6>2. j <= Len(made)
            BY <1>8
          <6> QED
            BY <1>12, <1>16, <3>3, <6>1, <6>2
        <5> QED
          BY <5>1, <5>2
      <4> QED
        BY <1>1, <1>16, <3>3, <4>1 DEF Covers
    <3> QED
      BY <3>2, <3>3
  <2>4. poll.had \subseteq inTime /\ (kcRead' = KcNone => inTime = {})
    <3>1. kcRead' # KcNone
      <4>1. CASE made = <<>>
        BY <1>1, <1>2, <4>1 DEF Paging
      <4>2. CASE made # <<>>
        <5>1. PICK e \in made[Len(made)].events : happened[e] = kcRead'.t
          BY <1>7, <1>16, <4>2 DEF Batched
        <5>2. happened[e] \in Nat
          BY <1>4, <1>9, <1>16, <4>2
        <5> QED
          BY <5>1, <5>2 DEF KcNone
      <4> QED
        BY <4>1, <4>2
    <3> QED
      BY <1>1, <1>2, <3>1 DEF Paging
  <2>5. before' \subseteq inTime' /\ \A e \in before' : Covers(kcRead, e)'
    BY <1>1, <2>3, <2>4
  <2> QED
    BY <1>1, <1>2, <1>7, <2>1, <2>2, <2>4, <2>5 DEF KcHistory, Batched
<1>19. Paging'
  BY <1>1 DEF Paging, NoPoll
<1>20. ASSUME NEW k \in Nat, NEW c, c \in KcCursor, c.prints \subseteq committed, c.t <= kcRead'.t, c.t <= kcTime,
              \A e \in KcEvents : kcTimes[e] = 1 => Covers(c, e),
              \A e \in inTime : Covers(c, e) => kcTimes[e] = 1 \/ \E j \in DOMAIN made : j <= k /\ e \in made[j].events,
              \A j \in DOMAIN made : j <= k => \A e \in made[j].events : Covers(c, e),
              KcCursorAt(k)' = c
       PROVE  KcSettled(k, KcCursorAt(k))'
  <2>1. KcSettled(k, c)'
    BY <1>1, <1>20 DEF KcSettled, Covers, KcCursor
  <2> QED
    BY <1>20, <2>1 DEF KcSettled, Covers
<1>21. ASSUME NEW k \in 0..Len(undelivered)' + 1 PROVE KcSettled(k, KcCursorAt(k))'
  <2>1. k \in Nat /\ k <= Len(made) + 1
    BY <1>1, <1>8
  <2>2. CASE k = 0
    <3>1. PICK c : c = kcStored
      OBVIOUS
    <3>2. KcCursorAt(k)' = c
      BY <1>1, <2>2, <3>1 DEF KcCursorAt
    <3>3. KcSettled(0, c) /\ c \in KcCursor /\ c.t \in Int
      BY <1>2, <3>1 DEF KcSettled, KcCursor
    <3>4. c.t <= kcRead'.t /\ c.prints \subseteq committed /\ c.t <= kcTime
      BY <1>3, <1>17, <3>3 DEF KcSettled
    <3>5. \A e \in inTime : Covers(c, e) => kcTimes[e] = 1
      BY <1>2, <3>3, EmptySeq DEF KcSettled
    <3>6. \A j \in DOMAIN made : ~ (j <= k)
      BY <1>8, <2>2
    <3>7. \A e \in KcEvents : kcTimes[e] = 1 => Covers(c, e)
      BY <3>3 DEF KcSettled
    <3> QED
      BY <1>20, <2>1, <3>2, <3>3, <3>4, <3>5, <3>6, <3>7
  <2>3. ASSUME NEW n \in DOMAIN made, n = k \/ (k = Len(made) + 1 /\ n = Len(made)), KcCursorAt(k)' = made[n].cursor
        PROVE  KcSettled(k, KcCursorAt(k))'
    <3>1. PICK c : c = made[n].cursor
      OBVIOUS
    <3>2. n \in Nat /\ \A j \in DOMAIN made : j <= k <=> j <= n
      BY <1>8, <2>3
    <3>3. c \in KcCursor /\ c.prints \subseteq committed /\ c.t <= kcTime
      BY <1>3, <1>9, <3>1
    <3>4. c.t <= kcRead'.t
      BY <1>8, <1>16, <3>1
    <3>5. \A e \in KcEvents : kcTimes[e] = 1 => Covers(c, e)
      BY <1>10, <1>14, <3>1
    <3>6. ASSUME NEW e \in inTime, Covers(c, e) PROVE kcTimes[e] = 1 \/ \E j \in DOMAIN made : j <= k /\ e \in made[j].events
      BY <1>13, <1>15, <3>1, <3>2, <3>6
    <3>7. \A j \in DOMAIN made : j <= k => \A e \in made[j].events : Covers(c, e)
      BY <1>12, <3>1, <3>2
    <3> QED
      BY <1>20, <2>1, <2>3, <3>1, <3>3, <3>4, <3>5, <3>6, <3>7
  <2>4. CASE k \in DOMAIN made
    <3>1. KcCursorAt(k)' = made[k].cursor
      BY <1>1, <1>8, <2>4 DEF KcCursorAt
    <3> QED
      BY <2>3, <2>4, <3>1
  <2>5. CASE k = Len(made) + 1 /\ made # <<>>
    <3>1. KcCursorAt(k)' = kcRead'
      BY <1>1, <1>8, <2>5 DEF KcCursorAt
    <3> QED
      BY <1>16, <2>3, <2>5, <3>1
  <2>6. CASE k = Len(made) + 1 /\ made = <<>>
    <3>1. PICK c : c = kcRead
      OBVIOUS
    <3>2. KcCursorAt(k)' = c /\ kcRead' = c
      BY <1>1, <1>8, <2>6, <3>1 DEF KcCursorAt
    <3>3. KcSettled(1, c)
      BY <1>2, <3>1
    <3>4. c \in KcCursor /\ c.prints \subseteq committed /\ c.t <= kcTime /\ c.t <= kcRead'.t
      BY <1>3, <3>1, <3>2, <3>3 DEF KcSettled
    <3>5. (\A e \in KcEvents : kcTimes[e] = 1 => Covers(c, e)) /\ \A e \in inTime : Covers(c, e) => kcTimes[e] = 1
      BY <1>14, <1>15, <3>1
    <3>6. DOMAIN made = {}
      BY <1>8, <2>6
    <3> QED
      BY <1>20, <2>1, <3>2, <3>4, <3>5, <3>6
  <2> QED
    BY <1>8, <2>1, <2>2, <2>4, <2>5, <2>6
<1> QED
  BY <1>18, <1>19, <1>21 DEF KcInv

\* The first batch in hand is stored, with its cursor.
LEMMA StoreKeeps == ASSUME KcInv, StoreBatch PROVE KcInv'
<1> DEFINE b == Head(undelivered)
           N == Len(undelivered)
<1>1. /\ undelivered # <<>> /\ kcTimes' = [e \in KcEvents |-> kcTimes[e] + IF e \in b.events THEN 1 ELSE 0]
      /\ kcStored' = b.cursor /\ undelivered' = Tail(undelivered)
      /\ UNCHANGED <<kcTime, happened, committed, kcRead, poll, inTime, before>>
  BY DEF StoreBatch, keycloak
<1>2. KcHistory /\ Paging /\ \A k \in 0..N + 1 : KcSettled(k, KcCursorAt(k))
  BY DEF KcInv
<1>3. /\ N \in Nat /\ 1 <= N /\ DOMAIN undelivered = 1..N /\ b = undelivered[1]
      /\ undelivered' \in Seq(KcBatch) /\ Len(undelivered') = N - 1 /\ DOMAIN undelivered' = 1..N - 1
      /\ \A j \in 1..N - 1 : undelivered'[j] = undelivered[j + 1]
  <2>1. undelivered \in Seq(KcBatch)
    BY <1>2 DEF KcHistory
  <2>2. N \in Nat /\ 1 <= N /\ DOMAIN undelivered = 1..N
    BY <1>1, <2>1, LenProperties, EmptySeq
  <2> QED
    BY <1>1, <2>1, <2>2, HeadTailProperties, LenProperties
<1>4. \A e \in b.events : e \in committed /\ e \in KcEvents /\ kcTimes[e] = 0
  BY <1>2, <1>3 DEF KcHistory
<1> HIDE DEF b, N
<1>5. \A e \in KcEvents : kcTimes'[e] = (IF e \in b.events THEN 1 ELSE kcTimes[e]) /\ kcTimes[e] \in {0, 1}
  BY <1>1, <1>2, <1>4 DEF KcHistory
<1>6. ASSUME NEW j \in 1..N - 1, NEW e \in undelivered'[j].events
      PROVE  e \in committed /\ kcTimes'[e] = 0
  <2>1. j + 1 \in DOMAIN undelivered /\ 1 \in DOMAIN undelivered /\ 1 < j + 1 /\ e \in undelivered[j + 1].events
    BY <1>3, <1>6
  <2>2. e \in committed /\ e \in KcEvents /\ kcTimes[e] = 0
    BY <1>2, <2>1 DEF KcHistory
  <2>3. undelivered[1].events \cap undelivered[j + 1].events = {}
    BY <1>2, <2>1 DEF KcHistory
  <2>4. e \notin b.events
    BY <1>3, <2>1, <2>3
  <2> QED
    BY <1>5, <2>2, <2>4
<1>7. KcHistory'
  <2>1. kcTimes' \in [KcEvents -> {0, 1}]
    <3>1. \A e \in KcEvents : kcTimes'[e] \in {0, 1}
      BY <1>5
    <3> QED
      BY <1>1, <3>1
  <2>2. \A j \in DOMAIN undelivered' : \A e \in undelivered'[j].events : e \in committed /\ kcTimes'[e] = 0
    BY <1>3, <1>6
  <2>3. \A j, k \in DOMAIN undelivered' : j < k => undelivered'[j].events \cap undelivered'[k].events = {}
    <3> SUFFICES ASSUME NEW j \in DOMAIN undelivered', NEW k \in DOMAIN undelivered', j < k
                 PROVE  undelivered'[j].events \cap undelivered'[k].events = {}
      OBVIOUS
    <3>1. /\ j + 1 \in DOMAIN undelivered /\ k + 1 \in DOMAIN undelivered /\ j + 1 < k + 1
          /\ undelivered'[j] = undelivered[j + 1] /\ undelivered'[k] = undelivered[k + 1]
      BY <1>3
    <3> QED
      BY <1>2, <3>1 DEF KcHistory
  <2>4. \A e \in before' : Covers(kcRead, e)'
    BY <1>1, <1>2 DEF KcHistory, Covers
  <2>5. inTime' \subseteq committed' /\ before' \subseteq inTime' /\ (kcRead' = KcNone => inTime' = {})
    BY <1>1, <1>2 DEF KcHistory
  <2>6. /\ kcTime' \in Nat /\ committed' \subseteq KcEvents /\ IsFiniteSet(committed')
        /\ happened' \in [KcEvents -> -1..kcTime'] /\ \A e \in committed' : happened'[e] # -1
    BY <1>1, <1>2 DEF KcHistory
  <2>7. \A j \in DOMAIN undelivered' : \A e \in undelivered'[j].events : e \in committed' /\ kcTimes'[e] = 0
    BY <1>1, <2>2
  <2> QED
    BY <1>3, <2>1, <2>3, <2>4, <2>5, <2>6, <2>7 DEF KcHistory, KcBatch, KcCursor
<1>8. Paging'
  BY <1>1, <1>2 DEF Paging
<1>9. ASSUME NEW k \in 0..Len(undelivered)' + 1 PROVE KcSettled(k, KcCursorAt(k))'
  <2>1. k \in Nat /\ k <= N /\ k + 1 \in 0..N + 1
    BY <1>3
  <2>2. PICK c : c = KcCursorAt(k + 1)
    OBVIOUS
  <2>3. KcCursorAt(k)' = c
    <3>1. CASE k = 0
      BY <1>1, <1>3, <2>2, <3>1 DEF KcCursorAt
    <3>2. CASE k \in 1..N - 1
      BY <1>3, <2>1, <2>2, <3>2 DEF KcCursorAt
    <3>3. CASE k = N
      BY <1>1, <1>3, <2>1, <2>2, <3>3 DEF KcCursorAt
    <3> QED
      BY <1>3, <2>1, <3>1, <3>2, <3>3
  <2>4. KcSettled(k + 1, c)
    BY <1>2, <2>1, <2>2
  <2>5. KcSettled(k, c)'
    <3>1. c \in KcCursor' /\ (c.prints \subseteq committed)' /\ c.t <= kcRead'.t /\ c.t <= kcTime'
      BY <1>1, <2>4 DEF KcSettled, KcCursor
    <3>2. \A e \in KcEvents : Covers(c, e)' <=> Covers(c, e)
      BY <1>1 DEF Covers
    <3>3. ASSUME NEW j \in DOMAIN undelivered, j <= k + 1, NEW e \in undelivered[j].events PROVE Covers(c, e)
      BY <2>4, <3>3 DEF KcSettled
    <3>4. ASSUME NEW e \in KcEvents, kcTimes'[e] = 1 PROVE Covers(c, e)'
      <4>1. CASE e \in b.events
        BY <1>3, <2>1, <3>2, <3>3, <4>1
      <4>2. CASE e \notin b.events
        BY <1>5, <2>4, <3>2, <3>4, <4>2 DEF KcSettled
      <4> QED
        BY <4>1, <4>2
    <3>5. ASSUME NEW e \in inTime', Covers(c, e)'
          PROVE  kcTimes'[e] = 1 \/ \E j \in DOMAIN undelivered' : j <= k /\ e \in undelivered'[j].events
      <4>1. e \in inTime /\ e \in KcEvents /\ Covers(c, e)
        BY <1>1, <1>2, <3>2, <3>5 DEF KcHistory
      <4>2. CASE kcTimes[e] = 1
        BY <1>5, <4>1, <4>2
      <4>3. CASE \E j \in DOMAIN undelivered : j <= k + 1 /\ e \in undelivered[j].events
        <5>1. PICK j \in 1..N : j <= k + 1 /\ e \in undelivered[j].events
          BY <1>3, <4>3
        <5>2. CASE j = 1
          BY <1>3, <1>5, <4>1, <5>1, <5>2
        <5>3. CASE j # 1
          <6>1. j - 1 \in 1..N - 1 /\ (j - 1) + 1 = j /\ j - 1 <= k
            BY <1>3, <2>1, <5>1, <5>3
          <6>2. e \in undelivered'[j - 1].events
            BY <1>3, <5>1, <6>1
          <6> QED
            BY <1>3, <6>1, <6>2
        <5> QED
          BY <5>2, <5>3
      <4> QED
        BY <2>4, <4>1, <4>2, <4>3 DEF KcSettled
    <3>6. ASSUME NEW j \in DOMAIN undelivered', j <= k, NEW e \in undelivered'[j].events PROVE Covers(c, e)'
      <4>1. j \in 1..N - 1 /\ j + 1 \in DOMAIN undelivered /\ j + 1 <= k + 1 /\ e \in undelivered[j + 1].events
        BY <1>3, <2>1, <3>6
      <4> QED
        BY <1>2, <3>2, <3>3, <4>1 DEF KcHistory
    <3> QED
      BY <3>1, <3>4, <3>5, <3>6 DEF KcSettled
  <2> QED
    BY <2>3, <2>5 DEF KcSettled, Covers
<1> QED
  BY <1>7, <1>8, <1>9 DEF KcInv

\* The agent starts again from the checkpoint.
LEMMA KcCrashKeeps == ASSUME KcInv, KcCrash PROVE KcInv'
<1>1. /\ kcRead' = kcStored /\ poll' = NoPoll /\ undelivered' = <<>>
      /\ inTime' = (IF kcStored = KcNone THEN {} ELSE inTime)
      /\ before' = {e \in before : kcTimes[e] > 0}
      /\ UNCHANGED <<kcTime, happened, committed, kcStored, kcTimes>>
  BY DEF KcCrash, keycloak
<1>2. KcHistory /\ KcSettled(0, kcStored)
  BY ReadSettled DEF KcInv
<1>3. inTime' \subseteq inTime
  BY <1>1
<1>4. \A e \in before' : e \in inTime /\ e \in committed /\ kcTimes[e] = 1 /\ Covers(kcStored, e)
  <2> SUFFICES ASSUME NEW e \in before' PROVE e \in inTime /\ e \in committed /\ kcTimes[e] = 1 /\ Covers(kcStored, e)
    OBVIOUS
  <2>1. e \in before /\ kcTimes[e] > 0
    BY <1>1
  <2>2. e \in inTime /\ e \in committed /\ e \in KcEvents
    BY <1>2, <2>1 DEF KcHistory
  <2>3. kcTimes[e] = 1
    BY <1>2, <2>1, <2>2 DEF KcHistory
  <2> QED
    BY <1>2, <2>2, <2>3 DEF KcSettled
<1>5. ASSUME kcStored = KcNone PROVE before' = {}
  <2>1. ASSUME NEW e \in before' PROVE FALSE
    <3>1. happened[e] \in Int /\ -1 < happened[e]
      BY <1>2, <1>4 DEF KcHistory
    <3> QED
      BY <1>4, <1>5, <3>1 DEF Covers, KcNone
  <2> QED
    BY <2>1
<1>6. KcHistory'
  <2>1. undelivered' \in Seq(KcBatch) /\ DOMAIN undelivered' = {}
    BY <1>1, EmptySeq
  <2>2. before' \subseteq inTime'
    BY <1>1, <1>4, <1>5
  <2>3. \A e \in before' : Covers(kcRead, e)'
    BY <1>1, <1>4 DEF Covers
  <2>4. inTime' \subseteq committed'
    BY <1>1, <1>2, <1>3 DEF KcHistory
  <2> QED
    BY <1>1, <1>2, <2>1, <2>2, <2>3, <2>4 DEF KcHistory
<1>7. Paging'
  BY <1>1 DEF Paging, NoPoll
<1>8. ASSUME NEW k \in 0..Len(undelivered)' + 1 PROVE KcSettled(k, KcCursorAt(k))'
  <2>1. PICK c : c = kcStored
    OBVIOUS
  <2>2. DOMAIN undelivered' = {}
    BY <1>1
  <2>3. KcCursorAt(k)' = c /\ kcRead' = c
    BY <1>1, <2>1, <2>2 DEF KcCursorAt
  <2>4. KcSettled(0, c) /\ c.t \in Int
    BY <1>2, <2>1 DEF KcSettled, KcCursor
  <2>5. KcSettled(k, c)'
    <3>1. c \in KcCursor' /\ (c.prints \subseteq committed)' /\ c.t <= kcRead'.t /\ c.t <= kcTime'
      BY <1>1, <2>3, <2>4 DEF KcSettled, KcCursor
    <3>2. \A e \in KcEvents : Covers(c, e)' <=> Covers(c, e)
      BY <1>1 DEF Covers
    <3>3. \A e \in KcEvents : kcTimes'[e] = 1 => Covers(c, e)'
      BY <1>1, <2>4, <3>2 DEF KcSettled
    <3>4. ASSUME NEW e \in inTime', Covers(c, e)' PROVE kcTimes'[e] = 1
      <4>1. e \in inTime /\ e \in KcEvents /\ Covers(c, e)
        BY <1>2, <1>3, <3>2, <3>4 DEF KcHistory
      <4>2. ~ \E j \in DOMAIN undelivered : j <= 0
        BY ReadSettled
      <4> QED
        BY <1>1, <2>4, <4>1, <4>2 DEF KcSettled
    <3> QED
      BY <2>2, <3>1, <3>3, <3>4 DEF KcSettled
  <2> QED
    BY <2>3, <2>5 DEF KcSettled, Covers
<1> QED
  BY <1>6, <1>7, <1>8 DEF KcInv

\* However a poll's pages move while they are fetched, every cursor of
\* keycloak_events_plugin.py keeps its promise: what it covers is stored or in
\* the batches up to its own, what it does not cover is not stored, and what was
\* committed in time and is not covered has its page or its poll still to come.
THEOREM EventsInOrder == KeycloakSpec => []KcInv
<1>1. KcInv /\ KeycloakNext => KcInv'
  BY KcClockKeeps, HappenKeeps, CommitKeeps, StartKeeps, FetchKeeps, EndKeeps, FinishKeeps,
     StoreKeeps, KcCrashKeeps DEF KeycloakNext
<1>2. KcInv /\ UNCHANGED kcVars => KcInv'
  <2> SUFFICES ASSUME KcInv, UNCHANGED kcVars PROVE KcInv'
    OBVIOUS
  <2>1. UNCHANGED <<kcTime, happened, committed, kcRead, kcStored, poll, undelivered, kcTimes, inTime, before>>
    BY DEF kcVars
  <2>2. KcHistory'
    <3>1. \A e \in before' : Covers(kcRead, e)'
      BY <2>1 DEF KcInv, KcHistory, Covers
    <3> QED
      BY <2>1, <3>1 DEF KcInv, KcHistory
  <2>4. Paging'
    <3>1. Window(kcRead.t, poll.to)' = Window(kcRead.t, poll.to)
      BY <2>1 DEF Window
    <3>2. \A W, e : PlaceIn(W, e)' = PlaceIn(W', e')
      BY <2>1 DEF PlaceIn, Newer
    <3> QED
      BY <2>1, <3>1, <3>2 DEF KcInv, Paging, PlaceIn, Newer
  <2>3. ASSUME NEW k \in 0..Len(undelivered)' + 1 PROVE KcSettled(k, KcCursorAt(k))'
    <3>1. k \in 0..Len(undelivered) + 1
      BY <2>1
    <3>2. PICK c : c = KcCursorAt(k)
      OBVIOUS
    <3>3. KcCursorAt(k)' = c
      BY <2>1, <3>2 DEF KcCursorAt
    <3>4. KcSettled(k, c)
      BY <3>1, <3>2 DEF KcInv
    <3> QED
      BY <2>1, <3>3, <3>4 DEF KcSettled, Covers
  <2> QED
    BY <2>2, <2>3, <2>4 DEF KcInv
<1> QED
  BY KcStarts, <1>1, <1>2, PTL DEF KeycloakSpec

\* keycloak_events_plugin.py stores no event twice, and what had been committed
\* when a poll began, and before an earlier poll had asked for a later time, is
\* stored once that poll is done; for any number of events, any page size, batch
\* size and limit of pages, whatever fails.
THEOREM EventsAllCollected == KeycloakSpec => []EventsCollected
<1>1. KcInv => EventsCollected
  <2> SUFFICES ASSUME KcInv PROVE EventsCollected
    OBVIOUS
  <2>1. \A e \in KcEvents : kcTimes[e] <= 1
    BY DEF KcInv, KcHistory
  <2>2. ASSUME undelivered = <<>>, NEW e \in before PROVE kcTimes[e] = 1
    <3>1. KcSettled(1, kcRead) /\ DOMAIN undelivered = {}
      BY <2>2, ReadSettled
    <3>2. e \in inTime /\ Covers(kcRead, e)
      BY DEF KcInv, KcHistory
    <3> QED
      BY <3>1, <3>2 DEF KcSettled
  <2> QED
    BY <2>1, <2>2 DEF EventsCollected
<1> QED
  BY EventsInOrder, <1>1, PTL

-----------------------------------------------------------------------------
(* KubeCursor *)

KContainers == [pod : Nat, gen : Nat]
KLine == [t : Nat, h : Hashes, of : KContainers]
KCursor == [t : Nat, of : KContainers, hashes : [Hashes -> Nat]]
KBatch == [events : SUBSET Nat, of : SUBSET KContainers, cursor : KCursor]

OwedLine(i) == IsEvent(i) /\ log[i].t >= since

\* The log is in the order of time; the containers of a pod follow one another
\* in it, and no two containers share a time stamp.
LogOrdered ==
  /\ time \in Nat /\ log \in Seq(KLine) /\ gen \in [Pods -> Nat] /\ target \in Pods
  /\ \A i \in DOMAIN log :
       /\ log[i].t <= time /\ log[i].of.pod \in Pods
       /\ log[i].of.gen <= gen[log[i].of.pod]
       /\ log[i].t = time => log[i].of = Live(log[i].of.pod)
  /\ \A i, j \in DOMAIN log : i <= j =>
       /\ log[i].t <= log[j].t
       /\ log[i].t = log[j].t => log[i].of = log[j].of
       /\ log[i].of = Live(log[j].of.pod) => log[j].of = log[i].of

\* Of the first n lines, those with a time stamp and a hash.
Alike(n, t, h) == {i \in 1..n : log[i].t = t /\ log[i].h = h}

\* A cursor stands for a place in the log: it is what one reads off the lines up
\* to p.
Fits(c, p) ==
  /\ p \in 0..Len(log)
  /\ c = NoCursor => p = 0
  /\ c # NoCursor =>
       /\ c \in KCursor /\ c.t <= time /\ c.of.pod \in Pods /\ c.of.gen <= gen[c.of.pod]
       /\ \A i \in DOMAIN log :
            /\ i <= p => /\ log[i].t <= c.t
                         /\ log[i].t = c.t => log[i].of.pod = c.of.pod
                         /\ log[i].of = Live(c.of.pod) => c.of = log[i].of
            /\ p < i => /\ c.t <= log[i].t
                        /\ c.of = Live(log[i].of.pod) => log[i].of = c.of
       /\ \A h \in Hashes : c.hashes[h] = Cardinality(Alike(p, c.t, h))

\* The cursors there are: the checkpoint, those of the batches, the position.
KubeCursorAt(k) ==
  IF k = 0 THEN checkpoint ELSE IF k \in DOMAIN queue THEN queue[k].cursor ELSE position

\* A line is in the pod that a cursor is of.
InPod(c, i) == c # NoCursor /\ log[i].of.pod = c.of.pod

\* Nothing of its pod behind the place of a cursor is stored, or it was stored
\* before the plugin came back to the pod; what is owed before it is stored,
\* out of reach or in the batches up to the cursor's own.
KubeSettled(k, p) ==
  /\ Fits(KubeCursorAt(k), p)
  /\ \A i \in DOMAIN log : p < i /\ InPod(KubeCursorAt(k), i) => times[i] = 0 \/ i \in again
  /\ \A i \in DOMAIN log : i <= p /\ InPod(KubeCursorAt(k), i) /\ OwedLine(i) =>
       times[i] >= 1 \/ i \in unreadable \/ \E j \in DOMAIN queue : j <= k /\ i \in queue[j].events
  /\ \A j \in DOMAIN queue : j <= k => \A i \in queue[j].events : i <= p

KubeHistory ==
  /\ times \in Seq(Nat) /\ Len(times) = Len(log) /\ read \subseteq DOMAIN log
  /\ since \in Nat /\ since <= time
  /\ queue \in Seq(KBatch)
  /\ \A i \in DOMAIN log : times[i] <= 1 \/ i \in again
  /\ \A j \in DOMAIN queue : \A i \in queue[j].events :
       i \in DOMAIN log /\ (times[i] = 0 \/ i \in again)
  /\ \A j, k \in DOMAIN queue : j < k => queue[j].events \cap queue[k].events = {}
  /\ \A b \in stored : \A i \in b.events : i \in DOMAIN log /\ times[i] >= 1
  /\ position = NoCursor => checkpoint = NoCursor /\ queue = <<>>
  /\ \A i \in read : OwedLine(i) =>
       times[i] >= 1 \/ i \in unreadable \/ \E j \in DOMAIN queue : i \in queue[j].events

KubePlaces(f) ==
  /\ f \in [0..Len(queue) + 1 -> 0..Len(log)]
  /\ \A k \in 0..Len(queue) + 1 : KubeSettled(k, f[k])

KubeInv == LogOrdered /\ KubeHistory /\ \E f : KubePlaces(f)

\* What the log is made of.
LEMMA LogLines ==
  ASSUME LogOrdered
  PROVE  /\ Len(log) \in Nat /\ DOMAIN log = 1..Len(log)
         /\ \A i \in DOMAIN log : /\ i \in Nat /\ log[i] \in KLine
                                  /\ log[i].t \in Nat /\ log[i].h \in Hashes /\ log[i].of \in KContainers
<1>1. log \in Seq(KLine)
  BY DEF LogOrdered
<1>2. Len(log) \in Nat /\ DOMAIN log = 1..Len(log) /\ \A i \in DOMAIN log : log[i] \in KLine
  BY <1>1, LenProperties, ElementOfSeq
<1> QED
  BY <1>2 DEF KLine

\* The further one reads the more lines are alike.
LEMMA AlikeGrow ==
  ASSUME NEW n \in Nat, NEW t, NEW h
  PROVE  /\ IsFiniteSet(Alike(n, t, h)) /\ Cardinality(Alike(n, t, h)) \in Nat
         /\ \A m \in Nat : m <= n => Cardinality(Alike(m, t, h)) <= Cardinality(Alike(n, t, h))
         /\ \A m \in Nat : \A i \in Alike(n, t, h) : m < i =>
              Cardinality(Alike(m, t, h)) < Cardinality(Alike(n, t, h))
<1>1. ASSUME NEW m \in Nat PROVE IsFiniteSet(Alike(m, t, h)) /\ Cardinality(Alike(m, t, h)) \in Nat
  <2>1. Alike(m, t, h) \subseteq 1..m /\ IsFiniteSet(1..m)
    BY FS_Interval DEF Alike
  <2> QED
    BY <2>1, FS_Subset, FS_CardinalityType
<1>2. ASSUME NEW m \in Nat, m <= n PROVE Cardinality(Alike(m, t, h)) <= Cardinality(Alike(n, t, h))
  <2>1. Alike(m, t, h) \subseteq Alike(n, t, h)
    BY <1>2 DEF Alike
  <2> QED
    BY <1>1, <2>1, FS_Subset
<1>3. ASSUME NEW m \in Nat, NEW i \in Alike(n, t, h), m < i
      PROVE  Cardinality(Alike(m, t, h)) < Cardinality(Alike(n, t, h))
  <2>1. Alike(m, t, h) \subseteq Alike(n, t, h) /\ i \notin Alike(m, t, h)
    BY <1>3 DEF Alike
  <2>2. Cardinality(Alike(m, t, h)) <= Cardinality(Alike(n, t, h))
        /\ Cardinality(Alike(m, t, h)) # Cardinality(Alike(n, t, h))
    BY <1>1, <2>1, FS_Subset
  <2> QED
    BY <1>1, <2>2
<1> QED
  BY <1>1, <1>2, <1>3

\* A cursor leaves of a container's log what lies behind its place.
LEMMA BehindBoundary ==
  ASSUME LogOrdered, NEW c, NEW p, Fits(c, p), c # NoCursor, NEW x
  PROVE  AfterBoundary(ReadLogs(x, c.t), c) = {i \in DOMAIN log : p < i /\ log[i].of = x}
<1> DEFINE stream == ReadLogs(x, c.t)
           upTo(i) == {j \in stream : j <= i /\ log[j].t = c.t /\ log[j].h = log[i].h}
<1>1. c.t \in Nat /\ p \in 0..Len(log) /\ p \in Nat
  BY LogLines DEF Fits, KCursor
<1>2. \A i \in DOMAIN log : i \in Nat /\ log[i].t \in Nat /\ log[i].h \in Hashes
  BY LogLines
<1>10. Len(log) \in Nat /\ DOMAIN log = 1..Len(log)
  BY LogLines
<1>3. ASSUME NEW i \in stream, log[i].t = c.t PROVE upTo(i) = Alike(i, c.t, log[i].h)
  <2>1. i \in 1..Len(log) /\ log[i].of = x
    BY <1>10 DEF ReadLogs
  <2>2. \A j \in 1..i : j \in DOMAIN log /\ (log[j].t = c.t => log[j].of = x)
    <3>1. \A j \in 1..i : j \in DOMAIN log /\ i \in DOMAIN log /\ j <= i
      BY <1>10, <2>1
    <3> QED
      BY <1>3, <2>1, <3>1 DEF LogOrdered
  <2>3. \A j \in stream : j \in Nat /\ 1 <= j
    BY <1>10 DEF ReadLogs
  <2>4. \A j \in 1..i : log[j].t = c.t => j \in stream
    BY <1>1, <2>2 DEF ReadLogs
  <2>5. i \in Nat
    BY <1>10, <2>1
  <2> HIDE DEF stream
  <2>6. ASSUME NEW j PROVE j \in upTo(i) <=> j \in Alike(i, c.t, log[i].h)
    <3>1. j \in upTo(i) <=> j \in stream /\ j <= i /\ log[j].t = c.t /\ log[j].h = log[i].h
      OBVIOUS
    <3>2. j \in Alike(i, c.t, log[i].h) <=> j \in 1..i /\ log[j].t = c.t /\ log[j].h = log[i].h
      BY DEF Alike
    <3>3. j \in stream /\ j <= i => j \in 1..i
      BY <2>3, <2>5
    <3>4. j \in 1..i => j <= i
      BY <2>5
    <3> HIDE DEF upTo
    <3> QED
      BY <2>4, <3>1, <3>2, <3>3, <3>4, Zenon
  <2> HIDE DEF upTo
  <2> QED
    BY <2>6
<1>4. AfterBoundary(stream, c) = {i \in stream : log[i].t > c.t \/ (log[i].t = c.t /\ Cardinality(upTo(i)) > c.hashes[log[i].h])}
  BY DEF AfterBoundary
<1> HIDE DEF upTo
<1>5. ASSUME NEW i \in stream, log[i].t = c.t PROVE Cardinality(upTo(i)) > c.hashes[log[i].h] <=> p < i
  <2>1. i \in DOMAIN log /\ i \in Nat /\ log[i].h \in Hashes /\ 1 <= i
    BY <1>2, <1>10 DEF ReadLogs
  <2>2. PICK h : h = log[i].h
    OBVIOUS
  <2>3. c.hashes[h] = Cardinality(Alike(p, c.t, h)) /\ Cardinality(upTo(i)) = Cardinality(Alike(i, c.t, h))
    BY <1>3, <1>5, <2>1, <2>2 DEF Fits
  <2>4. i \in Alike(i, c.t, h)
    BY <1>5, <2>1, <2>2 DEF Alike
  <2>5. p < i => Cardinality(Alike(p, c.t, h)) < Cardinality(Alike(i, c.t, h))
    BY <1>1, <2>1, <2>4, AlikeGrow
  <2>6. i <= p => Cardinality(Alike(i, c.t, h)) <= Cardinality(Alike(p, c.t, h))
    BY <1>1, <2>1, AlikeGrow
  <2>7. Cardinality(Alike(i, c.t, h)) \in Nat /\ Cardinality(Alike(p, c.t, h)) \in Nat
    BY <1>1, <2>1, AlikeGrow
  <2> QED
    BY <1>1, <2>1, <2>2, <2>3, <2>5, <2>6, <2>7
<1>6. \A i \in DOMAIN log : i <= p => log[i].t <= c.t
  BY DEF Fits
<1>7. \A i \in DOMAIN log : p < i => c.t <= log[i].t
  BY DEF Fits
<1>8. \A i : i \in stream <=> i \in DOMAIN log /\ log[i].of = x /\ log[i].t >= c.t
  BY DEF ReadLogs
<1> HIDE DEF stream
<1>9. ASSUME NEW i PROVE i \in AfterBoundary(stream, c) <=> i \in DOMAIN log /\ p < i /\ log[i].of = x
  BY <1>1, <1>2, <1>4, <1>5, <1>6, <1>7, <1>8
<1> QED
  BY <1>9 DEF stream

\* Without lines and without cursors.
LEMMA KubeStarts == KubeInit => KubeInv
<1> SUFFICES ASSUME KubeInit PROVE KubeInv
  OBVIOUS
<1>1. /\ log = <<>> /\ gen = [x \in Pods |-> 0] /\ target = 1 /\ time = 0 /\ times = <<>> /\ read = {}
      /\ position = NoCursor /\ checkpoint = NoCursor /\ queue = <<>> /\ stored = {} /\ since = 0
  BY DEF KubeInit
<1>2. DOMAIN log = {} /\ Len(log) = 0 /\ DOMAIN queue = {} /\ Len(queue) = 0
  BY <1>1, EmptySeq
<1>3. LogOrdered
  <2>1. 1 \in Pods
    BY KubeAssumption DEF Pods
  <2> QED
    BY <1>1, <1>2, <2>1, EmptySeq DEF LogOrdered
<1>4. KubeHistory
  BY <1>1, <1>2, EmptySeq DEF KubeHistory
<1> DEFINE f == [k \in 0..1 |-> 0]
<1>5. KubePlaces(f)
  <2>1. \A k \in 0..1 : KubeSettled(k, 0)
    BY <1>1, <1>2 DEF KubeSettled, KubeCursorAt, Fits
  <2>2. f \in [0..Len(queue) + 1 -> 0..Len(log)]
    BY <1>2
  <2> QED
    BY <1>1, <1>2, <2>1, <2>2 DEF KubePlaces
<1> QED
  BY <1>3, <1>4, <1>5 DEF KubeInv

\* As long as the log only grows and the cursors keep their places, nothing is
\* lost.
LEMMA ClusterKeeps ==
  ASSUME KubeInv, LogOrdered', \A c, p : Fits(c, p) => Fits(c, p)',
         Len(log) <= Len(log'), \A i \in DOMAIN log : log'[i] = log[i] /\ times'[i] = times[i],
         times' \in Seq(Nat), Len(times') = Len(log'), time <= time',
         \A i \in DOMAIN log' : i > Len(log) => times'[i] = 0,
         UNCHANGED <<position, checkpoint, queue, read, unreadable, since, stored, again>>
  PROVE  KubeInv'
<1>1. /\ Len(log) \in Nat /\ DOMAIN log = 1..Len(log) /\ Len(log') \in Nat /\ DOMAIN log' = 1..Len(log')
      /\ time \in Nat /\ time' \in Nat
  <2>1. log' \in Seq(KLine) /\ log \in Seq(KLine) /\ time \in Nat /\ time' \in Nat
    BY DEF LogOrdered, KubeInv, KLine, KContainers
  <2> QED
    BY <2>1, LenProperties
<1>2. DOMAIN log \subseteq DOMAIN log' /\ \A i \in DOMAIN log' : i \in DOMAIN log \/ i > Len(log)
  BY <1>1
<1>3. \A i \in DOMAIN log : OwedLine(i)' <=> OwedLine(i)
  BY DEF OwedLine, IsEvent
<1>4. PICK f : KubePlaces(f)
  BY DEF KubeInv
<1>5. KubeHistory'
  <2>1. KubeHistory
    BY DEF KubeInv
  <2>2. \A j \in DOMAIN queue' : \A i \in queue'[j].events :
          i \in DOMAIN log' /\ (times'[i] = 0 \/ i \in again')
    BY <1>2, <2>1 DEF KubeHistory
  <2>3. read' \subseteq DOMAIN log' /\ queue' \in Seq(KBatch)
    BY <1>2, <2>1 DEF KubeHistory
  <2>4. since' \in Nat /\ since' <= time'
    BY <1>1, <2>1 DEF KubeHistory
  <2>5. \A i \in DOMAIN log' : times'[i] <= 1 \/ i \in again'
    BY <1>2, <2>1 DEF KubeHistory
  <2>6. \A b \in stored' : \A i \in b.events : i \in DOMAIN log' /\ times'[i] >= 1
    BY <1>2, <2>1 DEF KubeHistory
  <2>7. ASSUME NEW i \in read', OwedLine(i)'
        PROVE  \/ times'[i] >= 1 \/ i \in unreadable'
               \/ \E j \in DOMAIN queue' : i \in queue'[j].events
    <3>1. i \in read /\ i \in DOMAIN log
      BY <2>1, <2>7 DEF KubeHistory
    <3>2. OwedLine(i)
      BY <1>3, <2>7, <3>1
    <3> QED
      BY <2>1, <3>1, <3>2 DEF KubeHistory
  <2>8. \A j, k \in DOMAIN queue' : j < k => queue'[j].events \cap queue'[k].events = {}
    BY <2>1 DEF KubeHistory
  <2>9. position' = NoCursor => checkpoint' = NoCursor /\ queue' = <<>>
    BY <2>1 DEF KubeHistory
  <2> QED
    BY <2>2, <2>3, <2>4, <2>5, <2>6, <2>7, <2>8, <2>9 DEF KubeHistory, KBatch, KCursor, KContainers, NoCursor
<1>6. KubePlaces(f)'
  <2>1. Len(queue') = Len(queue) /\ f \in [0..Len(queue') + 1 -> 0..Len(log')]
    BY <1>1, <1>4 DEF KubePlaces
  <2>2. ASSUME NEW k \in 0..Len(queue) + 1 PROVE KubeSettled(k, f[k])'
    <3>1. PICK c, p : c = KubeCursorAt(k) /\ p = f[k]
      OBVIOUS
    <3>2. KubeSettled(k, p)
      BY <1>4, <3>1 DEF KubePlaces
    <3>3. Fits(c, p)' /\ KubeCursorAt(k)' = c
      BY <3>1, <3>2 DEF KubeSettled, KubeCursorAt
    <3>4. p \in 0..Len(log)
      BY <3>2 DEF KubeSettled, Fits
    <3>5. Fits(KubeCursorAt(k), p)'
      BY <3>3 DEF Fits, KCursor, KContainers, Alike, Live
    <3>6. \A i \in DOMAIN log : InPod(KubeCursorAt(k), i)' <=> InPod(c, i)
      BY <3>3 DEF InPod, NoCursor
    <3>7. \A i \in DOMAIN log' : p < i /\ InPod(KubeCursorAt(k), i)' => times'[i] = 0 \/ i \in again'
      BY <1>2, <3>1, <3>2, <3>6 DEF KubeSettled
    <3>8. \A i \in DOMAIN log' : i <= p /\ InPod(KubeCursorAt(k), i)' /\ OwedLine(i)' =>
            times'[i] >= 1 \/ i \in unreadable' \/ \E j \in DOMAIN queue' : j <= k /\ i \in queue'[j].events
      <4>1. \A i \in DOMAIN log' : i <= p => i \in DOMAIN log
        BY <1>1, <3>4
      <4> QED
        BY <1>3, <3>1, <3>2, <3>6, <4>1 DEF KubeSettled
    <3>9. KubeSettled(k, p)'
      BY <3>2, <3>5, <3>7, <3>8 DEF KubeSettled
    <3> QED
      BY <3>1, <3>9 DEF KubePlaces
  <2> QED
    BY <2>1, <2>2 DEF KubePlaces
<1> QED
  BY <1>5, <1>6 DEF KubeInv

\* A line is written at the end of the log.
LEMMA WriteLineKeeps == ASSUME KubeInv, NEW y \in Pods, WriteLine(y) PROVE KubeInv'
<1>1. PICK h \in Hashes, t \in {time, time + 1} \cap 0..MaxTime :
        /\ \A i \in DOMAIN log : log[i].t = t => log[i].of = Live(y)
        /\ log' = Append(log, [t |-> t, h |-> h, of |-> Live(y)]) /\ time' = t
  BY DEF WriteLine
<1>2. /\ times' = Append(times, 0)
      /\ UNCHANGED <<gen, target, position, checkpoint, stored, queue, read, unreadable, again, since>>
  BY DEF WriteLine
<1> DEFINE new == [t |-> t, h |-> h, of |-> Live(y)]
           L == Len(log)
<1>3. LogOrdered /\ KubeHistory
  BY DEF KubeInv
<1>0. Live(y) \in KContainers /\ Live(y).pod = y /\ Live(y).gen = gen[y] /\ gen[y] \in Nat /\ y \in Nat
  BY <1>3 DEF LogOrdered, Live, KContainers, Pods
<1>4. /\ L \in Nat /\ DOMAIN log = 1..L /\ new \in KLine /\ t \in Nat /\ time \in Nat /\ time <= t
      /\ time # t => time < t
  <2>1. t \in Nat /\ time \in Nat
    BY <1>3 DEF LogOrdered
  <2> QED
    BY <1>0, <1>3, <2>1, LogLines DEF KLine
<1>5. /\ log' \in Seq(KLine) /\ Len(log') = L + 1 /\ DOMAIN log' = 1..L + 1
      /\ \A i \in 1..L : log'[i] = log[i]
      /\ log'[L + 1] = new
  <2>1. log \in Seq(KLine) /\ log' = Append(log, new)
    BY <1>1, <1>3 DEF LogOrdered
  <2> HIDE DEF new
  <2> QED
    BY <1>4, <2>1, AppendProperties, LenProperties
<1>6. new.t = t /\ new.h = h /\ new.of = Live(y)
  OBVIOUS
<1>7. /\ times' \in Seq(Nat) /\ Len(times') = Len(log') /\ times'[L + 1] = 0
      /\ \A i \in 1..L : times'[i] = times[i]
  <2>1. times \in Seq(Nat) /\ Len(times) = L /\ 0 \in Nat
    BY <1>3 DEF KubeHistory
  <2> QED
    BY <1>2, <1>4, <1>5, <2>1, AppendProperties, LenProperties
<1> HIDE DEF new, L
<1>8. \A i \in 1..L : /\ log[i].t \in Nat /\ log[i].t <= time /\ log[i].of.pod \in Pods
                      /\ log[i].of.gen <= gen[log[i].of.pod]
                      /\ (log[i].t = time => log[i].of = Live(log[i].of.pod))
                      /\ (log[i].t = t => log[i].of = Live(y))
  BY <1>1, <1>3, <1>4, LogLines DEF LogOrdered
<1>9. \A i \in 1..L + 1 : (i \in 1..L /\ log'[i] = log[i]) \/ (i = L + 1 /\ log'[i] = new)
  BY <1>4, <1>5
<1>13. \A x : Live(x)' = Live(x')
  BY <1>2 DEF Live
<1>14. \A i \in 1..L + 1 : Live(log[i].of.pod)' = Live(log'[i].of.pod)
  BY <1>2 DEF Live
<1>10. LogOrdered'
  <2>1. time' \in Nat /\ gen' \in [Pods -> Nat] /\ target' \in Pods
    BY <1>1, <1>2, <1>3, <1>4 DEF LogOrdered
  <2>3. ASSUME NEW i \in DOMAIN log'
        PROVE  /\ log'[i].t <= time' /\ log'[i].of.pod \in Pods /\ log'[i].of.gen <= gen'[log'[i].of.pod]
               /\ log'[i].t = time' => log'[i].of = Live(log'[i].of.pod)
    <3>2. CASE i \in 1..L /\ log'[i] = log[i]
      <4>1. log[i].t <= t
        BY <1>4, <1>8, <3>2
      <4>2. log[i].t = t => log[i].of = Live(log[i].of.pod)
        BY <1>0, <1>8, <3>2
      <4> QED
        BY <1>1, <1>2, <1>8, <3>2, <4>1, <4>2
    <3>3. CASE i = L + 1 /\ log'[i] = new
      BY <1>0, <1>1, <1>2, <1>4, <1>6, <3>3
    <3> QED
      BY <1>5, <1>9, <3>2, <3>3
  <2>4. ASSUME NEW i \in DOMAIN log', NEW j \in DOMAIN log', i <= j
        PROVE  /\ log'[i].t <= log'[j].t
               /\ log'[i].t = log'[j].t => log'[i].of = log'[j].of
               /\ log'[i].of = Live(log'[j].of.pod) => log'[j].of = log'[i].of
    <3>1. CASE j \in 1..L
      <4>1. i \in 1..L /\ i \in DOMAIN log /\ j \in DOMAIN log /\ log'[i] = log[i] /\ log'[j] = log[j]
        BY <1>4, <1>5, <2>4, <3>1
      <4> QED
        BY <1>3, <2>4, <4>1 DEF LogOrdered
    <3>2. CASE j = L + 1
      <4>1. log'[j].t = t /\ log'[j].of = Live(y) /\ log'[j].of.pod = y
        BY <1>0, <1>5, <1>6, <3>2
      <4>2. CASE i \in 1..L /\ log'[i] = log[i]
        BY <1>4, <1>8, <4>1, <4>2
      <4>3. CASE i = L + 1
        BY <1>4, <3>2, <4>1, <4>3
      <4> QED
        BY <1>5, <1>9, <4>2, <4>3
    <3> QED
      BY <1>5, <1>9, <3>1, <3>2
  <2>5. \A i \in DOMAIN log' : Live(log[i].of.pod)' = Live(log'[i].of.pod)
    BY <1>5, <1>14
  <2>6. \A i \in DOMAIN log' :
          /\ log'[i].t <= time' /\ log'[i].of.pod \in Pods /\ log'[i].of.gen <= gen'[log'[i].of.pod]
          /\ log'[i].t = time' => log'[i].of = Live(log[i].of.pod)'
    BY <2>3, <2>5
  <2>7. \A i, j \in DOMAIN log' : i <= j =>
          /\ log'[i].t <= log'[j].t
          /\ log'[i].t = log'[j].t => log'[i].of = log'[j].of
          /\ log'[i].of = Live(log[j].of.pod)' => log'[j].of = log'[i].of
    BY <2>4, <2>5
  <2>8. log' \in Seq(KLine)'
    BY <1>5 DEF KLine, KContainers
  <2> QED
    BY <2>1, <2>6, <2>7, <2>8 DEF LogOrdered
<1>11. ASSUME NEW c, NEW p, Fits(c, p) PROVE Fits(c, p)'
  <2>1. p \in 0..L /\ p \in 0..L + 1 /\ p < L + 1
    BY <1>4, <1>11 DEF Fits, L
  <2>2. CASE c = NoCursor
    BY <1>5, <1>11, <2>1, <2>2 DEF Fits, NoCursor
  <2>3. CASE c # NoCursor
    <3>1. c \in KCursor /\ c.t \in Nat /\ c.t <= time /\ c.of.pod \in Pods /\ c.of.gen <= gen[c.of.pod]
      BY <1>11, <2>3 DEF Fits, KCursor
    <3>2. c.t <= time' /\ c.of.gen <= gen'[c.of.pod]
      BY <1>1, <1>2, <1>4, <3>1
    <3>3. ASSUME NEW i \in 1..L + 1
          PROVE  /\ i <= p => /\ log'[i].t <= c.t
                              /\ log'[i].t = c.t => log'[i].of.pod = c.of.pod
                              /\ log'[i].of = Live(c.of.pod) => c.of = log'[i].of
                 /\ p < i => /\ c.t <= log'[i].t
                             /\ c.of = Live(log'[i].of.pod) => log'[i].of = c.of
      <4>1. CASE i \in 1..L /\ log'[i] = log[i]
        BY <1>4, <1>11, <2>3, <4>1 DEF Fits
      <4>2. CASE i = L + 1 /\ log'[i] = new
        BY <1>0, <1>4, <1>6, <2>1, <3>1, <4>2
      <4> QED
        BY <1>9, <4>1, <4>2
    <3>4. ASSUME NEW x \in Hashes PROVE c.hashes[x] = Cardinality(Alike(p, c.t, x)')
      <4>1. \A i \in 1..p : log'[i] = log[i]
        BY <1>4, <1>5, <2>1
      <4>2. Alike(p, c.t, x)' = Alike(p, c.t, x)
        BY <4>1 DEF Alike
      <4> QED
        BY <1>11, <2>3, <4>2 DEF Fits
    <3>5. Live(c.of.pod)' = Live(c.of.pod) /\ \A i \in 1..L + 1 : Live(log[i].of.pod)' = Live(log'[i].of.pod)
      BY <1>2, <1>14 DEF Live
    <3> QED
      BY <1>2, <1>5, <2>1, <2>3, <3>1, <3>2, <3>3, <3>4, <3>5 DEF Fits, KCursor, KContainers, NoCursor
  <2> QED
    BY <2>2, <2>3
<1>12. \A i \in DOMAIN log' : i > Len(log) => times'[i] = 0
  BY <1>4, <1>5, <1>7 DEF L
<1> QED
  BY <1>1, <1>2, <1>4, <1>5, <1>7, <1>10, <1>11, <1>12, ClusterKeeps DEF L

\* A container is started again: no line and no cursor is from the new one yet.
LEMMA RestartKeeps == ASSUME KubeInv, NEW y \in Pods, RestartContainer(y) PROVE KubeInv'
<1>1. /\ time' = time + 1 /\ gen' = [gen EXCEPT ![y] = @ + 1]
      /\ UNCHANGED <<log, target, position, checkpoint, stored, queue, times, read, unreadable, again, since>>
  BY DEF RestartContainer
<1>2. LogOrdered /\ KubeHistory /\ time \in Nat /\ gen \in [Pods -> Nat]
  BY DEF KubeInv, LogOrdered
<1>3. /\ gen' \in [Pods -> Nat] /\ time' \in Nat
      /\ \A x \in Pods : gen[x] <= gen'[x] /\ gen'[x] \in Nat /\ gen[x] \in Nat
                       /\ (x # y => gen'[x] = gen[x]) /\ (x = y => gen[x] < gen'[x])
  BY <1>1, <1>2
<1>4. \A i \in DOMAIN log : /\ log[i].t \in Nat /\ log[i].t <= time /\ log[i].of \in KContainers
                            /\ log[i].of.gen \in Nat /\ log[i].of.pod \in Pods
                            /\ log[i].of.gen <= gen[log[i].of.pod]
  BY <1>2, LogLines DEF LogOrdered, KContainers
\* Of the pod that restarts, no container is the new one; of the others it is
\* as before.
<1>5. ASSUME NEW d \in KContainers, d.pod \in Pods, d.gen <= gen[d.pod], NEW x \in Pods, d = Live(x)'
      PROVE  x # y /\ d = Live(x)
  <2>1. d.pod = x /\ d.gen = gen'[x]
    BY <1>5 DEF Live
  <2>2. x # y
    BY <1>3, <1>5, <2>1
  <2> QED
    BY <1>3, <1>5, <2>2 DEF Live
<1>6. LogOrdered'
  <2>1. \A i \in DOMAIN log : /\ log[i].t <= time' /\ log[i].t # time'
                              /\ log[i].of.gen <= gen'[log[i].of.pod]
    BY <1>1, <1>2, <1>3, <1>4
  <2>2. ASSUME NEW i \in DOMAIN log, NEW j \in DOMAIN log, i <= j
        PROVE  /\ log[i].t <= log[j].t
               /\ log[i].t = log[j].t => log[i].of = log[j].of
               /\ log[i].of = Live(log[j].of.pod)' => log[j].of = log[i].of
    <3>1. PICK x \in Pods : x = log[j].of.pod
      BY <1>4
    <3>2. Live(log[j].of.pod)' = Live(x)'
      BY <1>1, <3>1 DEF Live
    <3>3. log[i].of = Live(x)' => log[i].of = Live(log[j].of.pod)
      BY <1>4, <1>5, <3>1
    <3> QED
      BY <1>2, <2>2, <3>2, <3>3 DEF LogOrdered
  <2>3. log' \in Seq(KLine) /\ target' \in Pods
    BY <1>1, <1>2 DEF LogOrdered
  <2> QED
    BY <1>1, <1>3, <1>4, <2>1, <2>2, <2>3 DEF LogOrdered, KLine, KContainers
<1>7. ASSUME NEW c, NEW p, Fits(c, p) PROVE Fits(c, p)'
  <2>1. CASE c = NoCursor
    BY <1>1, <1>7, <2>1 DEF Fits, NoCursor
  <2>2. CASE c # NoCursor
    <3>1. /\ c \in KCursor /\ c.of \in KContainers /\ c.t \in Nat /\ c.t <= time /\ c.of.pod \in Pods
          /\ c.of.gen <= gen[c.of.pod] /\ c.of.gen \in Nat
      BY <1>7, <2>2 DEF Fits, KCursor, KContainers
    <3>2. c.t <= time' /\ c.of.gen <= gen'[c.of.pod]
      BY <1>1, <1>2, <1>3, <3>1
    <3>3. ASSUME NEW i \in DOMAIN log
          PROVE  /\ i <= p => /\ log[i].t <= c.t
                              /\ log[i].t = c.t => log[i].of.pod = c.of.pod
                              /\ log[i].of = Live(c.of.pod)' => c.of = log[i].of
                 /\ p < i => /\ c.t <= log[i].t
                             /\ c.of = Live(log[i].of.pod)' => log[i].of = c.of
      <4>1. PICK x \in Pods, z \in Pods : x = c.of.pod /\ z = log[i].of.pod
        BY <1>4, <3>1
      <4>2. Live(c.of.pod)' = Live(x)' /\ Live(log[i].of.pod)' = Live(z)'
        BY <1>1, <4>1 DEF Live
      <4>3. log[i].of = Live(x)' => log[i].of = Live(c.of.pod)
        BY <1>4, <1>5, <4>1
      <4>4. c.of = Live(z)' => c.of = Live(log[i].of.pod)
        BY <1>5, <3>1, <4>1
      <4> QED
        BY <1>7, <2>2, <4>2, <4>3, <4>4 DEF Fits
    <3>4. p \in 0..Len(log) /\ \A x \in Hashes : c.hashes[x] = Cardinality(Alike(p, c.t, x))
      BY <1>7, <2>2 DEF Fits
    <3>5. \A x : Alike(p, c.t, x)' = Alike(p, c.t, x')
      BY <1>1 DEF Alike
    <3> QED
      BY <1>1, <2>2, <3>1, <3>2, <3>3, <3>4, <3>5 DEF Fits, KCursor, KContainers, NoCursor
  <2> QED
    BY <2>1, <2>2
<1>8. Len(log) \in Nat /\ DOMAIN log = 1..Len(log) /\ times \in Seq(Nat) /\ Len(times) = Len(log)
  BY <1>2, LogLines DEF KubeHistory
<1> QED
  BY <1>1, <1>2, <1>6, <1>7, <1>8, ClusterKeeps

\* Which pod the next poll will ask does not matter to what is known.
LEMMA ReplaceKeeps == ASSUME KubeInv, NEW y \in Pods, ReplacePod(y) PROVE KubeInv'
<1>1. /\ target' = y
      /\ UNCHANGED <<log, gen, time, position, checkpoint, stored, queue, times, read, unreadable, again, since>>
  BY DEF ReplacePod
<1>2. LogOrdered /\ KubeHistory /\ time \in Nat
  BY DEF KubeInv, LogOrdered
<1>3. LogOrdered'
  BY <1>1, <1>2 DEF LogOrdered, Live, KLine, KContainers
<1>4. \A c, p : Fits(c, p) => Fits(c, p)'
  BY <1>1 DEF Fits, Alike, KCursor, KContainers, NoCursor, Live
<1>5. Len(log) \in Nat /\ DOMAIN log = 1..Len(log) /\ times \in Seq(Nat) /\ Len(times) = Len(log)
  BY <1>2, LogLines DEF KubeHistory
<1> QED
  BY <1>1, <1>2, <1>3, <1>4, <1>5, ClusterKeeps

\* What the first batch in hand leaves when it is gone, its events stored: its
\* place is the checkpoint's unless it was a replay.
LEMMA QueueShifts ==
  ASSUME KubeInv, queue # <<>>, NEW f, KubePlaces(f), queue' = Tail(queue),
         UNCHANGED <<log, gen, target, time, position, read, unreadable, again, since>>,
         NEW b, b = queue[1], times' \in Seq(Nat), Len(times') = Len(log),
         \A i \in DOMAIN log : times[i] <= times'[i] /\ (i \notin b.events => times'[i] = times[i]),
         \A i \in b.events : times'[i] >= 1,
         NEW g, g \in [0..Len(queue) -> 0..Len(log)], \A k \in 1..Len(queue) : g[k] = f[k + 1],
         KubeSettled(0, g[0])',
         \A i \in DOMAIN log : times'[i] <= 1 \/ i \in again,
         \A d \in stored' : \A i \in d.events : i \in DOMAIN log /\ times'[i] >= 1
  PROVE  KubeInv'
<1> DEFINE N == Len(queue)
<1>2. LogOrdered /\ KubeHistory
  BY DEF KubeInv
<1>4. /\ N \in Nat /\ 1 <= N /\ DOMAIN queue = 1..N /\ b = queue[1]
      /\ queue' \in Seq(KBatch) /\ Len(queue') = N - 1 /\ DOMAIN queue' = 1..N - 1
      /\ \A j \in 1..N - 1 : queue'[j] = queue[j + 1]
  <2>1. queue \in Seq(KBatch)
    BY <1>2 DEF KubeHistory
  <2>2. N \in Nat /\ 1 <= N /\ DOMAIN queue = 1..N
    BY <2>1, LenProperties, EmptySeq
  <2> QED
    BY <2>1, <2>2, HeadTailProperties, LenProperties
<1>5. 1 \in DOMAIN queue /\ \A i \in b.events : i \in DOMAIN log /\ (times[i] = 0 \/ i \in again)
  <2>1. 1 \in DOMAIN queue
    BY <1>4
  <2> QED
    BY <1>2, <1>4, <2>1 DEF KubeHistory
<1>6. /\ Len(log) \in Nat /\ DOMAIN log = 1..Len(log)
      /\ \A i \in DOMAIN log : times[i] \in Nat /\ times'[i] \in Nat
  <2>1. times \in Seq(Nat) /\ Len(times) = Len(log)
    BY <1>2 DEF KubeHistory
  <2>2. /\ Len(log) \in Nat /\ DOMAIN log = 1..Len(log)
        /\ DOMAIN times = 1..Len(times) /\ DOMAIN times' = 1..Len(times')
    BY <1>2, <2>1, LogLines, LenProperties
  <2> QED
    BY <2>1, <2>2, ElementOfSeq
<1> HIDE DEF N
<1>7. ASSUME NEW i \in DOMAIN log, NEW j \in DOMAIN queue, i \in queue[j].events
      PROVE  times'[i] >= 1 \/ (j - 1 \in DOMAIN queue' /\ i \in queue'[j - 1].events)
  <2>1. j \in 1..N
    BY <1>4
  <2>2. CASE j = 1
    BY <1>4, <1>7, <2>2
  <2>3. CASE j # 1
    <3>1. j - 1 \in 1..N - 1 /\ (j - 1) + 1 = j
      BY <1>4, <2>1, <2>3
    <3> QED
      BY <1>4, <1>7, <3>1
  <2> QED
    BY <2>2, <2>3
<1>8. ASSUME NEW j \in 1..N - 1, NEW i \in queue'[j].events
      PROVE  i \in DOMAIN log /\ (times'[i] = 0 \/ i \in again)
  <2>1. j + 1 \in DOMAIN queue /\ 1 \in DOMAIN queue /\ 1 < j + 1 /\ i \in queue[j + 1].events
    BY <1>4, <1>8
  <2>2. i \in DOMAIN log /\ (times[i] = 0 \/ i \in again)
    BY <1>2, <2>1 DEF KubeHistory
  <2>3. queue[1].events \cap queue[j + 1].events = {}
    BY <1>2, <2>1 DEF KubeHistory
  <2>4. i \notin b.events
    BY <1>4, <2>1, <2>3
  <2> QED
    BY <2>2, <2>4
<1>3. \A i \in DOMAIN log : OwedLine(i)' <=> OwedLine(i)
  BY DEF OwedLine, IsEvent
<1>9. KubeHistory'
  <2>1. \A j \in DOMAIN queue' : \A i \in queue'[j].events : i \in DOMAIN log' /\ (times'[i] = 0 \/ i \in again')
    BY <1>4, <1>8
  <2>2. \A j, k \in DOMAIN queue' : j < k => queue'[j].events \cap queue'[k].events = {}
    <3> SUFFICES ASSUME NEW j \in DOMAIN queue', NEW k \in DOMAIN queue', j < k
                 PROVE  queue'[j].events \cap queue'[k].events = {}
      OBVIOUS
    <3>1. /\ j + 1 \in DOMAIN queue /\ k + 1 \in DOMAIN queue /\ j + 1 < k + 1
          /\ queue'[j] = queue[j + 1] /\ queue'[k] = queue[k + 1]
      BY <1>4
    <3> QED
      BY <1>2, <3>1 DEF KubeHistory
  <2>3. position' # NoCursor /\ read' \subseteq DOMAIN log' /\ since' \in Nat /\ since' <= time'
    BY <1>2 DEF KubeHistory
  <2>4. ASSUME NEW i \in read', OwedLine(i)'
        PROVE  \/ times'[i] >= 1 \/ i \in unreadable'
               \/ \E j \in DOMAIN queue' : i \in queue'[j].events
    <3>1. i \in read /\ i \in DOMAIN log /\ OwedLine(i)
      BY <1>2, <1>3, <2>4 DEF KubeHistory
    <3>2. CASE times[i] >= 1
      BY <1>6, <3>1, <3>2
    <3>3. CASE \E j \in DOMAIN queue : i \in queue[j].events
      BY <1>7, <3>1, <3>3
    <3> QED
      BY <1>2, <3>1, <3>2, <3>3 DEF KubeHistory
  <2>5. \A d \in stored' : \A i \in d.events : i \in DOMAIN log' /\ times'[i] >= 1
    OBVIOUS
  <2>6. \A i \in DOMAIN log' : times'[i] <= 1 \/ i \in again'
    OBVIOUS
  <2> QED
    BY <1>4, <2>1, <2>2, <2>3, <2>4, <2>5, <2>6 DEF KubeHistory, KBatch, KCursor, KContainers, NoCursor
<1>10. ASSUME NEW k \in 1..N, NEW p, p = f[k + 1] PROVE KubeSettled(k, p)'
  <2>1. k \in Nat /\ k <= N /\ k + 1 \in 0..N + 1 /\ k # 0 /\ k + 1 # 0
    BY <1>4
  <2>2. PICK c : c = KubeCursorAt(k + 1)
    OBVIOUS
  <2>3. KubeCursorAt(k)' = c
    <3>1. CASE k \in 1..N - 1
      BY <1>4, <2>1, <2>2, <3>1 DEF KubeCursorAt
    <3>2. CASE k = N
      BY <1>4, <2>1, <2>2, <3>2 DEF KubeCursorAt
    <3> QED
      BY <1>4, <2>1, <3>1, <3>2
  <2>4. KubeSettled(k + 1, p) /\ Fits(c, p) /\ p \in 0..Len(log)
    BY <1>10, <2>1, <2>2 DEF KubePlaces, KubeSettled, N, Fits
  <2>5. Fits(c, p)'
    BY <2>4 DEF Fits, Alike, KCursor, KContainers, NoCursor, Live
  <2>6. Fits(KubeCursorAt(k), p)'
    BY <2>3, <2>5 DEF Fits, Alike, KCursor, KContainers, NoCursor, Live
  <2>11. \A i \in DOMAIN log : InPod(KubeCursorAt(k), i)' <=> InPod(c, i)
    BY <2>3 DEF InPod, NoCursor
  <2>7. ASSUME NEW j \in DOMAIN queue, j <= k + 1, NEW i \in queue[j].events PROVE i <= p
    BY <2>4, <2>7 DEF KubeSettled
  <2>8. ASSUME NEW i \in DOMAIN log', p < i, InPod(KubeCursorAt(k), i)' PROVE times'[i] = 0 \/ i \in again'
    <3>1. i \notin b.events
      <4>1. i \in Nat /\ p \in Nat /\ ~ (i <= p)
        BY <1>6, <2>4, <2>8
      <4>2. 1 <= k + 1
        BY <2>1
      <4> QED
        BY <1>4, <1>5, <2>7, <4>1, <4>2
    <3>2. InPod(c, i)
      BY <2>8, <2>11
    <3> QED
      BY <2>2, <2>4, <2>8, <3>1, <3>2 DEF KubeSettled
  <2>9. ASSUME NEW i \in DOMAIN log', i <= p, OwedLine(i)', InPod(KubeCursorAt(k), i)'
        PROVE  times'[i] >= 1 \/ i \in unreadable' \/ \E j \in DOMAIN queue' : j <= k /\ i \in queue'[j].events
    <3>1. i \in DOMAIN log /\ OwedLine(i) /\ InPod(c, i)
      BY <1>3, <2>9, <2>11
    <3>2. CASE times[i] >= 1
      BY <1>6, <3>1, <3>2
    <3>3. CASE \E j \in DOMAIN queue : j <= k + 1 /\ i \in queue[j].events
      <4>1. PICK j \in 1..N : j <= k + 1 /\ i \in queue[j].events
        BY <1>4, <3>3
      <4>2. j - 1 <= k /\ j \in DOMAIN queue
        BY <1>4, <2>1, <4>1
      <4> QED
        BY <1>7, <3>1, <4>1, <4>2
    <3> QED
      BY <2>2, <2>4, <2>9, <3>1, <3>2, <3>3 DEF KubeSettled
  <2>10. ASSUME NEW j \in DOMAIN queue', j <= k, NEW i \in queue'[j].events PROVE i <= p
    <3>1. j \in 1..N - 1 /\ j + 1 \in DOMAIN queue /\ j + 1 <= k + 1 /\ i \in queue[j + 1].events
      BY <1>4, <2>1, <2>10
    <3> QED
      BY <2>7, <3>1
  <2> QED
    BY <2>6, <2>8, <2>9, <2>10 DEF KubeSettled
<1>11. KubePlaces(g)'
  <2>3. Len(queue') + 1 = N /\ g \in [0..N -> 0..Len(log)]
    BY <1>4 DEF N
  <2>6. ASSUME NEW k \in 0..N PROVE KubeSettled(k, g[k])'
    <3>0. CASE k = 0
      BY <3>0
    <3>4. CASE k \in 1..N
      <4>1. PICK p : p = f[k + 1]
        OBVIOUS
      <4>2. g[k] = p
        BY <3>4, <4>1 DEF N
      <4>3. KubeSettled(k, p)'
        BY <1>10, <3>4, <4>1
      <4> QED
        BY <4>2, <4>3 DEF KubeSettled, Fits, Alike
    <3> QED
      BY <1>4, <3>0, <3>4
  <2> QED
    BY <2>3, <2>6 DEF KubePlaces
<1> QED
  BY <1>2, <1>9, <1>11 DEF KubeInv, LogOrdered, Live

\* The first batch in hand is delivered, with its cursor, or is a replay.
LEMMA DeliverKeeps == ASSUME KubeInv, DeliverBatch PROVE KubeInv'
<1>1. PICK b : /\ b = Head(queue)
      /\ \/ b \in stored /\ UNCHANGED <<times, checkpoint, stored>>
         \/ /\ times' = [i \in DOMAIN times |-> times[i] + IF i \in b.events THEN 1 ELSE 0]
            /\ checkpoint' = b.cursor /\ stored' = stored \cup {b}
      /\ queue # <<>> /\ queue' = Tail(queue)
      /\ UNCHANGED <<log, gen, target, time, position, read, unreadable, again, since>>
  BY DEF DeliverBatch, cluster
<1>2. LogOrdered /\ KubeHistory
  BY DEF KubeInv
<1>3. PICK f : KubePlaces(f)
  BY DEF KubeInv
<1> DEFINE N == Len(queue)
<1>4. /\ N \in Nat /\ 1 <= N /\ DOMAIN queue = 1..N /\ b = queue[1]
      /\ queue' \in Seq(KBatch) /\ Len(queue') = N - 1 /\ DOMAIN queue' = 1..N - 1
  <2>1. queue \in Seq(KBatch)
    BY <1>2 DEF KubeHistory
  <2>2. N \in Nat /\ 1 <= N /\ DOMAIN queue = 1..N
    BY <1>1, <2>1, LenProperties, EmptySeq
  <2> QED
    BY <1>1, <2>1, <2>2, HeadTailProperties, LenProperties
<1>5. 1 \in DOMAIN queue /\ \A i \in b.events : i \in DOMAIN log /\ (times[i] = 0 \/ i \in again)
  <2>1. 1 \in DOMAIN queue
    BY <1>4
  <2> QED
    BY <1>2, <1>4, <2>1 DEF KubeHistory
<1>6. /\ Len(log) \in Nat /\ DOMAIN log = 1..Len(log) /\ DOMAIN times = DOMAIN log
      /\ \A i \in DOMAIN log : times[i] \in Nat
      /\ times \in Seq(Nat) /\ Len(times) = Len(log)
  <2>1. times \in Seq(Nat) /\ Len(times) = Len(log)
    BY <1>2 DEF KubeHistory
  <2>2. Len(log) \in Nat /\ DOMAIN log = 1..Len(log) /\ DOMAIN times = 1..Len(times)
    BY <1>2, <2>1, LogLines, LenProperties
  <2> QED
    BY <2>1, <2>2, ElementOfSeq
<1>7. f \in [0..N + 1 -> 0..Len(log)] /\ KubeSettled(0, f[0]) /\ KubeSettled(1, f[1])
  BY <1>3, <1>4 DEF KubePlaces
<1> HIDE DEF N
<1>8. CASE b \in stored /\ UNCHANGED <<times, checkpoint, stored>>
  <2>1. PICK g : g = [k \in 0..N |-> IF k = 0 THEN f[0] ELSE f[k + 1]]
    OBVIOUS
  <2>2. g \in [0..N -> 0..Len(log)] /\ g[0] = f[0] /\ \A k \in 1..N : g[k] = f[k + 1]
    <3>1. /\ 0 \in 0..N /\ f[0] \in 0..Len(log)
          /\ \A k \in 1..N : k \in 0..N /\ k # 0 /\ f[k + 1] \in 0..Len(log)
          /\ \A k \in 0..N : k = 0 \/ k \in 1..N
      BY <1>4, <1>7
    <3> QED
      BY <2>1, <3>1
  <2>3. \A i \in b.events : times[i] >= 1
    BY <1>2, <1>8 DEF KubeHistory
  <2>4. PICK p, c : p = f[0] /\ c = checkpoint
    OBVIOUS
  <2>5. KubeCursorAt(0)' = c /\ KubeCursorAt(0) = c /\ Fits(c, p)
    BY <1>7, <1>8, <2>4 DEF KubeCursorAt, KubeSettled
  <2>6. Fits(c, p)'
    BY <1>1, <2>5 DEF Fits, Alike, KCursor, KContainers, NoCursor, Live
  <2>7. Fits(KubeCursorAt(0), p)'
    BY <2>5, <2>6 DEF Fits, Alike, KCursor, KContainers, NoCursor, Live
  <2>8. \A i \in DOMAIN log : (InPod(KubeCursorAt(0), i)' <=> InPod(KubeCursorAt(0), i)) /\ (OwedLine(i)' <=> OwedLine(i))
    BY <1>1, <2>5 DEF InPod, NoCursor, OwedLine, IsEvent
  <2>9. (\A j \in DOMAIN queue : ~ (j <= 0)) /\ (\A j \in DOMAIN queue' : ~ (j <= 0))
    BY <1>4
  <2>10. KubeSettled(0, p)'
    BY <1>1, <1>7, <1>8, <2>4, <2>7, <2>8, <2>9 DEF KubeSettled
  <2>11. KubeSettled(0, g[0])'
    BY <2>2, <2>4, <2>10 DEF KubeSettled, Fits, Alike
  <2>12. \A i \in DOMAIN log : times[i] <= 1 \/ i \in again
    BY <1>2 DEF KubeHistory
  <2>13. \A d \in stored' : \A i \in d.events : i \in DOMAIN log /\ times[i] >= 1
    BY <1>2, <1>8 DEF KubeHistory
  <2>14. \A i \in DOMAIN log : times[i] <= times'[i] /\ times'[i] = times[i]
    BY <1>6, <1>8
  <2> QED
    BY <1>1, <1>3, <1>4, <1>6, <1>8, <2>2, <2>3, <2>11, <2>12, <2>13, <2>14, QueueShifts DEF N
<1>9. CASE /\ times' = [i \in DOMAIN times |-> times[i] + IF i \in b.events THEN 1 ELSE 0]
           /\ checkpoint' = b.cursor /\ stored' = stored \cup {b}
  <2>1. PICK g : g = [k \in 0..N |-> f[k + 1]]
    OBVIOUS
  <2>2. g \in [0..N -> 0..Len(log)] /\ g[0] = f[1] /\ \A k \in 1..N : g[k] = f[k + 1]
    BY <1>4, <1>7, <2>1
  <2>3. \A i \in DOMAIN log : /\ times'[i] = (IF i \in b.events THEN times[i] + 1 ELSE times[i])
                              /\ times'[i] \in Nat
    BY <1>6, <1>9
  <2>4. times' \in Seq(Nat) /\ Len(times') = Len(log)
    <3>1. times' \in [1..Len(log) -> Nat]
      BY <1>6, <1>9, <2>3
    <3> QED
      BY <1>6, <3>1
  <2>5. \A i \in DOMAIN log : times'[i] <= 1 \/ i \in again
    <3>1. \A i \in DOMAIN log : times[i] <= 1 \/ i \in again
      BY <1>2 DEF KubeHistory
    <3> QED
      BY <1>5, <1>6, <2>3, <3>1
  <2>6. \A d \in stored' : \A i \in d.events : i \in DOMAIN log /\ times'[i] >= 1
    <3>1. \A d \in stored : \A i \in d.events : i \in DOMAIN log /\ times[i] >= 1
      BY <1>2 DEF KubeHistory
    <3>2. \A i \in DOMAIN log : (times[i] >= 1 \/ i \in b.events) => times'[i] >= 1
      BY <1>6, <2>3
    <3> QED
      BY <1>5, <1>9, <3>1, <3>2
  <2>7. PICK p, c : p = f[1] /\ c = b.cursor
    OBVIOUS
  <2>8. KubeCursorAt(0)' = c /\ KubeCursorAt(1) = c /\ Fits(c, p)
    BY <1>4, <1>7, <1>9, <2>7 DEF KubeCursorAt, KubeSettled
  <2>9. Fits(c, p)'
    BY <1>1, <2>8 DEF Fits, Alike, KCursor, KContainers, NoCursor, Live
  <2>10. Fits(KubeCursorAt(0), p)'
    BY <2>8, <2>9 DEF Fits, Alike, KCursor, KContainers, NoCursor, Live
  <2>11. \A i \in DOMAIN log : (InPod(KubeCursorAt(0), i)' <=> InPod(KubeCursorAt(1), i)) /\ (OwedLine(i)' <=> OwedLine(i))
    BY <1>1, <2>8 DEF InPod, NoCursor, OwedLine, IsEvent
  <2>12. \A i \in b.events : i <= p
    BY <1>4, <1>5, <1>7, <2>7 DEF KubeSettled
  <2>13. ASSUME NEW i \in DOMAIN log, p < i, InPod(KubeCursorAt(1), i) PROVE times'[i] = 0 \/ i \in again
    <3>1. i \notin b.events
      <4>1. i \in Nat /\ p \in 0..Len(log) /\ ~ (i <= p)
        <5>1. 1 \in 0..N + 1
          BY <1>4
        <5> QED
          BY <1>6, <1>7, <2>7, <2>13, <5>1
      <4> QED
        BY <2>12, <4>1
    <3> QED
      BY <1>7, <2>3, <2>7, <2>13, <3>1 DEF KubeSettled
  <2>14. ASSUME NEW i \in DOMAIN log, i <= p, InPod(KubeCursorAt(1), i), OwedLine(i)
         PROVE  times'[i] >= 1 \/ i \in unreadable
    <3>1. times[i] >= 1 \/ i \in unreadable \/ \E j \in DOMAIN queue : j <= 1 /\ i \in queue[j].events
      BY <1>7, <2>7, <2>14 DEF KubeSettled
    <3>2. \A j \in DOMAIN queue : j <= 1 => j = 1
      BY <1>4
    <3>3. times[i] >= 1 \/ i \in b.events => times'[i] >= 1
      BY <1>6, <2>3
    <3> QED
      BY <1>4, <3>1, <3>2, <3>3
  <2>15. \A j \in DOMAIN queue' : ~ (j <= 0)
    BY <1>4
  <2>16. KubeSettled(0, p)'
    BY <1>1, <2>10, <2>11, <2>13, <2>14, <2>15 DEF KubeSettled
  <2>17. KubeSettled(0, g[0])'
    BY <2>2, <2>7, <2>16 DEF KubeSettled, Fits, Alike
  <2>18. \A i \in DOMAIN log : times[i] <= times'[i] /\ (i \notin b.events => times'[i] = times[i])
    BY <1>6, <2>3
  <2>19. \A i \in b.events : times'[i] >= 1
    BY <1>5, <1>6, <2>3
  <2> QED
    BY <1>1, <1>3, <1>4, <2>2, <2>4, <2>5, <2>6, <2>17, <2>18, <2>19, QueueShifts DEF N
<1> QED
  BY <1>1, <1>8, <1>9

\* The plugin starts again from the checkpoint.
LEMMA KubeCrashKeeps == ASSUME KubeInv, CrashPlugin PROVE KubeInv'
<1>1. /\ position' = checkpoint /\ queue' = <<>>
      /\ read' = {i \in read : IsEvent(i) /\ log[i].t >= since => times[i] > 0 \/ i \in unreadable}
      /\ UNCHANGED <<log, gen, target, time, checkpoint, stored, times, unreadable, again, since>>
  BY DEF CrashPlugin, cluster
<1>2. LogOrdered /\ KubeHistory /\ Len(queue) \in Nat /\ DOMAIN queue = 1..Len(queue)
  BY LenProperties DEF KubeInv, KubeHistory
<1>3. PICK f : KubePlaces(f)
  BY DEF KubeInv
<1>4. PICK p : p = f[0]
  OBVIOUS
<1>5. PICK c : c = checkpoint
  OBVIOUS
<1>6. KubeSettled(0, p) /\ Fits(c, p) /\ p \in 0..Len(log) /\ KubeCursorAt(0) = c
  BY <1>2, <1>3, <1>4, <1>5 DEF KubePlaces, KubeSettled, KubeCursorAt, Fits
<1>7. queue' \in Seq(KBatch) /\ DOMAIN queue' = {} /\ Len(queue') = 0
  BY <1>1, EmptySeq
<1>8. KubeHistory'
  <2>1. times \in Seq(Nat) /\ Len(times) = Len(log) /\ read \subseteq DOMAIN log
    BY <1>2 DEF KubeHistory
  <2>2. \A i \in DOMAIN log : times[i] \in Nat
    <3>1. DOMAIN log = 1..Len(log) /\ DOMAIN times = 1..Len(times)
      BY <1>2, <2>1, LogLines, LenProperties
    <3> QED
      BY <2>1, <3>1, ElementOfSeq
  <2>3. ASSUME NEW i \in read', OwedLine(i)' PROVE times'[i] >= 1 \/ i \in unreadable'
    <3>1. i \in read /\ (IsEvent(i) /\ log[i].t >= since => times[i] > 0 \/ i \in unreadable)
      BY <1>1
    <3>2. IsEvent(i) /\ log[i].t >= since
      BY <1>1, <2>3 DEF OwedLine, IsEvent
    <3> QED
      BY <1>1, <2>1, <2>2, <3>1, <3>2
  <2>4. read' \subseteq DOMAIN log'
    BY <1>1, <2>1
  <2>5. position' = NoCursor => checkpoint' = NoCursor /\ queue' = <<>>
    BY <1>1 DEF NoCursor
  <2> QED
    BY <1>1, <1>2, <1>7, <2>1, <2>3, <2>4, <2>5 DEF KubeHistory, KBatch, KCursor, KContainers
<1>9. \A i \in DOMAIN log : OwedLine(i)' <=> OwedLine(i)
  BY <1>1 DEF OwedLine, IsEvent
<1>10. ASSUME NEW k \in 0..1 PROVE KubeSettled(k, p)'
  <2>1. KubeCursorAt(k)' = c
    BY <1>1, <1>5, <1>7 DEF KubeCursorAt
  <2>2. Fits(c, p)'
    BY <1>1, <1>6 DEF Fits, Alike, KCursor, KContainers, NoCursor, Live
  <2>3. Fits(KubeCursorAt(k), p)'
    BY <2>1, <2>2 DEF Fits, Alike, KCursor, KContainers, NoCursor, Live
  <2>6. \A i \in DOMAIN log : InPod(KubeCursorAt(k), i)' <=> InPod(KubeCursorAt(0), i)
    BY <1>1, <1>6, <2>1 DEF InPod, NoCursor
  <2>4. ASSUME NEW i \in DOMAIN log', i <= p, InPod(KubeCursorAt(k), i)', OwedLine(i)'
        PROVE  times'[i] >= 1 \/ i \in unreadable'
    <3>1. i \in DOMAIN log /\ OwedLine(i) /\ InPod(KubeCursorAt(0), i)
      BY <1>1, <1>9, <2>4, <2>6
    <3>2. ~ \E j \in DOMAIN queue : j <= 0
      BY <1>2
    <3> QED
      BY <1>1, <1>6, <2>4, <3>1, <3>2 DEF KubeSettled
  <2>5. \A i \in DOMAIN log' : p < i /\ InPod(KubeCursorAt(k), i)' => times'[i] = 0 \/ i \in again'
    BY <1>1, <1>6, <2>6 DEF KubeSettled
  <2> QED
    BY <1>7, <2>3, <2>4, <2>5 DEF KubeSettled
<1> DEFINE g == [k \in 0..1 |-> p]
<1>11. KubePlaces(g)'
  <2>1. g \in [0..1 -> 0..Len(log)] /\ \A k \in 0..1 : g[k] = p
    BY <1>6
  <2> HIDE DEF g
  <2>3. \A k \in 0..1 : KubeSettled(k, g[k])'
    BY <1>10, <2>1 DEF KubeSettled, KubeCursorAt, Fits, Alike
  <2> QED
    BY <1>1, <1>7, <2>1, <2>3 DEF KubePlaces
<1> QED
  BY <1>1, <1>2, <1>8, <1>11 DEF KubeInv, LogOrdered, Live

\* The containers whose logs a poll reads.
Reach == {container} \cup (IF SamePod /\ ~ SameContainer /\ kept[target] THEN {Previous} ELSE {})

\* A poll whose position has the place p collects the lines of these containers
\* from q on: from p in the cursor's pod, all of them in another.  Of the lines
\* before, the position knows those that are alike.
PollFrom(p, q) ==
  /\ Fits(position, p) /\ q \in 0..Len(log)
  /\ Collected = {i \in DOMAIN log : q < i /\ log[i].of \in Reach}
  /\ position # NoCursor => q = IF SamePod THEN p ELSE 0
  /\ position = NoCursor => \A i \in DOMAIN log : i <= q <=> log[i].t < time
  /\ \A i \in Collected : \A h \in Hashes :
       Cardinality(Alike(q, log[i].t, h)) = IF position.t = log[i].t THEN position.hashes[h] ELSE 0

\* Where the time stamp does not occur no lines are alike.
LEMMA NoneAlike ==
  ASSUME NEW n \in Nat, NEW t, NEW h, \A i \in 1..n : log[i].t # t
  PROVE  Cardinality(Alike(n, t, h)) = 0
<1>1. Alike(n, t, h) = {}
  BY DEF Alike
<1> QED
  BY <1>1, FS_EmptySet

\* The containers in reach, and those that lines of them are filed under, are
\* of the target.
LEMMA InReach ==
  ASSUME LogOrdered, NEW p, Fits(position, p)
  PROVE  /\ container \in KContainers /\ container.pod = target
         /\ \A i \in DOMAIN log : log[i].of \in Reach =>
              /\ log[i].of.pod = target
              /\ IdentityOf(i) \in KContainers /\ IdentityOf(i).pod = target
              /\ IdentityOf(i).gen <= gen[target]
              /\ IdentityOf(i) = container <=> log[i].of = container
<1>1. container \in KContainers /\ container.pod = target /\ container.gen = gen[target] /\ gen[target] \in Nat
  BY DEF LogOrdered, container, Live, KContainers, Pods
<1>2. Previous.pod = target
  BY <1>1 DEF Previous, KContainers
<1>3. ASSUME NEW i \in DOMAIN log, log[i].of \in Reach
      PROVE  /\ log[i].of.pod = target
             /\ IdentityOf(i) \in KContainers /\ IdentityOf(i).pod = target
             /\ IdentityOf(i).gen <= gen[target]
             /\ IdentityOf(i) = container <=> log[i].of = container
  <2>1. CASE log[i].of = container
    BY <1>1, <2>1 DEF IdentityOf
  <2>2. CASE log[i].of # container
    <3>1. log[i].of = Previous /\ SamePod /\ ~ SameContainer
      BY <1>3, <2>2 DEF Reach
    <3>2. position # NoCursor /\ position.of.pod = target /\ position.of # container
      BY <3>1 DEF SamePod, SameContainer
    <3>3. IdentityOf(i) = position.of
      BY <2>2 DEF IdentityOf
    <3>4. position \in KCursor /\ position.of.gen <= gen[position.of.pod]
      BY <3>2 DEF Fits
    <3> QED
      BY <1>2, <2>2, <3>1, <3>2, <3>3, <3>4 DEF KCursor
  <2> QED
    BY <2>1, <2>2
<1> QED
  BY <1>1, <1>3

\* Every poll begins somewhere: where the time of the first poll is reached in
\* the log, where the position's place is, or, in another pod, at the beginning.
LEMMA PollBegins ==
  ASSUME LogOrdered, NEW p, Fits(position, p) PROVE \E q : PollFrom(p, q)
<1>1. /\ Len(log) \in Nat /\ DOMAIN log = 1..Len(log) /\ time \in Nat
      /\ container.pod = target /\ Live(target) = container
  BY LogLines, InReach DEF LogOrdered, container
<1>2. \A i \in DOMAIN log : i \in Nat /\ log[i].t \in Nat /\ log[i].t <= time
  BY LogLines DEF LogOrdered
<1>3. CASE position = NoCursor
  <2> DEFINE T == {i \in 0..Len(log) : \A j \in DOMAIN log : i < j => log[j].t >= time}
  <2>1. T \in SUBSET Nat /\ Len(log) \in T
    BY <1>1
  <2> HIDE DEF T
  <2>2. PICK q \in T : \A i \in T : q <= i
    BY <2>1, FirstOf
  <2>3. q \in 0..Len(log) /\ \A j \in DOMAIN log : q < j => log[j].t >= time
    BY <2>2 DEF T
  <2>4. ASSUME NEW j \in DOMAIN log, j <= q PROVE log[j].t < time
    <3> SUFFICES ASSUME log[j].t >= time PROVE FALSE
      BY <1>1, <1>2
    <3>1. j - 1 \in 0..Len(log) /\ j \in Nat
      BY <1>1
    <3>2. \A i \in DOMAIN log : j - 1 < i => j <= i
      BY <1>1, <3>1
    <3>3. \A i \in DOMAIN log : j <= i => log[j].t <= log[i].t
      BY DEF LogOrdered
    <3>4. j - 1 \in T
      BY <1>1, <1>2, <3>1, <3>2, <3>3 DEF T
    <3> QED
      BY <1>1, <2>2, <2>3, <2>4, <3>1, <3>4
  <2>5. \A i \in DOMAIN log : i <= q <=> log[i].t < time
    BY <1>1, <1>2, <2>3, <2>4
  <2>6. Collected = ReadLogs(container, time) /\ Reach = {container}
    BY <1>3 DEF Collected, SameContainer, SamePod, Reach
  <2>7. ReadLogs(container, time) = {i \in DOMAIN log : q < i /\ log[i].of \in {container}}
    BY <1>1, <1>2, <2>3, <2>5 DEF ReadLogs
  <2>8. ASSUME NEW i \in DOMAIN log, q < i, NEW h \in Hashes
        PROVE  Cardinality(Alike(q, log[i].t, h)) = IF position.t = log[i].t THEN position.hashes[h] ELSE 0
    <3>1. position.t = -1 /\ log[i].t \in Nat /\ log[i].t >= time
      BY <1>2, <1>3, <2>3, <2>8 DEF NoCursor
    <3>2. \A j \in 1..q : j \in DOMAIN log /\ log[j].t < time /\ log[j].t \in Nat
      BY <1>1, <1>2, <2>3, <2>4
    <3>3. \A j \in 1..q : log[j].t # log[i].t
      BY <1>1, <3>1, <3>2
    <3>4. PICK t : t = log[i].t
      OBVIOUS
    <3>5. Cardinality(Alike(q, t, h)) = 0
      BY <2>3, <3>3, <3>4, NoneAlike
    <3> QED
      BY <3>1, <3>4, <3>5
  <2>9. PollFrom(p, q)
    BY <1>3, <2>3, <2>5, <2>6, <2>7, <2>8 DEF PollFrom
  <2> QED
    BY <2>9
<1>4. CASE SamePod
  <2>1. PICK c : c = position
    OBVIOUS
  <2>2. /\ Fits(c, p) /\ c # NoCursor /\ p \in 0..Len(log) /\ c \in KCursor /\ c.t \in Nat
        /\ c.of.pod = target /\ Live(c.of.pod) = container
    BY <1>1, <1>4, <2>1 DEF Fits, KCursor, SamePod
  <2>3. \A i \in DOMAIN log :
            /\ i <= p => log[i].t <= c.t /\ (log[i].of = container => c.of = container)
            /\ p < i => c.t <= log[i].t
    BY <2>2 DEF Fits
  <2>4. \A x : AfterBoundary(ReadLogs(x, position.t), position) = {i \in DOMAIN log : p < i /\ log[i].of = x}
    BY <2>1, <2>2, BehindBoundary
  <2>5. Collected = {i \in DOMAIN log : p < i /\ log[i].of \in Reach}
    <3>1. CASE SameContainer
      <4>1. Collected = {i \in DOMAIN log : p < i /\ log[i].of = container}
        BY <2>4, <3>1 DEF Collected
      <4>2. Reach = {container}
        BY <3>1 DEF Reach
      <4> QED
        BY <4>1, <4>2
    <3>2. CASE ~ SameContainer
      <4>1. c.of # container
        BY <2>1, <2>2, <3>2 DEF SameContainer
      <4>2. ReadLogs(container, 0) = {i \in DOMAIN log : p < i /\ log[i].of = container}
        BY <1>1, <1>2, <2>2, <2>3, <4>1 DEF ReadLogs
      <4>3. CASE kept[target]
        <5>1. Collected = {i \in DOMAIN log : p < i /\ log[i].of = Previous} \cup ReadLogs(container, 0)
          BY <1>4, <2>4, <3>2, <4>3 DEF Collected
        <5>2. Reach = {container, Previous}
          BY <1>4, <3>2, <4>3 DEF Reach
        <5> QED
          BY <4>2, <5>1, <5>2
      <4>4. CASE ~ kept[target]
        <5>1. Collected = ReadLogs(container, 0)
          BY <1>4, <3>2, <4>4 DEF Collected
        <5>2. Reach = {container}
          BY <4>4 DEF Reach
        <5> QED
          BY <4>2, <5>1, <5>2
      <4> QED
        BY <4>3, <4>4
    <3> QED
      BY <3>1, <3>2
  <2>6. ASSUME NEW i \in DOMAIN log, p < i, NEW h \in Hashes
        PROVE  Cardinality(Alike(p, log[i].t, h)) = IF c.t = log[i].t THEN c.hashes[h] ELSE 0
    <3>1. PICK t : t = log[i].t
      OBVIOUS
    <3>2. CASE c.t = t
      BY <2>2, <3>1, <3>2 DEF Fits
    <3>3. CASE c.t # t
      <4>1. c.t < t /\ t \in Nat
        BY <1>2, <2>2, <2>3, <2>6, <3>1, <3>3
      <4>2. \A j \in 1..p : j \in DOMAIN log /\ log[j].t <= c.t /\ log[j].t \in Nat
        BY <1>1, <1>2, <2>2, <2>3
      <4>3. \A j \in 1..p : log[j].t # t
        BY <2>2, <4>1, <4>2
      <4>4. Cardinality(Alike(p, t, h)) = 0
        BY <2>2, <4>3, NoneAlike
      <4> QED
        BY <3>1, <3>3, <4>4
    <3> QED
      BY <3>2, <3>3
  <2>7. PollFrom(p, p)
    BY <1>4, <2>1, <2>2, <2>5, <2>6 DEF PollFrom
  <2> QED
    BY <2>7
<1>5. CASE position # NoCursor /\ ~ SamePod
  <2>1. PICK c : c = position
    OBVIOUS
  <2>2. /\ Fits(c, p) /\ c # NoCursor /\ p \in 0..Len(log) /\ p \in Nat /\ c \in KCursor /\ c.t \in Nat
        /\ c.of.pod # target
    BY <1>1, <1>5, <2>1 DEF Fits, KCursor, SamePod
  <2>3. Collected = ReadLogs(container, 0) /\ Reach = {container}
    BY <1>5 DEF Collected, SameContainer, SamePod, Reach, container, Live
  <2>4. ReadLogs(container, 0) = {i \in DOMAIN log : 0 < i /\ log[i].of \in {container}}
    BY <1>1, <1>2 DEF ReadLogs
  <2>5. ASSUME NEW i \in DOMAIN log, log[i].of = container, NEW h \in Hashes
        PROVE  Cardinality(Alike(0, log[i].t, h)) = IF c.t = log[i].t THEN c.hashes[h] ELSE 0
    <3>1. PICK t : t = log[i].t
      OBVIOUS
    <3>2. Cardinality(Alike(0, t, h)) = 0
      BY NoneAlike
    <3>3. CASE c.t = t
      \* A line at the cursor's time would be of the cursor's pod, and this one's.
      <4>1. ASSUME NEW j \in 1..p, log[j].t = t PROVE FALSE
        <5>1. j \in DOMAIN log /\ j <= p
          BY <1>1, <2>2
        <5>2. log[j].of.pod = c.of.pod
          BY <2>2, <3>3, <4>1, <5>1 DEF Fits
        <5>3. j <= i \/ i <= j
          BY <1>2, <5>1
        <5>4. log[j].of = log[i].of
          BY <3>1, <4>1, <5>1, <5>3 DEF LogOrdered
        <5> QED
          BY <1>1, <2>2, <2>5, <5>2, <5>4
      <4>2. Cardinality(Alike(p, t, h)) = 0
        BY <2>2, <4>1, NoneAlike
      <4>3. c.hashes[h] = Cardinality(Alike(p, c.t, h))
        BY <2>2 DEF Fits
      <4> QED
        BY <3>1, <3>2, <3>3, <4>2, <4>3
    <3> QED
      BY <3>1, <3>2, <3>3
  <2>6. 0 \in 0..Len(log)
    BY <1>1
  <2>7. PollFrom(p, 0)
    BY <1>5, <2>1, <2>3, <2>4, <2>5, <2>6 DEF PollFrom
  <2> QED
    BY <2>7
<1> QED
  BY <1>3, <1>4, <1>5 DEF SamePod

\* The cursor of lines that a poll collected has the place of the last of them,
\* when it has all of their time stamps.
LEMMA CursorMade ==
  ASSUME LogOrdered, NEW p, NEW q, PollFrom(p, q), NEW S, S \in SUBSET Collected, S # {},
         \A i \in S, j \in Collected : log[i].t = log[j].t => j \in S
  PROVE  \E m \in S : (\A j \in S : j <= m) /\ Fits(CursorOf(S, position), m)
                      /\ CursorOf(S, position) \in KCursor /\ CursorOf(S, position) # NoCursor
                      /\ CursorOf(S, position).of.pod = target
<1> DEFINE c == CursorOf(S, position)
           here(m, h) == {i \in S : log[i].t = log[m].t /\ log[i].h = h}
<1>1. /\ Len(log) \in Nat /\ DOMAIN log = 1..Len(log) /\ time \in Nat /\ q \in 0..Len(log) /\ q \in Nat
      /\ Fits(position, p) /\ container.pod = target /\ Live(target) = container
  BY LogLines, InReach DEF LogOrdered, PollFrom, container
<1>2. \A i \in DOMAIN log : i \in Nat /\ log[i].t \in Nat /\ log[i].h \in Hashes /\ log[i].of \in KContainers
                            /\ log[i].t <= time
  BY LogLines DEF LogOrdered
<1>3. Collected = {i \in DOMAIN log : q < i /\ log[i].of \in Reach}
  BY DEF PollFrom
<1>4. \A i \in S : i \in DOMAIN log /\ q < i /\ log[i].of \in Reach
  BY <1>3
<1>5. PICK m \in S : \A j \in S : j <= m
  <2>1. S \in SUBSET (0..Len(log))
    BY <1>1, <1>4
  <2> QED
    BY <1>1, <2>1, LastOf
<1>6. m \in DOMAIN log /\ m \in Nat /\ q < m /\ log[m].t \in Nat /\ log[m].of \in Reach
  BY <1>2, <1>4
<1>7. (CHOOSE i \in S : \A j \in S : j <= i) = m
  BY <1>1, <1>4, <1>5
<1>8. c = [t |-> log[m].t, of |-> IdentityOf(m),
           hashes |-> [h \in Hashes |->
             Cardinality(here(m, h)) + IF position.t = log[m].t THEN position.hashes[h] ELSE 0]]
  BY <1>7 DEF CursorOf
<1>9. ASSUME NEW h \in Hashes
      PROVE  /\ Cardinality(here(m, h)) \in Nat
             /\ Cardinality(Alike(q, log[m].t, h)) \in Nat
             /\ Cardinality(here(m, h)) + Cardinality(Alike(q, log[m].t, h)) = Cardinality(Alike(m, log[m].t, h))
  <2>1. PICK t : t = log[m].t
    OBVIOUS
  <2> DEFINE A == Alike(q, t, h)
             B == here(m, h)
             C == Alike(m, t, h)
  <2>2. \A i \in 1..m : i \in DOMAIN log /\ i <= m /\ m \in DOMAIN log
    BY <1>1, <1>6
  <2>3. ASSUME NEW i \in 1..m, log[i].t = t PROVE log[i].of = log[m].of
    BY <2>1, <2>2, <2>3 DEF LogOrdered
  <2>4. ASSUME NEW i \in 1..m, log[i].t = t, q < i PROVE i \in S
    <3>1. i \in Collected
      BY <1>3, <1>6, <2>2, <2>3, <2>4
    <3> QED
      BY <2>1, <2>4, <3>1
  <2>5. \A i \in S : i \in 1..m
    BY <1>1, <1>4, <1>5, <1>6
  <2>6. \A i : i \in A <=> i \in 1..q /\ log[i].t = t /\ log[i].h = h
    BY DEF Alike
  <2>7. \A i : i \in B <=> i \in S /\ log[i].t = t /\ log[i].h = h
    BY <2>1
  <2>8. \A i : i \in C <=> i \in 1..m /\ log[i].t = t /\ log[i].h = h
    BY DEF Alike
  <2> HIDE DEF A, B, C
  <2>9. \A i \in 1..m : i \in 1..q <=> ~ (q < i)
    BY <1>1, <1>6
  <2>10. \A i \in 1..q : i \in 1..m
    BY <1>1, <1>6
  <2>11. C = A \cup B
    BY <1>4, <2>4, <2>5, <2>6, <2>7, <2>8, <2>9, <2>10, Zenon
  <2>12. A \cap B = {}
    BY <1>4, <2>5, <2>6, <2>7, <2>9
  <2>13. IsFiniteSet(C) /\ IsFiniteSet(A)
    BY <1>1, <1>6, AlikeGrow DEF A, C
  <2>14. IsFiniteSet(B)
    BY <2>11, <2>13, FS_Subset
  <2>15. Cardinality(C) = Cardinality(A) + Cardinality(B) - Cardinality(A \cap B)
    BY <2>11, <2>13, <2>14, FS_Union
  <2>16. Cardinality(A \cap B) = 0
    BY <2>12, FS_EmptySet
  <2>17. Cardinality(A) \in Nat /\ Cardinality(B) \in Nat
    BY <2>13, <2>14, FS_CardinalityType
  <2>18. Cardinality(B) + Cardinality(A) = Cardinality(C)
    BY <2>15, <2>16, <2>17
  <2> QED
    BY <2>1, <2>17, <2>18 DEF A, B, C
<1>10. \A h \in Hashes : Cardinality(Alike(q, log[m].t, h)) = IF position.t = log[m].t THEN position.hashes[h] ELSE 0
  BY DEF PollFrom
<1>11. ASSUME NEW h \in Hashes PROVE c.hashes[h] = Cardinality(Alike(m, log[m].t, h)) /\ c.hashes[h] \in Nat
  <2> HIDE DEF here, c
  <2>1. c.hashes[h] = Cardinality(here(m, h)) + IF position.t = log[m].t THEN position.hashes[h] ELSE 0
    BY <1>8
  <2>2. Cardinality(Alike(q, log[m].t, h)) = IF position.t = log[m].t THEN position.hashes[h] ELSE 0
    BY <1>10
  <2>3. c.hashes[h] = Cardinality(here(m, h)) + Cardinality(Alike(q, log[m].t, h))
    BY <2>1, <2>2
  <2> QED
    BY <1>9, <2>3
<1>13. /\ IdentityOf(m) \in KContainers /\ IdentityOf(m).pod = target /\ IdentityOf(m).gen <= gen[target]
       /\ IdentityOf(m) = container <=> log[m].of = container
       /\ log[m].of.pod = target
  BY <1>1, <1>6, InReach
<1>14. c.t = log[m].t /\ c.of = IdentityOf(m)
  BY <1>8
<1>15. c \in KCursor
  <2>1. c = [t |-> c.t, of |-> c.of, hashes |-> c.hashes] /\ c.hashes \in [Hashes -> Nat]
    <3>1. c.hashes = [h \in Hashes |-> c.hashes[h]]
      BY <1>8
    <3> HIDE DEF c
    <3>2. c.hashes \in [Hashes -> Nat]
      BY <1>11, <3>1
    <3> QED
      BY <1>8, <3>2
  <2> HIDE DEF c
  <2> QED
    BY <1>6, <1>13, <1>14, <2>1 DEF KCursor
<1> HIDE DEF c
<1>16. c # NoCursor
  BY <1>6, <1>14 DEF NoCursor
<1>17. ASSUME NEW i \in DOMAIN log
       PROVE  /\ i <= m => /\ log[i].t <= c.t
                           /\ log[i].t = c.t => log[i].of.pod = c.of.pod
                           /\ log[i].of = Live(c.of.pod) => c.of = log[i].of
              /\ m < i => /\ c.t <= log[i].t
                          /\ c.of = Live(log[i].of.pod) => log[i].of = c.of
  <2>1. i <= m => /\ log[i].t <= log[m].t
                  /\ log[i].t = log[m].t => log[i].of = log[m].of
                  /\ log[i].of = Live(target) => log[m].of = log[i].of
    BY <1>6, <1>13 DEF LogOrdered
  <2>2. m < i => log[m].t <= log[i].t /\ (log[m].of = Live(log[i].of.pod) => log[i].of = log[m].of)
    <3>1. m < i => m <= i
      BY <1>2, <1>6
    <3> QED
      BY <1>6, <3>1 DEF LogOrdered
  <2>3. c.of = Live(log[i].of.pod) => log[i].of.pod = target
    BY <1>13, <1>14 DEF Live
  <2> QED
    BY <1>1, <1>13, <1>14, <2>1, <2>2, <2>3
<1>18. m \in 0..Len(log) /\ c.t <= time
  BY <1>1, <1>2, <1>6, <1>14
<1>20. target \in Pods
  BY DEF LogOrdered
<1>19. Fits(c, m)
  BY <1>11, <1>13, <1>14, <1>15, <1>16, <1>17, <1>18, <1>20 DEF Fits
<1> QED
  BY <1>5, <1>13, <1>14, <1>15, <1>16, <1>19 DEF c

\* The batches of a poll: the lines are cut into chunks, by time and never
\* between lines of one time stamp.
Cut(made, seen, b, N, chunk) ==
  /\ N \in Nat /\ 1 <= N /\ chunk \in [1..N -> SUBSET seen]
  /\ made = [n \in 1..N |-> [events |-> {i \in chunk[n] : IsEvent(i)},
                             of |-> {IdentityOf(i) : i \in {i \in chunk[n] : IsEvent(i)}},
                             cursor |-> CursorOf(chunk[n], b)]]
  /\ \A n \in 1..N : chunk[n] # {}
  /\ \A n \in 1..N : \A i \in chunk[n], j \in seen : log[i].t = log[j].t => j \in chunk[n]
  /\ \A i \in seen : \E n \in 1..N : i \in chunk[n]
  /\ \A m, n \in 1..N : m < n => \A i \in chunk[m], j \in chunk[n] : log[i].t < log[j].t

\* No event, no batch; otherwise the batches are the chunks.
LEMMA BatchesMade ==
  ASSUME LogOrdered, NEW seen, seen \in SUBSET DOMAIN log, NEW b, NEW made, made = BatchesOf(seen, b)
  PROVE  IF \A i \in seen : ~ IsEvent(i) THEN made = <<>>
         ELSE \E N, chunk : Cut(made, seen, b, N, chunk)
<1> DEFINE events == {i \in seen : IsEvent(i)}
           sameTime(t) == {i \in seen : log[i].t = t}
           Full == {p \in (0..time) \X (0..time) :
                      /\ Cardinality({i \in events : p[1] <= log[i].t /\ log[i].t < p[2]}) >= BatchSize
                      /\ \E i \in sameTime(p[2]) : IsEvent(i) /\ \A j \in sameTime(p[2]) : i <= j}
           stamps == {log[i].t : i \in seen}
           place == Place(stamps, time, Full)
           number(t) == place[t].number
           part(n) == {i \in seen : number(log[i].t) = n}
           batch(n) == [events |-> part(n) \cap events,
                        of |-> {IdentityOf(i) : i \in part(n) \cap events},
                        cursor |-> CursorOf(part(n), b)]
           M == number(time)
<1>1. made = IF events = {} THEN <<>> ELSE [n \in 1..M |-> batch(n)]
  BY DEF BatchesOf
<1>2. \A i \in seen : log[i].t \in 0..time
  BY LogLines DEF LogOrdered
<1>3. stamps \in SUBSET (0..time) /\ time \in Nat
  BY <1>2 DEF LogOrdered
<1> HIDE DEF Full
<1>4. /\ \A t \in 0..time : number(t) \in Nat
      /\ \A s, t \in 0..time : s <= t => number(s) <= number(t)
      /\ \A t \in stamps : 1 <= number(t)
      /\ \A n \in Nat : 1 <= n /\ n <= M => \E t \in stamps : number(t) = n
  <2> HIDE DEF stamps, place
  <2>1. place = Place(stamps, time, Full)
    BY DEF place
  <2>2. PICK k \in Nat : k = time
    BY <1>3
  <2>3. PICK T, F, pl : T = stamps /\ F = Full /\ pl = place
    OBVIOUS
  <2>4. T \in SUBSET (0..k) /\ pl = Place(T, k, F)
    BY <1>3, <2>1, <2>2, <2>3
  <2>5. Cuts(pl, T, k)
    BY <2>4, PlaceCuts
  <2> QED
    BY <2>2, <2>3, <2>5 DEF Cuts
<1> HIDE DEF place, number
<1>5. M \in Nat /\ time \in 0..time
  BY <1>3, <1>4
<1>6. \A i \in seen : number(log[i].t) \in 1..M
  BY <1>2, <1>4, <1>5
<1>7. CASE \A i \in seen : ~ IsEvent(i)
  BY <1>1, <1>7
<1>8. CASE ~ \A i \in seen : ~ IsEvent(i)
  <2>1. PICK N, chunk : N = M /\ chunk = [n \in 1..N |-> part(n)]
    OBVIOUS
  <2>2. N \in Nat /\ 1 <= N
    BY <1>5, <1>6, <1>8, <2>1
  <2>3. \A n \in 1..N : chunk[n] = part(n) /\ part(n) \subseteq seen
    BY <2>1
  <2>4. chunk \in [1..N -> SUBSET seen]
    <3> HIDE DEF part
    <3> QED
      BY <2>1, <2>3
  <2>5. made = [n \in 1..N |-> [events |-> {i \in chunk[n] : IsEvent(i)},
                               of |-> {IdentityOf(i) : i \in {i \in chunk[n] : IsEvent(i)}},
                               cursor |-> CursorOf(chunk[n], b)]]
    <3>1. made = [n \in 1..N |-> batch(n)]
      BY <1>1, <1>8, <2>1
    <3>2. \A n \in 1..N : batch(n) = [events |-> {i \in chunk[n] : IsEvent(i)},
                                      of |-> {IdentityOf(i) : i \in {i \in chunk[n] : IsEvent(i)}},
                                      cursor |-> CursorOf(chunk[n], b)]
      <4> SUFFICES ASSUME NEW n \in 1..N
                   PROVE  batch(n) = [events |-> {i \in chunk[n] : IsEvent(i)},
                                      of |-> {IdentityOf(i) : i \in {i \in chunk[n] : IsEvent(i)}},
                                      cursor |-> CursorOf(chunk[n], b)]
        OBVIOUS
      <4>1. part(n) \cap events = {i \in chunk[n] : IsEvent(i)} /\ chunk[n] = part(n)
        BY <2>3
      <4>2. PICK E : E = part(n) \cap events
        OBVIOUS
      <4> HIDE DEF part, events
      <4>3. batch(n) = [events |-> E, of |-> {IdentityOf(i) : i \in E}, cursor |-> CursorOf(chunk[n], b)]
        BY <4>1, <4>2
      <4> HIDE DEF batch
      <4> QED
        BY <4>1, <4>2, <4>3
    <3> HIDE DEF batch
    <3> QED
      BY <3>1, <3>2
  <2>6. \A n \in 1..N : chunk[n] # {}
    <3> SUFFICES ASSUME NEW n \in 1..N PROVE chunk[n] # {}
      OBVIOUS
    <3>1. n \in Nat /\ 1 <= n /\ n <= M
      BY <2>1, <2>2
    <3>2. PICK i \in seen : number(log[i].t) = n
      BY <1>4, <3>1
    <3> QED
      BY <2>3, <3>2
  <2>7. \A n \in 1..N : \A i \in chunk[n], j \in seen : log[i].t = log[j].t => j \in chunk[n]
    BY <2>3
  <2>8. \A i \in seen : \E n \in 1..N : i \in chunk[n]
    BY <1>6, <2>1, <2>3
  <2>9. ASSUME NEW m \in 1..N, NEW n \in 1..N, m < n, NEW i \in chunk[m], NEW j \in chunk[n]
        PROVE  log[i].t < log[j].t
    <3>1. i \in seen /\ j \in seen /\ number(log[i].t) < number(log[j].t)
      BY <2>3, <2>9
    <3>2. log[i].t \in 0..time /\ log[j].t \in 0..time
      BY <1>2, <3>1
    <3> QED
      BY <1>3, <1>4, <3>1, <3>2
  <2> HIDE DEF part, M
  <2>10. Cut(made, seen, b, N, chunk)
    BY <2>2, <2>4, <2>5, <2>6, <2>7, <2>8, <2>9 DEF Cut
  <2> QED
    BY <1>8, <2>10
<1> QED
  BY <1>7, <1>8

\* What the chunks of a poll come to: every batch's cursor has the place of its
\* chunk's last line.
Placed(made, N, chunk, top) ==
  /\ top \in [1..N -> DOMAIN log] /\ DOMAIN made = 1..N /\ made \in Seq(KBatch) /\ Len(made) = N
  /\ \A n \in 1..N : top[n] \in chunk[n] /\ (\A i \in chunk[n] : i <= top[n])
                     /\ Fits(made[n].cursor, top[n]) /\ made[n].cursor # NoCursor
                     /\ made[n].cursor.of.pod = target
  /\ \A m, n \in 1..N : \A i \in chunk[m] : (m <= n => i <= top[n]) /\ (n < m => top[n] < i)

\* Each chunk ends at a line, and its cursor has that place.
LEMMA ChunksPlaced ==
  ASSUME LogOrdered, NEW p, NEW q, PollFrom(p, q), NEW b, b = position, NEW made, NEW N, NEW chunk,
         NEW seen, seen = Collected, Cut(made, seen, b, N, chunk)
  PROVE  \E top : Placed(made, N, chunk, top)
<1>1. /\ Len(log) \in Nat /\ DOMAIN log = 1..Len(log)
      /\ \A i \in DOMAIN log : i \in Nat /\ log[i].t \in Nat
  BY LogLines
<1>2. seen \subseteq DOMAIN log
  BY DEF PollFrom
<1>3. ASSUME NEW n \in 1..N
      PROVE  \E m \in chunk[n] : (\A j \in chunk[n] : j <= m) /\ Fits(CursorOf(chunk[n], b), m)
                      /\ CursorOf(chunk[n], b) \in KCursor /\ CursorOf(chunk[n], b) # NoCursor
                      /\ CursorOf(chunk[n], b).of.pod = target
  <2>1. PICK S : S = chunk[n]
    OBVIOUS
  <2>2. S \in SUBSET Collected /\ S # {} /\ \A i \in S, j \in Collected : log[i].t = log[j].t => j \in S
    BY <2>1 DEF Cut
  <2>3. \E m \in S : (\A j \in S : j <= m) /\ Fits(CursorOf(S, position), m)
                      /\ CursorOf(S, position) \in KCursor /\ CursorOf(S, position) # NoCursor
                      /\ CursorOf(S, position).of.pod = target
    BY <2>2, CursorMade
  <2> QED
    BY <2>1, <2>3
<1>4. PICK top : top = [n \in 1..N |-> CHOOSE m \in chunk[n] :
                            (\A j \in chunk[n] : j <= m) /\ Fits(CursorOf(chunk[n], b), m)]
  OBVIOUS
<1>5. ASSUME NEW n \in 1..N
      PROVE  /\ top[n] \in chunk[n] /\ (\A j \in chunk[n] : j <= top[n])
             /\ Fits(CursorOf(chunk[n], b), top[n])
             /\ CursorOf(chunk[n], b) \in KCursor /\ CursorOf(chunk[n], b) # NoCursor
             /\ CursorOf(chunk[n], b).of.pod = target
  BY <1>3, <1>4
<1>6. \A n \in 1..N : chunk[n] \subseteq DOMAIN log
  BY <1>2 DEF Cut
<1>7. \A n \in 1..N : made[n] = [events |-> {i \in chunk[n] : IsEvent(i)},
                                  of |-> {IdentityOf(i) : i \in {i \in chunk[n] : IsEvent(i)}},
                                  cursor |-> CursorOf(chunk[n], b)]
  BY DEF Cut
<1>8. \A n \in 1..N : made[n].cursor = CursorOf(chunk[n], b) /\ made[n] \in KBatch
  <2> SUFFICES ASSUME NEW n \in 1..N PROVE made[n].cursor = CursorOf(chunk[n], b) /\ made[n] \in KBatch
    OBVIOUS
  <2>1. {i \in chunk[n] : IsEvent(i)} \subseteq Nat
    BY <1>1, <1>6
  <2>2. PICK E : E = {i \in chunk[n] : IsEvent(i)}
    OBVIOUS
  <2>3. PICK c : c = CursorOf(chunk[n], b)
    OBVIOUS
  <2>4. PICK o : o = {IdentityOf(i) : i \in E}
    OBVIOUS
  <2>5. made[n] = [events |-> E, of |-> o, cursor |-> c]
    BY <1>7, <2>2, <2>3, <2>4
  <2>6. o \in SUBSET KContainers
    <3>1. \A i \in E : i \in Collected
      BY <2>2 DEF Cut
    <3>2. \A i \in E : IdentityOf(i) \in KContainers
      BY <3>1, InReach DEF PollFrom
    <3> QED
      BY <2>4, <3>2
  <2>7. E \in SUBSET Nat /\ c \in KCursor
    BY <1>5, <2>1, <2>2, <2>3
  <2> QED
    BY <2>3, <2>5, <2>6, <2>7 DEF KBatch
<1>9. DOMAIN made = 1..N /\ made \in Seq(KBatch) /\ Len(made) = N
  <2>1. N \in Nat /\ made \in [1..N -> KBatch]
    BY <1>8 DEF Cut
  <2> QED
    BY <2>1
<1>10. top \in [1..N -> DOMAIN log]
  BY <1>4, <1>5, <1>6
<1>11. ASSUME NEW m \in 1..N, NEW n \in 1..N, NEW i \in chunk[m]
       PROVE  (m <= n => i <= top[n]) /\ (n < m => top[n] < i)
  <2>1. i \in DOMAIN log /\ top[n] \in DOMAIN log /\ i \in Nat /\ top[n] \in Nat /\ top[n] \in chunk[n]
    BY <1>1, <1>5, <1>6
  <2>2. i <= top[n] => log[i].t <= log[top[n]].t
    BY <2>1 DEF LogOrdered
  <2>3. top[n] <= i => log[top[n]].t <= log[i].t
    BY <2>1 DEF LogOrdered
  <2>4. m < n => log[i].t < log[top[n]].t
    BY <2>1 DEF Cut
  <2>5. n < m => log[top[n]].t < log[i].t
    BY <2>1 DEF Cut
  <2>6. m = n => i <= top[n]
    BY <1>5
  <2>7. m \in Nat /\ n \in Nat
    OBVIOUS
  <2>8. log[i].t \in Nat /\ log[top[n]].t \in Nat
    BY <1>1, <2>1
  <2> QED
    BY <2>1, <2>2, <2>3, <2>4, <2>5, <2>6, <2>7, <2>8
<1>12. Placed(made, N, chunk, top)
  BY <1>5, <1>8, <1>9, <1>10, <1>11 DEF Placed
<1> QED
  BY <1>12

\* What a poll has made of the lines it has seen: its batches hold their events in
\* order, and every cursor, the new position too, has a place at one of them, or
\* the position stays, or it begins where the first poll did.
PollMade(seen, made, c, p, q, N, top, z) ==
  /\ N \in Nat /\ DOMAIN made = 1..N /\ made \in Seq(KBatch) /\ Len(made) = N
  /\ top \in [1..N -> seen]
  /\ \A n \in 1..N : /\ Fits(made[n].cursor, top[n]) /\ made[n].cursor.of.pod = target
                     /\ made[n].events \subseteq seen
  /\ \A i \in seen : IsEvent(i) => \E n \in 1..N : i \in made[n].events
  /\ \A m, n \in 1..N : \A i \in made[m].events : (m <= n => i <= top[n]) /\ (n < m => top[n] < i)
  /\ z \in 0..Len(log) /\ Fits(c, z) /\ c # NoCursor
  /\ \/ z \in seen /\ c.of.pod = target
     \/ seen = {} /\ position # NoCursor /\ c = position /\ z = p
     \/ seen = {} /\ position = NoCursor /\ c.of.pod = target /\ z = q
  /\ \A n \in 1..N : \A i \in made[n].events : i <= z

\* Whatever a poll collects, its batches and the new position are like that.
LEMMA PollResult ==
  ASSUME LogOrdered, NEW p, NEW q, PollFrom(p, q), NEW b, b = position, NEW seen, seen = Collected,
         NEW made, made = BatchesOf(seen, b), NEW c,
         c = IF seen = {}
             THEN IF b = NoCursor
                  THEN [t |-> time, of |-> container, hashes |-> [h \in Hashes |-> 0]] ELSE b
             ELSE IF made # <<>> THEN made[Len(made)].cursor ELSE CursorOf(seen, b)
  PROVE  \E N, top, z : PollMade(seen, made, c, p, q, N, top, z)
<1>1. /\ Len(log) \in Nat /\ DOMAIN log = 1..Len(log) /\ time \in Nat
      /\ \A i \in DOMAIN log : i \in Nat /\ log[i].t \in Nat /\ log[i].t <= time
                               /\ (log[i].t = time => log[i].of = Live(log[i].of.pod))
  BY LogLines DEF LogOrdered
<1>2. /\ seen \subseteq DOMAIN log /\ q \in 0..Len(log) /\ q \in Nat /\ p \in 0..Len(log)
      /\ Fits(position, p)
      /\ container \in KContainers /\ container.pod = target /\ target \in Pods
      /\ Live(target) = container /\ container.gen <= gen[target]
  <2>1. Fits(position, p) /\ q \in 0..Len(log) /\ seen \subseteq DOMAIN log
    BY DEF PollFrom
  <2>2. p \in 0..Len(log)
    BY <2>1 DEF Fits
  <2>3. gen[target] \in Nat /\ container.gen = gen[target] /\ target \in Pods /\ Live(target) = container
    BY DEF LogOrdered, container, Live
  <2> QED
    BY <1>1, <2>1, <2>2, <2>3, InReach
<1>3. IF \A i \in seen : ~ IsEvent(i) THEN made = <<>> ELSE \E N, chunk : Cut(made, seen, b, N, chunk)
  BY <1>2, BatchesMade
<1>4. CASE \A i \in seen : ~ IsEvent(i)
  <2>1. made = <<>> /\ made \in Seq(KBatch) /\ DOMAIN made = 1..0 /\ Len(made) = 0
    <3>1. made = <<>>
      BY <1>3, <1>4, Zenon
    <3>2. <<>> \in Seq(KBatch) /\ DOMAIN <<>> = {} /\ Len(<<>>) = 0
      BY EmptySeq
    <3>3. 1..0 = {}
      OBVIOUS
    <3> QED
      BY <3>1, <3>2, <3>3, Zenon
  <2>2. PICK top : top = [n \in 1..0 |-> 0]
    OBVIOUS
  <2>3. top \in [1..0 -> seen]
    BY <2>2
  <2>4. ASSUME NEW z, z \in 0..Len(log), Fits(c, z), c # NoCursor,
               \/ z \in seen /\ c.of.pod = target
               \/ seen = {} /\ position # NoCursor /\ c = position /\ z = p
               \/ seen = {} /\ position = NoCursor /\ c.of.pod = target /\ z = q
        PROVE  \E N, y, x : PollMade(seen, made, c, p, q, N, y, x)
    <3>1. PollMade(seen, made, c, p, q, 0, top, z)
      BY <1>4, <2>1, <2>3, <2>4 DEF PollMade
    <3> QED
      BY <3>1
  <2>5. CASE seen = {} /\ b = NoCursor
    <3>1. c = [t |-> time, of |-> container, hashes |-> [h \in Hashes |-> 0]]
      BY <2>5
    <3>2. c \in KCursor /\ c.t = time /\ c.of = container /\ \A h \in Hashes : c.hashes[h] = 0
      BY <1>1, <1>2, <3>1 DEF KCursor
    <3>3. c # NoCursor
      BY <1>1, <3>2 DEF NoCursor
    <3>4. \A i \in DOMAIN log : i <= q <=> log[i].t < time
      BY <2>5 DEF PollFrom
    <3>5. \A i \in DOMAIN log :
            /\ i <= q => /\ log[i].t <= c.t
                         /\ log[i].t = c.t => log[i].of.pod = c.of.pod
                         /\ log[i].of = Live(c.of.pod) => c.of = log[i].of
            /\ q < i => /\ c.t <= log[i].t
                        /\ c.of = Live(log[i].of.pod) => log[i].of = c.of
      <4>1. \A i \in DOMAIN log : i \in Nat /\ (i <= q \/ q < i) /\ ~ (i <= q /\ q < i)
        BY <1>1, <1>2
      <4>2. \A i \in DOMAIN log : q < i => time <= log[i].t /\ log[i].of = Live(log[i].of.pod)
        BY <1>1, <3>4, <4>1
      <4>3. \A i \in DOMAIN log : i <= q => log[i].t <= time /\ log[i].t # time
        BY <1>1, <3>4
      <4>4. Live(c.of.pod) = c.of
        BY <1>2, <3>2
      <4> QED
        BY <3>2, <4>2, <4>3, <4>4, Zenon
    <3>6. ASSUME NEW h \in Hashes PROVE c.hashes[h] = Cardinality(Alike(q, c.t, h))
      <4>1. \A i \in 1..q : log[i].t # c.t
        <5>1. \A i \in 1..q : i \in DOMAIN log /\ log[i].t < time /\ log[i].t \in Nat
          BY <1>1, <1>2, <3>4
        <5> QED
          BY <1>1, <3>2, <5>1
      <4>2. Cardinality(Alike(q, c.t, h)) = 0
        BY <1>2, <4>1, NoneAlike
      <4> QED
        BY <3>2, <4>2
    <3>7. c.of.pod = target /\ c.of.gen <= gen[target] /\ c.t <= time
      BY <1>1, <1>2, <3>2
    <3>8. Fits(c, q)
      BY <1>2, <3>2, <3>3, <3>5, <3>6, <3>7 DEF Fits
    <3> QED
      BY <1>2, <2>4, <2>5, <3>3, <3>7, <3>8
  <2>6. CASE seen = {} /\ b # NoCursor
    <3>1. c = position /\ c # NoCursor
      BY <2>6
    <3>2. Fits(c, p)
      BY <1>2, <3>1
    <3> QED
      BY <1>2, <2>4, <2>6, <3>1, <3>2
  <2>7. CASE seen # {}
    <3>1. c = CursorOf(seen, position)
      BY <2>1, <2>7
    <3>2. PICK m \in seen : /\ Fits(CursorOf(seen, position), m) /\ CursorOf(seen, position) # NoCursor
                            /\ CursorOf(seen, position).of.pod = target
      BY <2>7, CursorMade
    <3>3. m \in 0..Len(log)
      BY <1>1, <1>2
    <3> QED
      BY <2>4, <3>1, <3>2, <3>3
  <2> QED
    BY <2>5, <2>6, <2>7
<1>5. CASE ~ \A i \in seen : ~ IsEvent(i)
  <2>1. PICK N, chunk : Cut(made, seen, b, N, chunk)
    BY <1>3, <1>5
  <2>2. PICK top : Placed(made, N, chunk, top)
    BY <2>1, ChunksPlaced
  <2>3. N \in Nat /\ N \in 1..N /\ \A n \in 1..N : chunk[n] \subseteq seen
    <3>1. N \in Nat /\ 1 <= N /\ chunk \in [1..N -> SUBSET seen]
      BY <2>1 DEF Cut
    <3> QED
      BY <3>1
  <2>4. ASSUME NEW n \in 1..N
        PROVE  /\ made[n].events = {i \in chunk[n] : IsEvent(i)}
               /\ top[n] \in DOMAIN log /\ top[n] \in seen /\ n <= N
    <3>1. made[n].events = {i \in chunk[n] : IsEvent(i)}
      BY <2>1 DEF Cut
    <3>2. top[n] \in seen
      BY <2>2, <2>3 DEF Placed
    <3> QED
      BY <1>2, <2>3, <3>1, <3>2
  <2>5. made # <<>> /\ Len(made) = N /\ DOMAIN made = 1..N /\ made \in Seq(KBatch)
    BY <2>2, <2>3, EmptySeq DEF Placed
  <2>6. c = made[N].cursor
    BY <1>5, <2>5
  <2>7. Fits(c, top[N]) /\ c # NoCursor /\ c.of.pod = target /\ top[N] \in 0..Len(log) /\ top[N] \in seen
    BY <1>1, <1>2, <2>2, <2>3, <2>4, <2>6 DEF Placed
  <2>8. ASSUME NEW m \in 1..N, NEW n \in 1..N, NEW i \in made[m].events
        PROVE  (m <= n => i <= top[n]) /\ (n < m => top[n] < i)
    BY <2>2, <2>4 DEF Placed
  <2>9. \A n \in 1..N : \A i \in made[n].events : i <= top[N]
    BY <2>3, <2>4, <2>8
  <2>10. \A i \in seen : IsEvent(i) => \E n \in 1..N : i \in made[n].events
    <3> SUFFICES ASSUME NEW i \in seen, IsEvent(i) PROVE \E n \in 1..N : i \in made[n].events
      OBVIOUS
    <3>1. PICK n \in 1..N : i \in chunk[n]
      BY <2>1 DEF Cut
    <3> QED
      BY <2>4, <3>1
  <2>11. \A n \in 1..N : /\ Fits(made[n].cursor, top[n]) /\ made[n].cursor.of.pod = target
                         /\ made[n].events \subseteq seen
    <3> SUFFICES ASSUME NEW n \in 1..N
                 PROVE  /\ Fits(made[n].cursor, top[n]) /\ made[n].cursor.of.pod = target
                        /\ made[n].events \subseteq seen
      OBVIOUS
    <3>1. made[n].events \subseteq seen
      BY <2>3, <2>4
    <3> QED
      BY <2>2, <2>4, <3>1 DEF Placed
  <2>12. top \in [1..N -> seen]
    BY <2>2, <2>4 DEF Placed
  <2>13. PollMade(seen, made, c, p, q, N, top, top[N])
    BY <2>3, <2>5, <2>7, <2>8, <2>9, <2>10, <2>11, <2>12 DEF PollMade
  <2> QED
    BY <2>13
<1> QED
  BY <1>4, <1>5

\* A poll: the lines it collects go into batches, and what it can no longer
\* have is unreadable.
LEMMA PollKeepsLines == ASSUME KubeInv, PollTarget PROVE KubeInv'
<1>1. PICK b, seen, made, c :
        /\ b = position /\ seen = Collected /\ made = BatchesOf(seen, b) /\ c = position'
        /\ queue = <<>> /\ queue' = made
        /\ c = IF seen = {}
               THEN IF b = NoCursor
                    THEN [t |-> time, of |-> container, hashes |-> [h \in Hashes |-> 0]] ELSE b
               ELSE IF made # <<>> THEN made[Len(made)].cursor ELSE CursorOf(seen, b)
  <2>1. queue = <<>> /\ queue' = BatchesOf(Collected, position)
    BY DEF PollTarget
  <2>2. position' =
          IF Collected = {}
          THEN IF position = NoCursor
               THEN [t |-> time, of |-> container, hashes |-> [h \in Hashes |-> 0]] ELSE position
          ELSE IF BatchesOf(Collected, position) # <<>>
          THEN BatchesOf(Collected, position)[Len(BatchesOf(Collected, position))].cursor
          ELSE CursorOf(Collected, position)
    BY Zenon DEF PollTarget
  <2> QED
    BY <2>1, <2>2
<1>2. /\ read' = DOMAIN log
      /\ since' = (IF position = NoCursor THEN time ELSE since)
      /\ again' = again \cup (IF SamePod THEN {} ELSE {i \in seen : times[i] > 0})
      /\ UNCHANGED <<log, gen, kept, target, time, checkpoint, stored, times>>
  <2>1. again' = again \cup (IF SamePod THEN {} ELSE {i \in Collected : times[i] > 0})
    BY DEF PollTarget
  <2> QED
    BY <1>1, <2>1 DEF PollTarget, cluster
<1>3. PICK fresh :
        /\ unreadable' = unreadable \cup fresh
        /\ fresh = {i \in DOMAIN log :
             /\ i \notin read /\ times[i] = 0 /\ log[i].of # container
             /\ ~ (SamePod /\ kept[target] /\ log[i].of = Previous)}
  BY DEF PollTarget
<1>4. LogOrdered /\ KubeHistory
  BY DEF KubeInv
<1>5. PICK f : KubePlaces(f)
  BY DEF KubeInv
<1>6. PICK p, o : p = f[1] /\ o = f[0]
  OBVIOUS
<1>7. Len(queue) = 0 /\ DOMAIN queue = {}
  BY <1>1, EmptySeq
<1>8. KubeSettled(0, o) /\ KubeSettled(1, p)
  BY <1>5, <1>6, <1>7 DEF KubePlaces
<1>9. /\ Fits(position, p) /\ Fits(checkpoint, o) /\ p \in 0..Len(log) /\ o \in 0..Len(log)
      /\ KubeCursorAt(0) = checkpoint /\ KubeCursorAt(1) = position
  BY <1>7, <1>8 DEF KubeSettled, KubeCursorAt, Fits
<1>10. PICK q : PollFrom(p, q)
  BY <1>4, <1>9, PollBegins
<1>11. PICK N, top, z : PollMade(seen, made, c, p, q, N, top, z)
  BY <1>1, <1>4, <1>10, PollResult
<1>12. /\ Len(log) \in Nat /\ DOMAIN log = 1..Len(log) /\ time \in Nat /\ since \in Nat /\ since <= time
       /\ \A i \in DOMAIN log : /\ i \in Nat /\ log[i].t \in Nat /\ log[i].t <= time /\ times[i] \in Nat
                                /\ (log[i].t = time => log[i].of = Live(log[i].of.pod))
  <2>1. times \in Seq(Nat) /\ Len(times) = Len(log) /\ since \in Nat /\ since <= time
    BY <1>4 DEF KubeHistory
  <2>2. /\ Len(log) \in Nat /\ DOMAIN log = 1..Len(log) /\ time \in Nat
        /\ \A i \in DOMAIN log : /\ i \in Nat /\ log[i].t \in Nat /\ log[i].t <= time
                                 /\ (log[i].t = time => log[i].of = Live(log[i].of.pod))
    BY <1>4, LogLines DEF LogOrdered
  <2>3. DOMAIN times = DOMAIN log
    BY <2>1, <2>2, LenProperties
  <2> QED
    BY <2>1, <2>2, <2>3, ElementOfSeq
<1>13. /\ seen = {i \in DOMAIN log : q < i /\ log[i].of \in Reach} /\ q \in 0..Len(log)
       /\ (position # NoCursor => q = IF SamePod THEN p ELSE 0)
       /\ (position = NoCursor => \A i \in DOMAIN log : i <= q <=> log[i].t < time)
       /\ container.pod = target /\ Live(target) = container
       /\ \A i \in DOMAIN log : log[i].of \in Reach => log[i].of.pod = target
  BY <1>1, <1>4, <1>9, <1>10, InReach DEF PollFrom, container
<1>14. SamePod => q = p /\ \A i : InPod(position, i) <=> log[i].of.pod = target
  BY <1>13 DEF SamePod, InPod
<1>15. since' \in Nat /\ since <= since' /\ since' <= time
  BY <1>2, <1>12
<1>16. \A i \in DOMAIN log : OwedLine(i)' => OwedLine(i) /\ IsEvent(i) /\ log[i].t >= since'
  BY <1>2, <1>12, <1>15 DEF OwedLine, IsEvent
<1>17. ASSUME NEW i \in seen PROVE times[i] = 0 \/ i \in again'
  <2>1. i \in DOMAIN log /\ q < i /\ log[i].of.pod = target
    BY <1>13
  <2>2. CASE SamePod
    <3>1. p < i /\ InPod(KubeCursorAt(1), i)
      BY <1>9, <1>14, <2>1, <2>2
    <3> QED
      BY <1>2, <1>8, <2>1, <3>1 DEF KubeSettled
  <2>3. CASE ~ SamePod
    BY <1>2, <1>12, <2>1, <2>3
  <2> QED
    BY <2>2, <2>3
\* What the poll does not see, though its container is in reach, is settled.
<1>18. ASSUME NEW i \in DOMAIN log, OwedLine(i)', i \notin seen,
              log[i].of = container \/ (SamePod /\ kept[target] /\ log[i].of = Previous)
       PROVE  times[i] >= 1 \/ i \in unreadable'
  <2>1. CASE position = NoCursor
    <3>1. log[i].of \in Reach
      BY <1>18, <2>1 DEF Reach, SamePod
    <3>2. i <= q
      BY <1>12, <1>13, <1>18, <3>1
    <3>3. log[i].t < time /\ log[i].t >= time
      BY <1>2, <1>13, <1>16, <1>18, <2>1, <3>2
    <3> QED
      BY <1>12, <3>3
  <2>2. CASE position # NoCursor /\ ~ SamePod
    <3>1. log[i].of \in Reach /\ q = 0
      BY <1>13, <1>18, <2>2 DEF Reach
    <3> QED
      BY <1>12, <1>13, <1>18, <3>1
  <2>3. CASE SamePod
    <3>1. i <= p
      <4> SUFFICES ASSUME p < i PROVE FALSE
        BY <1>9, <1>12
      <4>1. log[i].of \notin Reach
        BY <1>13, <1>14, <1>18, <2>3
      <4>2. SameContainer /\ log[i].of = Previous /\ log[i].of # container
        BY <1>18, <4>1 DEF Reach
      <4>3. log[i].of.pod = target
        BY <1>4, <1>13, <4>2 DEF Previous, container, Live
      <4>4. position # NoCursor /\ position.of = Live(log[i].of.pod)
        BY <1>13, <4>2, <4>3 DEF SameContainer
      <4>5. log[i].of = position.of
        BY <1>9, <4>4 DEF Fits
      <4> QED
        BY <4>2, <4>5 DEF SameContainer
    <3>2. log[i].of.pod = target
      BY <1>4, <1>13, <1>18 DEF Previous, container, Live
    <3>3. InPod(KubeCursorAt(1), i) /\ OwedLine(i)
      BY <1>9, <1>14, <1>16, <1>18, <2>3, <3>2
    <3> QED
      BY <1>3, <1>7, <1>8, <3>1, <3>3 DEF KubeSettled
  <2> QED
    BY <2>1, <2>2, <2>3 DEF SamePod
<1>19. /\ N \in Nat /\ DOMAIN made = 1..N /\ made \in Seq(KBatch) /\ Len(made) = N
       /\ \A n \in 1..N : top[n] \in seen /\ top[n] \in DOMAIN log
       /\ \A n \in 1..N : /\ Fits(made[n].cursor, top[n]) /\ made[n].cursor.of.pod = target
                          /\ made[n].events \subseteq seen
       /\ \A i \in seen : IsEvent(i) => \E n \in 1..N : i \in made[n].events
       /\ \A m, n \in 1..N : \A i \in made[m].events : (m <= n => i <= top[n]) /\ (n < m => top[n] < i)
       /\ z \in 0..Len(log) /\ Fits(c, z) /\ c # NoCursor
       /\ \/ z \in seen /\ c.of.pod = target
          \/ seen = {} /\ position # NoCursor /\ c = position /\ z = p
          \/ seen = {} /\ position = NoCursor /\ c.of.pod = target /\ z = q
       /\ \A n \in 1..N : \A i \in made[n].events : i <= z
  BY <1>11, <1>13 DEF PollMade
\* What is owed is stored, out of reach or in a batch.
<1>20. ASSUME NEW i \in DOMAIN log, OwedLine(i)'
       PROVE  times[i] >= 1 \/ i \in unreadable' \/ \E n \in 1..N : i \in made[n].events
  <2>1. CASE i \in seen
    BY <1>16, <1>19, <1>20, <2>1
  <2>2. CASE i \in read
    BY <1>3, <1>4, <1>7, <1>16, <1>20, <2>2 DEF KubeHistory
  <2>3. CASE i \notin seen /\ (log[i].of = container \/ (SamePod /\ kept[target] /\ log[i].of = Previous))
    BY <1>18, <1>20, <2>3
  <2>4. CASE /\ i \notin read /\ log[i].of # container
             /\ ~ (SamePod /\ kept[target] /\ log[i].of = Previous)
    <3>1. times[i] = 0 \/ times[i] >= 1
      BY <1>12
    <3> QED
      BY <1>3, <2>4, <3>1
  <2> QED
    BY <2>1, <2>2, <2>3, <2>4
\* Behind a line of the target that the poll saw, it saw all that run there.
<1>21. ASSUME NEW x \in seen, NEW i \in DOMAIN log, x < i, log[i].of.pod = target
       PROVE  times[i] = 0 \/ i \in again'
  <2>1. x \in DOMAIN log /\ q < x /\ log[x].of \in Reach /\ x <= i /\ q < i
    BY <1>12, <1>13, <1>21
  <2>2. CASE SamePod
    <3>1. p < i /\ InPod(KubeCursorAt(1), i)
      BY <1>9, <1>14, <1>21, <2>1, <2>2
    <3> QED
      BY <1>2, <1>8, <3>1 DEF KubeSettled
  <2>3. CASE ~ SamePod
    <3>1. log[x].of = Live(log[i].of.pod) /\ Reach = {container}
      BY <1>13, <1>21, <2>1, <2>3 DEF Reach
    <3>2. log[i].of = log[x].of
      BY <1>4, <2>1, <3>1 DEF LogOrdered
    <3>3. i \in seen
      BY <1>13, <2>1, <3>2
    <3> QED
      BY <1>17, <3>3
  <2> QED
    BY <2>2, <2>3
<1>22. KubeHistory'
  <2>1. \A j \in DOMAIN made : \A i \in made[j].events : i \in DOMAIN log /\ (times[i] = 0 \/ i \in again')
    BY <1>13, <1>17, <1>19
  <2>2. ASSUME NEW j \in DOMAIN made, NEW k \in DOMAIN made, j < k, NEW i \in made[j].events, i \in made[k].events
        PROVE FALSE
    <3>1. j \in 1..N /\ k \in 1..N /\ j <= j /\ j < k
      BY <1>19, <2>2
    <3>2. i <= top[j] /\ top[j] < i
      BY <1>19, <2>2, <3>1
    <3>3. i \in Nat /\ top[j] \in Nat
      BY <1>12, <1>19, <2>1, <3>1
    <3> QED
      BY <3>2, <3>3
  <2>3. \A j, k \in DOMAIN made : j < k => made[j].events \cap made[k].events = {}
    BY <2>2
  <2>4. times' \in Seq(Nat) /\ Len(times') = Len(log') /\ read' \subseteq DOMAIN log'
    BY <1>2, <1>4 DEF KubeHistory
  <2>5. queue' = made /\ made \in Seq(KBatch) /\ position' # NoCursor
    BY <1>1, <1>19
  <2>6. queue' \in Seq(KBatch)
    BY <2>5
  <2>7. \A j \in DOMAIN queue' : \A i \in queue'[j].events : i \in DOMAIN log' /\ (times'[i] = 0 \/ i \in again')
    BY <1>2, <2>1, <2>5
  <2>8. \A j, k \in DOMAIN queue' : j < k => queue'[j].events \cap queue'[k].events = {}
    BY <2>3, <2>5
  <2>9. since' \in Nat /\ since' <= time'
    BY <1>2, <1>15
  <2>10. \A i \in DOMAIN log' : times'[i] <= 1 \/ i \in again'
    BY <1>2, <1>4 DEF KubeHistory
  <2>11. \A d \in stored' : \A i \in d.events : i \in DOMAIN log' /\ times'[i] >= 1
    BY <1>2, <1>4 DEF KubeHistory
  <2>12. ASSUME NEW i \in read', OwedLine(i)'
         PROVE  \/ times'[i] >= 1 \/ i \in unreadable'
                \/ \E j \in DOMAIN queue' : i \in queue'[j].events
    BY <1>2, <1>19, <1>20, <2>5, <2>12
  <2> QED
    BY <2>4, <2>5, <2>6, <2>7, <2>8, <2>9, <2>10, <2>11, <2>12 DEF KubeHistory, KBatch, KCursor, KContainers, NoCursor
<1>23. ASSUME NEW d, NEW x, Fits(d, x) PROVE Fits(d, x)'
  BY <1>2, <1>23 DEF Fits, Alike, KCursor, KContainers, NoCursor, Live
<1>24. ASSUME NEW k \in 0..N + 1, NEW d, NEW x, Fits(d, x), KubeCursorAt(k)' = d,
              \A i \in DOMAIN log : x < i /\ InPod(d, i) => times[i] = 0 \/ i \in again',
              \A i \in DOMAIN log : i <= x /\ InPod(d, i) /\ OwedLine(i)' =>
                times[i] >= 1 \/ i \in unreadable' \/ \E j \in DOMAIN made : j <= k /\ i \in made[j].events,
              \A j \in DOMAIN made : j <= k => \A i \in made[j].events : i <= x
       PROVE  KubeSettled(k, x)'
  <2>1. Fits(d, x)'
    BY <1>23, <1>24
  <2>2. Fits(KubeCursorAt(k), x)'
    BY <1>24, <2>1 DEF Fits, Alike, KCursor, KContainers, NoCursor, Live
  <2>3. \A i \in DOMAIN log : InPod(KubeCursorAt(k), i)' <=> InPod(d, i)
    BY <1>2, <1>24 DEF InPod, NoCursor
  <2>4. \A i \in DOMAIN log' : i <= x /\ InPod(KubeCursorAt(k), i)' /\ OwedLine(i)' =>
          times'[i] >= 1 \/ i \in unreadable' \/ \E j \in DOMAIN queue' : j <= k /\ i \in queue'[j].events
    BY <1>1, <1>2, <1>24, <2>3
  <2>5. \A i \in DOMAIN log' : x < i /\ InPod(KubeCursorAt(k), i)' => times'[i] = 0 \/ i \in again'
    BY <1>2, <1>24, <2>3
  <2>6. \A j \in DOMAIN queue' : j <= k => \A i \in queue'[j].events : i <= x
    BY <1>1, <1>24
  <2> QED
    BY <2>2, <2>4, <2>5, <2>6 DEF KubeSettled
<1>25. KubeSettled(0, o)'
  <2>1. PICK d, k : d = checkpoint /\ k = 0
    OBVIOUS
  <2>2. Fits(d, o) /\ KubeCursorAt(k)' = d /\ k \in 0..N + 1 /\ KubeCursorAt(0) = d
    BY <1>2, <1>9, <1>19, <2>1 DEF KubeCursorAt
  <2>3. \A i \in DOMAIN log : o < i /\ InPod(d, i) => times[i] = 0 \/ i \in again'
    BY <1>2, <1>8, <2>2 DEF KubeSettled
  <2>4. \A i \in DOMAIN log : i <= o /\ InPod(d, i) /\ OwedLine(i)' =>
          times[i] >= 1 \/ i \in unreadable' \/ \E j \in DOMAIN made : j <= k /\ i \in made[j].events
    BY <1>3, <1>7, <1>8, <1>16, <2>2 DEF KubeSettled
  <2>5. \A j \in DOMAIN made : j <= k => \A i \in made[j].events : i <= o
    BY <1>19, <2>1
  <2>6. KubeSettled(k, o)'
    BY <1>24, <2>2, <2>3, <2>4, <2>5
  <2> QED
    BY <2>1, <2>6
<1>26. ASSUME NEW k \in 1..N, NEW x, x = top[k] PROVE KubeSettled(k, x)'
  <2>1. PICK d : d = made[k].cursor
    OBVIOUS
  <2>2. k \in 0..N + 1 /\ k \in Nat /\ k # 0 /\ k \in DOMAIN made /\ x \in Nat /\ x \in seen
    BY <1>12, <1>19, <1>26
  <2>3. Fits(d, x) /\ KubeCursorAt(k)' = d /\ d.of.pod = target
    BY <1>1, <1>19, <1>26, <2>1, <2>2 DEF KubeCursorAt
  <2>4. \A i \in DOMAIN log : x < i /\ InPod(d, i) => times[i] = 0 \/ i \in again'
    BY <1>21, <2>2, <2>3 DEF InPod
  <2>5. ASSUME NEW i \in DOMAIN log, i <= x, OwedLine(i)'
        PROVE  times[i] >= 1 \/ i \in unreadable' \/ \E j \in DOMAIN made : j <= k /\ i \in made[j].events
    <3>1. ASSUME NEW j \in 1..N, i \in made[j].events PROVE j <= k
      <4>1. k < j => x < i
        BY <1>19, <1>26, <3>1
      <4>2. i \in Nat
        BY <1>12
      <4> QED
        BY <2>2, <2>5, <4>1, <4>2
    <3> QED
      BY <1>19, <1>20, <2>5, <3>1
  <2>6. \A j \in DOMAIN made : j <= k => \A i \in made[j].events : i <= x
    BY <1>19, <1>26
  <2> QED
    BY <1>24, <2>2, <2>3, <2>4, <2>5, <2>6
<1>27. KubeSettled(N + 1, z)'
  <2>1. N + 1 \in 0..N + 1 /\ N + 1 # 0 /\ N + 1 \notin DOMAIN made /\ z \in Nat
    BY <1>12, <1>19
  <2>2. Fits(c, z) /\ KubeCursorAt(N + 1)' = c
    BY <1>1, <1>19, <2>1 DEF KubeCursorAt
  <2>3. ASSUME NEW i \in DOMAIN log, z < i, InPod(c, i) PROVE times[i] = 0 \/ i \in again'
    <3>1. CASE z \in seen /\ c.of.pod = target
      BY <1>21, <2>3, <3>1 DEF InPod
    <3>2. CASE c = position /\ z = p
      BY <1>2, <1>8, <1>9, <2>3, <3>2 DEF KubeSettled
    <3>3. CASE seen = {} /\ position = NoCursor /\ c.of.pod = target /\ z = q
      <4>1. log[i].of.pod = target
        BY <2>3, <3>3 DEF InPod
      <4>2. log[i].t = time
        BY <1>12, <1>13, <2>3, <3>3
      <4>3. log[i].of = container
        BY <1>12, <1>13, <4>1, <4>2
      <4>4. i \in seen
        BY <1>13, <2>3, <3>3, <4>3 DEF Reach
      <4> QED
        BY <3>3, <4>4
    <3> QED
      BY <1>19, <3>1, <3>2, <3>3
  <2>4. \A j \in 1..N : j <= N + 1
    BY <1>19
  <2>5. \A i \in DOMAIN log : i <= z /\ InPod(c, i) /\ OwedLine(i)' =>
          times[i] >= 1 \/ i \in unreadable' \/ \E j \in DOMAIN made : j <= N + 1 /\ i \in made[j].events
    BY <1>19, <1>20, <2>4
  <2>6. \A j \in DOMAIN made : j <= N + 1 => \A i \in made[j].events : i <= z
    BY <1>19
  <2> QED
    BY <1>24, <2>1, <2>2, <2>3, <2>5, <2>6
<1>28. PICK g : g = [k \in 0..N + 1 |-> IF k = 0 THEN o ELSE IF k \in 1..N THEN top[k] ELSE z]
  OBVIOUS
<1>29. KubePlaces(g)'
  <2>1. Len(queue') = N
    BY <1>1, <1>19
  <2>2. \A k \in 1..N : top[k] \in 0..Len(log)
    BY <1>12, <1>19
  <2>3. g \in [0..N + 1 -> 0..Len(log)]
    BY <1>9, <1>19, <1>28, <2>2
  <2>4. ASSUME NEW k \in 0..N + 1 PROVE KubeSettled(k, g[k])'
    <3>1. PICK x : x = g[k]
      OBVIOUS
    <3>2. KubeSettled(k, x)'
      <4>1. CASE k = 0
        BY <1>25, <1>28, <3>1, <4>1
      <4>2. CASE k \in 1..N
        <5>1. k # 0 /\ x = top[k]
          BY <1>28, <3>1, <4>2
        <5> QED
          BY <1>26, <4>2, <5>1
      <4>3. CASE k = N + 1
        <5>1. k # 0 /\ k \notin 1..N
          BY <1>19, <4>3
        <5>2. x = z
          BY <1>28, <3>1, <5>1
        <5> QED
          BY <1>27, <4>3, <5>2
      <4> QED
        BY <1>19, <4>1, <4>2, <4>3
    <3> QED
      BY <3>1, <3>2 DEF KubeSettled, Fits, Alike
  <2> QED
    BY <1>2, <2>1, <2>3, <2>4 DEF KubePlaces
<1> QED
  BY <1>2, <1>4, <1>22, <1>29 DEF KubeInv, LogOrdered, Live

\* Every cursor of kube_logs_plugin.py, a time stamp and how many lines with it
\* have each hash, stands for a place in the log, however the pods, containers
\* and crashes follow one another: of its pod, nothing behind it is stored but
\* what was read again on coming back to the pod, and what is owed before it is
\* stored, out of reach or in the batches up to the cursor's own.
THEOREM CursorsHavePlaces == KubeSpec => []KubeInv
<1>1. KubeInv /\ KubeNext => KubeInv'
  BY WriteLineKeeps, RestartKeeps, ReplaceKeeps, PollKeepsLines, DeliverKeeps, KubeCrashKeeps DEF KubeNext
<1>2. KubeInv /\ UNCHANGED kubeVars => KubeInv'
  <2> SUFFICES ASSUME KubeInv, UNCHANGED kubeVars PROVE KubeInv'
    OBVIOUS
  <2>1. UNCHANGED <<log, gen, target, time, position, checkpoint, stored, queue, times, read,
                    unreadable, again, since>>
    BY DEF kubeVars
  <2>2. \A c, p : Fits(c, p) => Fits(c, p)'
    BY <2>1 DEF Fits, Alike, KCursor, KContainers, NoCursor, Live
  <2>3. LogOrdered'
    BY <2>1 DEF KubeInv, LogOrdered, Live
  <2>4. /\ Len(log) \in Nat /\ DOMAIN log = 1..Len(log) /\ times \in Seq(Nat) /\ Len(times) = Len(log)
        /\ time \in Nat
    BY LogLines DEF KubeInv, KubeHistory, LogOrdered
  <2> QED
    BY <2>1, <2>2, <2>3, <2>4, ClusterKeeps
<1> QED
  BY KubeStarts, <1>1, <1>2, PTL DEF KubeSpec

\* kube_logs_plugin.py stores no audit line twice but one that it had stored and
\* read again on coming back to its pod from another, and stores each that was
\* written after collection began and that a finished poll had before it, unless
\* its container's log could no longer be had or its pod was not the newest; for
\* any pods, lines, time stamps, hashes that agree, batch size, restarts and
\* crashes.
THEOREM LinesAllCollected == KubeSpec => []LinesCollected
<1>1. KubeInv => LinesCollected
  <2> SUFFICES ASSUME KubeInv PROVE LinesCollected
    OBVIOUS
  <2>1. \A i \in DOMAIN log : times[i] <= 1 \/ i \in again
    BY DEF KubeInv, KubeHistory
  <2>2. ASSUME NEW i \in DOMAIN log, queue = <<>>, i \in read, IsEvent(i), log[i].t >= since
        PROVE  times[i] >= 1 \/ i \in unreadable
    <3>1. OwedLine(i) /\ DOMAIN queue = {}
      BY <2>2, EmptySeq DEF OwedLine
    <3> QED
      BY <2>2, <3>1 DEF KubeInv, KubeHistory
  <2> QED
    BY <2>1, <2>2 DEF LinesCollected
<1> QED
  BY CursorsHavePlaces, <1>1, PTL
=============================================================================
