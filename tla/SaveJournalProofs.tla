-------------------------- MODULE SaveJournalProofs -------------------------
(***************************************************************************)
(* Machine-checked proofs about SaveJournal for any blocks, limits, faults *)
(* and calls: the journal stays in order and matches its tasks, no edit is *)
(* lost or written over by an older one, Ok of a flush means durable, the  *)
(* journal implements SaveLedger, every call of the owner is finite, and   *)
(* none but what has failed is left for ever in the journal.               *)
(***************************************************************************)
EXTENDS SaveJournal, FiniteSetTheorems, SequenceTheorems, TLAPS

(* An entry of the journal with its written save, its attempt and its      *)
(* queue, of a block at revision r: the written save has no successor that *)
(* is active, an entry with nothing written or active has nothing queued,  *)
(* and what is queued is pending, in the order of the edits, behind the    *)
(* others.                                                                 *)
EntryOK(w, a, q, r) ==
    /\ a.state = "None" => a = NoAttempt
    /\ a.state # "None" => a.revision \in 1..r
    /\ w # 0 => a.state = "None" /\ w <= r
    /\ w = 0 /\ a = NoAttempt => q = <<>>
    /\ \A i \in 1..Len(q) : /\ q[i].state = "Pending"
                            /\ q[i].revision \in 1..r
                            /\ w < q[i].revision
                            /\ a.revision < q[i].revision
    /\ \A i, j \in 1..Len(q) : i < j => q[i].revision < q[j].revision

LineOK(k) == EntryOK(written[k], active[k], queued[k], revision[k])

\* what such an entry owes
Owes(w, a, q) == (IF w = 0 THEN {} ELSE {w})
                 \cup (IF a = NoAttempt THEN {} ELSE {a.revision})
                 \cup {q[i].revision : i \in 1..Len(q)}

Open(k) == Owes(written[k], active[k], queued[k])

(* The checkpoint: a save is in flight only without one, the saves it      *)
(* stands for are still written, and one in flight may be tried again.     *)
CheckpointOK ==
    /\ checkpoint.state = "None" => checkpoint = NoCheckpoint
    /\ checkpoint.state # "None" => \A k \in Keys : ~InFlight(k)
    /\ \A k \in Keys : checkpoint.saves[k] # 0 => written[k] = checkpoint.saves[k]
    /\ checkpoint.state \in {"WriteInFlight", "Indeterminate"} =>
          checkpoint.retry < CheckpointLimit

(* Tasks and completions: each attempt in flight has one of them. *)
EachOnce(s)  == \A i, j \in 1..Len(s) : s[i].task = s[j].task => i = j
Answered(s) == {s[i].task : i \in 1..Len(s)}

TravelOK ==
    /\ tasks \cup Answered(completed) \cup Answered(inbox) = AttemptsInFlight
    /\ EachOnce(completed) /\ EachOnce(inbox)
    /\ tasks \cap Answered(completed) = {} /\ tasks \cap Answered(inbox) = {}
    /\ Answered(completed) \cap Answered(inbox) = {}

(* What a completion says of the stream is still true. *)
AnswerOK(a) ==
    a.outcome = "ok" =>
        /\ a.task.kind = "save" => stored[a.task.key] = a.task.revision
        /\ a.task = FlushTask => \A k \in Keys : durable[k] >= checkpoint.saves[k]

AnswersOK ==
    /\ \A i \in 1..Len(completed) : AnswerOK(completed[i])
    /\ \A i \in 1..Len(inbox) : AnswerOK(inbox[i])

(* The stream: it is behind everything that is owed, and what it holds is  *)
(* owed or durable.                                                        *)
StreamOK(k) ==
    /\ promised[k] <= durable[k] /\ durable[k] <= stored[k] /\ stored[k] <= revision[k]
    /\ written[k] # 0 => stored[k] = written[k]
    /\ \A v \in Open(k) : stored[k] <= v
    /\ stored[k] \in Open(k) \cup {durable[k]}

(* An edit that was not captured is newer than all of that. *)
EditOK(k) ==
    /\ block[k].dirty => /\ block[k].at = "resident"
                         /\ stored[k] < revision[k]
                         /\ \A v \in Open(k) : v < revision[k]
    /\ ~block[k].dirty => durable[k] >= revision[k] \/ revision[k] \in Open(k)

(* The owner: after the wait and the drain of a flush nothing is in flight *)
(* but a checkpoint, and after its capture nothing is dirty.               *)
Waited   == Flushing /\ pc \in {"capture", "start", "attempt", "judge", "begin", "await", "finish",
                                "dispatch"}
Captured == Flushing /\ \/ pc \in {"start", "attempt", "judge", "begin", "await", "finish"}
                        \/ pc \in {"wait", "drain", "dispatch"} /\ stage # "capture"

OwnerOK ==
    /\ pc \in {"wait", "capture", "start", "attempt", "judge", "begin", "await", "finish"} =>
          Flushing
    /\ pc \in {"drain", "dispatch"} => call # "resolve"
    /\ pc = "plan" => call = "process"
    /\ Flushing /\ pc = "drain" => tasks = {} /\ completed = <<>>
    /\ Waited => \A k \in Keys : ~InFlight(k)
    /\ Captured => \A k \in Keys : ~block[k].dirty
    /\ pc = "judge" \/ (Flushing /\ pc \in {"wait", "drain", "dispatch"} /\ stage = "judge") =>
          attempts < MaxExplicitAttempts

(* The types, in the groups in which the variables change. *)
WorldTypes ==
    /\ block \in [Keys -> [at : {"absent", "requested", "read", "resident"}, shows : Revisions,
                           dirty : BOOLEAN]]
    /\ revision \in [Keys -> Nat]
    /\ \A k \in Keys : revision[k] <= MaxRevision[k]
JournalTypes ==
    /\ written \in [Keys -> Revisions] /\ active \in [Keys -> Saves]
    /\ queued \in [Keys -> Seq(Saves)]
CheckpointTypes ==
    /\ checkpoint \in [state : {"None", "Pending", "WriteInFlight", "Indeterminate"},
                       saves : [Keys -> Revisions], retry : Nat, explicit : BOOLEAN]
    /\ checkpoint.retry <= CheckpointLimit
    /\ last_checkpoint_outcome \in {"none", "ok", "err"}
FlagTypes ==
    /\ blocked \in BOOLEAN /\ force_checkpoint_requested \in BOOLEAN /\ satisfied \in BOOLEAN
    /\ deferred \subseteq Keys /\ deferred_checkpoint_dispatch \in BOOLEAN
Completions == [task : Tasks, outcome : Outcomes]
RunnerTypes == tasks \subseteq Tasks /\ completed \in Seq(Completions) /\ inbox \in Seq(Completions)
StreamTypes ==
    /\ stored \in [Keys -> Revisions] /\ durable \in [Keys -> Revisions]
    /\ faults \in 0..MaxFaults
OwnerTypes ==
    /\ pc \in {"idle", "drain", "plan", "dispatch", "checkpoint", "wait", "capture", "start",
               "attempt", "judge", "begin", "await", "finish"}
    /\ call \in {"process", "drain", "flush", "shutdown", "resolve"}
    /\ stage \in {"capture", "judge", "await"} /\ attempts \in 0..MaxExplicitAttempts
    /\ life \in {"up", "closing", "down"} /\ flushed \in BOOLEAN
    /\ promised \in [Keys -> Revisions]

Types == /\ WorldTypes /\ JournalTypes /\ CheckpointTypes /\ FlagTypes /\ RunnerTypes
         /\ StreamTypes /\ OwnerTypes

Entries == \A k \in Keys : LineOK(k) /\ StreamOK(k) /\ EditOK(k)

IInv == Types /\ Entries /\ CheckpointOK /\ TravelOK /\ AnswersOK /\ OwnerOK

-----------------------------------------------------------------------------
(* Sequences of completions, and the line of a block *)

\* A completion that is appended is answered once more.
LEMMA AnswerAppended ==
    ASSUME NEW S, NEW s \in Seq(S), NEW a \in S, EachOnce(s), a.task \notin Answered(s)
    PROVE  /\ Append(s, a) \in Seq(S)
           /\ EachOnce(Append(s, a)) /\ Answered(Append(s, a)) = Answered(s) \cup {a.task}
           /\ \A i \in 1..Len(Append(s, a)) :
                 Append(s, a)[i] = a \/ \E j \in 1..Len(s) : Append(s, a)[i] = s[j]
<1> DEFINE t == Append(s, a)
<1>1. /\ t \in Seq(S) /\ Len(s) \in Nat /\ Len(t) = Len(s) + 1 /\ t[Len(s) + 1] = a
      /\ \A i \in 1..Len(s) : t[i] = s[i]
  BY AppendProperties, LenProperties
<1> HIDE DEF t
<1>2. \A i \in 1..Len(t) : i \in 1..Len(s) \/ i = Len(s) + 1 BY <1>1
<1>3. EachOnce(t) BY <1>1, <1>2 DEF EachOnce, Answered
<1>4. Answered(t) = Answered(s) \cup {a.task}
  <2>1. Answered(t) \subseteq Answered(s) \cup {a.task} BY <1>1, <1>2 DEF Answered
  <2>2. Answered(s) \subseteq Answered(t) BY <1>1 DEF Answered
  <2>3. Len(s) + 1 \in 1..Len(t) BY <1>1
  <2>4. a.task \in Answered(t) BY <1>1, <2>3 DEF Answered
  <2>5. QED BY <2>1, <2>2, <2>4
<1>5. QED BY <1>1, <1>2, <1>3, <1>4 DEF t

\* The completions of two queues with different answers are taken together.
LEMMA AnswersTaken ==
    ASSUME NEW S, NEW s \in Seq(S), NEW u \in Seq(S), EachOnce(s), EachOnce(u),
           Answered(s) \cap Answered(u) = {}
    PROVE  /\ s \o u \in Seq(S)
           /\ EachOnce(s \o u) /\ Answered(s \o u) = Answered(s) \cup Answered(u)
           /\ \A i \in 1..Len(s \o u) : \/ \E j \in 1..Len(s) : (s \o u)[i] = s[j]
                                        \/ \E j \in 1..Len(u) : (s \o u)[i] = u[j]
<1> DEFINE t == s \o u
<1>1. /\ t \in Seq(S) /\ Len(s) \in Nat /\ Len(u) \in Nat /\ Len(t) = Len(s) + Len(u)
      /\ \A i \in 1..Len(s) + Len(u) : t[i] = IF i <= Len(s) THEN s[i] ELSE u[i - Len(s)]
  BY ConcatProperties, LenProperties
<1> HIDE DEF t
<1>2. \A i \in 1..Len(s) : t[i] = s[i] /\ i \in 1..Len(t) BY <1>1
<1>3. \A i \in 1..Len(u) : t[Len(s) + i] = u[i] /\ Len(s) + i \in 1..Len(t) BY <1>1
<1>4. \A i \in 1..Len(t) : i \in 1..Len(s) \/ \E j \in 1..Len(u) : i = Len(s) + j
  <2>1. ASSUME NEW i \in 1..Len(t), i \notin 1..Len(s) PROVE \E j \in 1..Len(u) : i = Len(s) + j
    <3>1. i - Len(s) \in 1..Len(u) /\ i = Len(s) + (i - Len(s)) BY <1>1, <2>1
    <3>2. QED BY <3>1
  <2>2. QED BY <2>1
<1>5. EachOnce(t)
  <2>1. SUFFICES ASSUME NEW i \in 1..Len(t), NEW j \in 1..Len(t), t[i].task = t[j].task PROVE i = j
    BY DEF EachOnce
  <2>2. CASE i \in 1..Len(s) /\ j \in 1..Len(s) BY <1>2, <2>1, <2>2 DEF EachOnce
  <2>3. CASE i \in 1..Len(s) /\ j \notin 1..Len(s)
    <3>1. PICK m \in 1..Len(u) : j = Len(s) + m BY <1>4, <2>3
    <3>2. t[i] = s[i] /\ t[j] = u[m] BY <1>2, <1>3, <2>3, <3>1
    <3>3. s[i].task \in Answered(s) /\ u[m].task \in Answered(u) BY <2>3 DEF Answered
    <3>4. QED BY <2>1, <3>2, <3>3
  <2>4. CASE i \notin 1..Len(s) /\ j \in 1..Len(s)
    <3>1. PICK m \in 1..Len(u) : i = Len(s) + m BY <1>4, <2>4
    <3>2. t[j] = s[j] /\ t[i] = u[m] BY <1>2, <1>3, <2>4, <3>1
    <3>3. s[j].task \in Answered(s) /\ u[m].task \in Answered(u) BY <2>4 DEF Answered
    <3>4. QED BY <2>1, <3>2, <3>3
  <2>5. CASE i \notin 1..Len(s) /\ j \notin 1..Len(s)
    <3>1. PICK m \in 1..Len(u) : i = Len(s) + m BY <1>4, <2>5
    <3>2. PICK n \in 1..Len(u) : j = Len(s) + n BY <1>4, <2>5
    <3>3. u[m].task = u[n].task BY <1>3, <2>1, <3>1, <3>2
    <3>4. m = n BY <3>3 DEF EachOnce
    <3>5. QED BY <3>1, <3>2, <3>4
  <2>6. QED BY <2>2, <2>3, <2>4, <2>5
<1>6. Answered(t) = Answered(s) \cup Answered(u)
  <2>1. ASSUME NEW i \in 1..Len(t) PROVE t[i].task \in Answered(s) \cup Answered(u)
    <3>1. CASE i \in 1..Len(s) BY <1>2, <3>1 DEF Answered
    <3>2. CASE i \notin 1..Len(s)
      <4>1. PICK m \in 1..Len(u) : i = Len(s) + m BY <1>4, <3>2
      <4>2. QED BY <1>3, <4>1 DEF Answered
    <3>3. QED BY <3>1, <3>2
  <2>2. Answered(s) \subseteq Answered(t) BY <1>2 DEF Answered
  <2>3. Answered(u) \subseteq Answered(t) BY <1>3 DEF Answered
  <2>4. Answered(t) \subseteq Answered(s) \cup Answered(u) BY <2>1 DEF Answered
  <2>5. QED BY <2>2, <2>3, <2>4
<1>7. ASSUME NEW i \in 1..Len(t)
      PROVE  \/ \E j \in 1..Len(s) : t[i] = s[j]
             \/ \E j \in 1..Len(u) : t[i] = u[j]
  BY <1>2, <1>3, <1>4
<1>8. QED BY <1>1, <1>5, <1>6, <1>7 DEF t

\* The oldest completion leaves.
LEMMA AnswerApplied ==
    ASSUME NEW S, NEW s \in Seq(S), s # <<>>, EachOnce(s)
    PROVE  /\ Tail(s) \in Seq(S) /\ Head(s) \in S /\ Head(s) = s[1] /\ 1 \in 1..Len(s)
           /\ EachOnce(Tail(s)) /\ Answered(Tail(s)) = Answered(s) \ {Head(s).task}
           /\ Head(s).task \in Answered(s)
           /\ \A i \in 1..Len(Tail(s)) : \E j \in 1..Len(s) : Tail(s)[i] = s[j]
<1> DEFINE t == Tail(s)
<1>1. /\ t \in Seq(S) /\ Head(s) \in S /\ Head(s) = s[1] /\ Len(s) \in Nat \ {0}
      /\ Len(t) = Len(s) - 1 /\ \A i \in 1..Len(t) : t[i] = s[i + 1]
  BY HeadTailProperties, LenProperties, EmptySeq
<1> HIDE DEF t
<1>2. \A i \in 1..Len(t) : t[i] = s[i + 1] /\ i + 1 \in 2..Len(s) BY <1>1
<1>3. \A i \in 2..Len(s) : i - 1 \in 1..Len(t) /\ t[i - 1] = s[i] BY <1>1
<1>4. EachOnce(t) BY <1>1, <1>2 DEF EachOnce
<1>5. Answered(t) = Answered(s) \ {Head(s).task}
  <2>1. ASSUME NEW i \in 1..Len(t) PROVE t[i].task \in Answered(s) \ {Head(s).task}
    <3>1. t[i] = s[i + 1] /\ i + 1 \in 1..Len(s) /\ i + 1 # 1 /\ 1 \in 1..Len(s) BY <1>1, <1>2
    <3>2. s[i + 1].task # s[1].task BY <3>1 DEF EachOnce
    <3>3. QED BY <1>1, <3>1, <3>2 DEF Answered
  <2>2. ASSUME NEW i \in 1..Len(s), s[i].task # Head(s).task PROVE s[i].task \in Answered(t)
    <3>1. i \in 2..Len(s) BY <1>1, <2>2
    <3>2. QED BY <1>3, <3>1 DEF Answered
  <2>3. QED BY <2>1, <2>2 DEF Answered
<1>6. QED BY <1>1, <1>2, <1>4, <1>5 DEF t, Answered

-----------------------------------------------------------------------------
(* The entry of a block *)

LEMMA RevisionsAreNumbers ==
    /\ Revisions \subseteq Nat
    /\ \A k \in Keys : MaxRevision[k] \in Nat /\ 0..MaxRevision[k] \subseteq Revisions
    /\ \A a \in Saves : a.revision \in Nat /\ a.retry \in Nat
    /\ \A k \in Keys : NoAttempt \in Saves
BY JournalAssumption DEF JournalAssumption, Revisions, Saves, NoAttempt, Retries

LEMMA PendingIsSave ==
    ASSUME NEW v \in Revisions, NEW n \in Nat
    PROVE  /\ Pending(v, n) \in Saves /\ Pending(v, n).state = "Pending"
           /\ Pending(v, n).revision = v /\ Pending(v, n) # NoAttempt
BY DEF Pending, Saves, NoAttempt, Retries

\* A save that enters the journal stands behind all others.
LEMMA EntryEnqueued ==
    ASSUME NEW w \in Revisions, NEW a \in Saves, NEW q \in Seq(Saves), NEW r \in Revisions,
           0 < r, EntryOK(w, a, q, r), \A v \in Owes(w, a, q) : v < r
    PROVE  /\ w = 0 /\ a = NoAttempt =>
                 /\ EntryOK(w, Pending(r, 0), q, r)
                 /\ Owes(w, Pending(r, 0), q) = Owes(w, a, q) \cup {r}
           /\ ~(w = 0 /\ a = NoAttempt) =>
                 /\ Append(q, Pending(r, 0)) \in Seq(Saves)
                 /\ EntryOK(w, a, Append(q, Pending(r, 0)), r)
                 /\ Owes(w, a, Append(q, Pending(r, 0))) = Owes(w, a, q) \cup {r}
<1> DEFINE p == Pending(r, 0)
<1>0. /\ p \in Saves /\ p.state = "Pending" /\ p.revision = r /\ p # NoAttempt
      /\ w \in Nat /\ r \in Nat /\ a.revision \in Nat /\ NoAttempt.revision = 0
  BY PendingIsSave, RevisionsAreNumbers DEF NoAttempt
<1> HIDE DEF p
<1>1. CASE w = 0 /\ a = NoAttempt
  <2>1. q = <<>> /\ Len(q) = 0 /\ 1..Len(q) = {} BY <1>1, EmptySeq DEF EntryOK
  <2>2. EntryOK(w, p, q, r) BY <1>0, <1>1, <2>1 DEF EntryOK
  <2>3. Owes(w, p, q) = {r} /\ Owes(w, a, q) = {} BY <1>0, <1>1, <2>1 DEF Owes
  <2>4. QED BY <1>1, <2>2, <2>3 DEF p
<1>2. CASE ~(w = 0 /\ a = NoAttempt)
  <2> DEFINE t == Append(q, p)
  <2>1. /\ t \in Seq(Saves) /\ Len(q) \in Nat /\ Len(t) = Len(q) + 1 /\ t[Len(q) + 1] = p
        /\ \A i \in 1..Len(q) : t[i] = q[i] /\ q[i] \in Saves
    BY <1>0, AppendProperties, LenProperties, ElementOfSeq
  <2> HIDE DEF t
  <2>2. \A i \in 1..Len(t) : i \in 1..Len(q) \/ i = Len(q) + 1 BY <2>1
  <2>3. \A i \in 1..Len(q) : q[i].revision < r BY DEF Owes
  <2>4. (w # 0 => w < r) /\ a.revision < r
    BY <1>0 DEF Owes, NoAttempt
  <2>5. ASSUME NEW i \in 1..Len(t)
        PROVE  /\ t[i].state = "Pending" /\ t[i].revision \in 1..r
               /\ w < t[i].revision /\ a.revision < t[i].revision
    BY <1>0, <2>1, <2>2, <2>4 DEF EntryOK
  <2>6. ASSUME NEW i \in 1..Len(t), NEW j \in 1..Len(t), i < j
        PROVE  t[i].revision < t[j].revision
    <3>1. i \in 1..Len(q) BY <2>1, <2>6
    <3>2. CASE j \in 1..Len(q) BY <2>1, <2>6, <3>1, <3>2 DEF EntryOK
    <3>3. CASE j = Len(q) + 1 BY <1>0, <2>1, <2>3, <3>1, <3>3
    <3>4. QED BY <2>2, <3>2, <3>3
  <2>7. EntryOK(w, a, t, r) BY <1>2, <2>5, <2>6 DEF EntryOK
  <2>8. {t[i].revision : i \in 1..Len(t)} = {q[i].revision : i \in 1..Len(q)} \cup {r}
    <3>1. \A i \in 1..Len(q) : i \in 1..Len(t) /\ t[i] = q[i] BY <2>1
    <3>2. Len(q) + 1 \in 1..Len(t) /\ t[Len(q) + 1].revision = r BY <1>0, <2>1
    <3>3. \A i \in 1..Len(t) : t[i].revision \in {q[j].revision : j \in 1..Len(q)} \cup {r}
      BY <2>2, <3>1, <3>2
    <3>4. QED BY <3>1, <3>2, <3>3
  <2>9. Owes(w, a, t) = Owes(w, a, q) \cup {r} BY <2>8 DEF Owes
  <2>10. QED BY <1>2, <2>1, <2>7, <2>9 DEF t, p
<1>3. QED BY <1>1, <1>2

\* An attempt that changes its state, or is written, keeps the line as it is.
LEMMA EntryMoved ==
    ASSUME NEW w \in Revisions, NEW a \in Saves, NEW q \in Seq(Saves), NEW r \in Nat,
           EntryOK(w, a, q, r), a.state # "None",
           NEW b \in Saves, b.state # "None", b.revision = a.revision
    PROVE  w = 0 /\ EntryOK(w, b, q, r) /\ Owes(w, b, q) = Owes(w, a, q)
BY DEF EntryOK, Owes, NoAttempt

LEMMA EntryWritten ==
    ASSUME NEW w \in Revisions, NEW a \in Saves, NEW q \in Seq(Saves), NEW r \in Nat,
           EntryOK(w, a, q, r), a.state # "None"
    PROVE  /\ w = 0 /\ a.revision \in Owes(w, a, q)
           /\ EntryOK(a.revision, NoAttempt, q, r)
           /\ Owes(a.revision, NoAttempt, q) = Owes(w, a, q)
BY RevisionsAreNumbers DEF EntryOK, Owes, NoAttempt

\* A written save that is settled leaves the line.
LEMMA EntrySettled ==
    ASSUME NEW w \in Revisions, NEW a \in Saves, NEW q \in Seq(Saves), NEW r \in Nat,
           EntryOK(w, a, q, r), w # 0
    PROVE  /\ a = NoAttempt
           /\ q = <<>> => EntryOK(0, a, q, r) /\ Owes(0, a, q) = Owes(w, a, q) \ {w}
           /\ q # <<>> => /\ Head(q) \in Saves /\ Head(q).state = "Pending" /\ Tail(q) \in Seq(Saves)
                          /\ EntryOK(0, Head(q), Tail(q), r)
                          /\ Owes(0, Head(q), Tail(q)) = Owes(w, a, q) \ {w}
<1>0. /\ a = NoAttempt /\ w \in Nat /\ NoAttempt.revision = 0 BY RevisionsAreNumbers DEF EntryOK, NoAttempt
<1>1. CASE q = <<>>
  <2>1. Len(q) = 0 /\ 1..Len(q) = {} BY <1>1, EmptySeq
  <2>2. EntryOK(0, a, q, r) BY <1>0, <1>1, <2>1 DEF EntryOK
  <2>3. Owes(w, a, q) = {w} /\ Owes(0, a, q) = {} BY <1>0, <2>1 DEF Owes
  <2>4. QED BY <1>0, <1>1, <2>2, <2>3
<1>2. CASE q # <<>>
  <2> DEFINE t == Tail(q)
  <2> DEFINE h == Head(q)
  <2>1. /\ t \in Seq(Saves) /\ h \in Saves /\ h = q[1] /\ Len(q) \in Nat \ {0}
        /\ Len(t) = Len(q) - 1 /\ \A i \in 1..Len(t) : t[i] = q[i + 1]
    BY <1>2, HeadTailProperties, LenProperties, EmptySeq
  <2> HIDE DEF t, h
  <2>2. \A i \in 1..Len(t) : t[i] = q[i + 1] /\ i + 1 \in 2..Len(q) /\ i + 1 \in 1..Len(q) BY <2>1
  <2>3. \A i \in 2..Len(q) : i - 1 \in 1..Len(t) /\ t[i - 1] = q[i] BY <2>1
  <2>4. \A i \in 1..Len(q) : q[i] \in Saves BY ElementOfSeq
  <2>5. /\ 1 \in 1..Len(q) /\ h.state = "Pending" /\ h.revision \in 1..r /\ w < h.revision
    BY <2>1 DEF EntryOK
  <2>6. ASSUME NEW i \in 1..Len(t)
        PROVE  /\ t[i].state = "Pending" /\ t[i].revision \in 1..r
               /\ 0 < t[i].revision /\ h.revision < t[i].revision
    <3>1. 1 < i + 1 BY <2>1
    <3>2. q[i + 1].state = "Pending" /\ q[i + 1].revision \in 1..r
          /\ q[1].revision < q[i + 1].revision
      BY <2>2, <2>5, <3>1 DEF EntryOK
    <3>3. QED BY <2>1, <2>2, <3>2
  <2>7. ASSUME NEW i \in 1..Len(t), NEW j \in 1..Len(t), i < j
        PROVE  t[i].revision < t[j].revision
    <3>1. i + 1 < j + 1 BY <2>1, <2>7
    <3>2. q[i + 1].revision < q[j + 1].revision BY <2>2, <3>1 DEF EntryOK
    <3>3. QED BY <2>2, <3>2
  <2>8. EntryOK(0, h, t, r)
    <3>1. h # NoAttempt BY <2>5 DEF NoAttempt
    <3>2. QED BY <2>5, <2>6, <2>7, <3>1 DEF EntryOK
  <2>9. Owes(0, h, t) = {q[i].revision : i \in 1..Len(q)}
    <3>1. Owes(0, h, t) = {h.revision} \cup {t[i].revision : i \in 1..Len(t)}
      BY <2>5 DEF Owes, NoAttempt
    <3>2. \A i \in 1..Len(q) : i = 1 \/ i \in 2..Len(q) BY <2>1
    <3>3. \A i \in 1..Len(q) : q[i].revision \in Owes(0, h, t) BY <2>1, <2>3, <3>1, <3>2
    <3>4. QED BY <2>1, <2>2, <2>5, <3>1, <3>3
  <2>10. Owes(w, a, q) = {w} \cup {q[i].revision : i \in 1..Len(q)} BY <1>0 DEF Owes
  <2>11. w \notin {q[i].revision : i \in 1..Len(q)} BY <1>0, <2>4, RevisionsAreNumbers DEF EntryOK
  <2>12. QED BY <1>0, <1>2, <2>1, <2>5, <2>8, <2>9, <2>10, <2>11 DEF h, t
<1>3. QED BY <1>1, <1>2

\* A written save that is restored is pending again, at the head of its line.
LEMMA EntryRestored ==
    ASSUME NEW w \in Revisions, NEW a \in Saves, NEW q \in Seq(Saves), NEW r \in Nat,
           EntryOK(w, a, q, r), w # 0, NEW n \in Nat
    PROVE  /\ a = NoAttempt
           /\ Head(Rejoin(Pending(w, n), q)) = Pending(w, n)
           /\ Tail(Rejoin(Pending(w, n), q)) = q
           /\ EntryOK(0, Pending(w, n), q, r)
           /\ Owes(0, Pending(w, n), q) = Owes(w, a, q)
<1> DEFINE p == Pending(w, n)
<1>0. /\ a = NoAttempt /\ w \in Nat /\ NoAttempt.revision = 0
      /\ p \in Saves /\ p.state = "Pending" /\ p.revision = w /\ p # NoAttempt
  BY RevisionsAreNumbers, PendingIsSave DEF EntryOK, NoAttempt
<1> HIDE DEF p
<1>1. Head(<<p>> \o q) = p /\ Tail(<<p>> \o q) = q
  <2> DEFINE t == <<p>> \o q
  <2>1. <<p>> \in Seq(Saves) /\ Len(<<p>>) = 1 /\ <<p>>[1] = p BY <1>0
  <2>2. /\ t \in Seq(Saves) /\ Len(q) \in Nat /\ Len(t) = 1 + Len(q)
        /\ \A i \in 1..1 + Len(q) : t[i] = IF i <= 1 THEN p ELSE q[i - 1]
    BY <2>1, ConcatProperties, LenProperties
  <2> HIDE DEF t
  <2>3. t # <<>> /\ t[1] = p BY <2>2, EmptySeq
  <2>4. /\ Head(t) = t[1] /\ Tail(t) \in Seq(Saves) /\ Len(Tail(t)) = Len(t) - 1
        /\ \A i \in 1..Len(Tail(t)) : Tail(t)[i] = t[i + 1]
    BY <2>2, <2>3, HeadTailProperties
  <2>5. Len(Tail(t)) = Len(q) BY <2>2, <2>4
  <2>6. \A i \in 1..Len(q) : Tail(t)[i] = q[i] BY <2>2, <2>4, <2>5
  <2>7. Tail(t) = q BY <2>4, <2>5, <2>6, SeqEqual
  <2>8. QED BY <2>3, <2>4, <2>7 DEF t
<1>2. EntryOK(0, p, q, r) BY <1>0, RevisionsAreNumbers, ElementOfSeq DEF EntryOK
<1>3. Owes(0, p, q) = Owes(w, a, q) BY <1>0 DEF Owes
<1>4. QED BY <1>0, <1>1, <1>2, <1>3 DEF p, Rejoin

\* The block is edited: its saves are older than the edit.
LEMMA EntryEdited ==
    ASSUME NEW w \in Revisions, NEW a \in Saves, NEW q \in Seq(Saves), NEW r \in Nat,
           EntryOK(w, a, q, r)
    PROVE  /\ EntryOK(w, a, q, r + 1)
           /\ \A v \in Owes(w, a, q) : v \in 1..r
<1>1. \A i \in 1..Len(q) : q[i] \in Saves BY ElementOfSeq
<1>2. QED BY <1>1, RevisionsAreNumbers DEF EntryOK, Owes, NoAttempt

\* The line of an entry is what it owes, in order.
LineOf(w, a, q) == (IF w = 0 THEN <<>> ELSE <<w>>)
                   \o (IF a = NoAttempt THEN <<>> ELSE <<a.revision>>)
                   \o [i \in DOMAIN q |-> q[i].revision]

LEMMA EntryLine ==
    ASSUME NEW w \in Revisions, NEW a \in Saves, NEW q \in Seq(Saves), NEW r \in Nat,
           EntryOK(w, a, q, r), NEW l, l = LineOf(w, a, q)
    PROVE  /\ {l[i] : i \in DOMAIN l} = Owes(w, a, q)
           /\ \A i, j \in DOMAIN l : i < j => l[i] < l[j]
           /\ \A i \in DOMAIN l : l[i] \in 1..r
<1>0. /\ w \in Nat /\ a.revision \in Nat /\ \A i \in 1..Len(q) : q[i].revision \in Nat
      /\ DOMAIN q = 1..Len(q) /\ Len(q) \in Nat
  BY RevisionsAreNumbers, ElementOfSeq, LenProperties
<1> DEFINE x == IF w = 0 THEN <<>> ELSE <<w>>
<1> DEFINE y == IF a = NoAttempt THEN <<>> ELSE <<a.revision>>
<1>1. x \in Seq(Nat) /\ Len(x) = (IF w = 0 THEN 0 ELSE 1) /\ (w # 0 => x[1] = w) BY <1>0
<1>2. /\ y \in Seq(Nat) /\ Len(y) = (IF a = NoAttempt THEN 0 ELSE 1)
      /\ (a # NoAttempt => y[1] = a.revision)
  BY <1>0
<1>3. PICK z \in Seq(Nat) : /\ z = [i \in DOMAIN q |-> q[i].revision]
                            /\ Len(z) = Len(q) /\ \A i \in 1..Len(q) : z[i] = q[i].revision
  <2> DEFINE f == [i \in DOMAIN q |-> q[i].revision]
  <2>1. f \in [1..Len(q) -> Nat] BY <1>0
  <2>2. f \in Seq(Nat) BY <1>0, <2>1, SeqDef
  <2>3. DOMAIN f = 1..Len(f) /\ Len(f) \in Nat BY <2>2, LenProperties
  <2>4. 1..Len(f) = 1..Len(q) BY <1>0, <2>3
  <2>5. Len(f) = Len(q) BY <1>0, <2>3, <2>4
  <2>6. QED BY <1>0, <2>2, <2>5
<1>4. l = (x \o y) \o z BY <1>3 DEF LineOf
<1>5. \A i \in 1..Len(q) : z[i] \in 1..r /\ w < z[i] /\ a.revision < z[i]
  BY <1>3 DEF EntryOK
<1>6. \A i, j \in 1..Len(q) : i < j => z[i] < z[j] BY <1>3 DEF EntryOK
<1>7. {z[i] : i \in 1..Len(q)} = {q[i].revision : i \in 1..Len(q)} BY <1>3
<1>8. CASE w = 0 /\ a = NoAttempt
  <2>1. q = <<>> /\ Len(q) = 0 /\ 1..Len(q) = {} BY <1>8, EmptySeq DEF EntryOK
  <2>2. x \o y = <<>> BY <1>8, EmptySeq, ConcatEmptySeq
  <2>3. l = z BY <1>3, <1>4, <2>2, ConcatEmptySeq
  <2>4. DOMAIN l = {} BY <1>3, <2>1, <2>3, LenProperties
  <2>5. Owes(w, a, q) = {} BY <1>8, <2>1 DEF Owes
  <2>6. QED BY <2>4, <2>5
<1>9. CASE ~(w = 0 /\ a = NoAttempt)
  <2>1. PICK v : v = IF w = 0 THEN a.revision ELSE w OBVIOUS
  <2>2. v \in 1..r /\ \A i \in 1..Len(q) : v < z[i]
    BY <1>0, <1>5, <1>9, <2>1 DEF EntryOK
  <2>3. x \o y = <<v>>
    <3>1. CASE w = 0 BY <1>2, <1>9, <2>1, <3>1, ConcatEmptySeq
    <3>2. CASE w # 0
      <4>1. a = NoAttempt BY <3>2 DEF EntryOK
      <4>2. x = <<v>> /\ y = <<>> BY <2>1, <3>2, <4>1
      <4>3. QED BY <1>1, <4>2, ConcatEmptySeq
    <3>3. QED BY <3>1, <3>2
  <2>4. /\ Len(l) = 1 + Len(q) /\ l \in Seq(Nat)
        /\ \A i \in 1..1 + Len(q) : l[i] = IF i <= 1 THEN v ELSE z[i - 1]
    <3>1. PICK h \in Seq(Nat) : h = <<v>> /\ Len(h) = 1 /\ h[1] = v
      <4>1. <<v>> \in Seq(Nat) /\ Len(<<v>>) = 1 /\ <<v>>[1] = v BY <2>2
      <4>2. QED BY <4>1
    <3>2. l = h \o z BY <1>4, <2>3, <3>1
    <3>3. /\ h \o z \in Seq(Nat) /\ Len(h \o z) = Len(h) + Len(z)
          /\ \A i \in 1..Len(h) + Len(z) :
                (h \o z)[i] = IF i <= Len(h) THEN h[i] ELSE z[i - Len(h)]
      BY ConcatProperties
    <3>4. \A i \in 1..1 + Len(q) : i <= 1 => h[i] = v BY <1>0, <3>1
    <3>5. QED BY <1>3, <3>1, <3>2, <3>3, <3>4
  <2>5. DOMAIN l = 1..1 + Len(q) BY <2>4, LenProperties
  <2>6. \A i \in DOMAIN l : i = 1 \/ i - 1 \in 1..Len(q) BY <1>0, <2>5
  <2>7. \A i \in 1..Len(q) : i + 1 \in DOMAIN l /\ l[i + 1] = z[i] BY <1>0, <2>4, <2>5, SMTT(30)
  <2>8. 1 \in DOMAIN l /\ l[1] = v BY <1>0, <2>4, <2>5
  <2>9. \A i \in DOMAIN l : i # 1 => l[i] = z[i - 1] /\ i - 1 \in 1..Len(q) BY <1>0, <2>4, <2>5
  <2>10. ASSUME NEW i \in DOMAIN l, NEW j \in DOMAIN l, i < j PROVE l[i] < l[j]
    <3>1. j # 1 /\ j - 1 \in 1..Len(q) /\ l[j] = z[j - 1] BY <1>0, <2>5, <2>9, <2>10
    <3>2. CASE i = 1 BY <2>2, <2>8, <3>1, <3>2
    <3>3. CASE i # 1
      <4>1. i - 1 < j - 1 BY <2>5, <2>10
      <4>2. i - 1 \in 1..Len(q) /\ l[i] = z[i - 1] BY <2>9, <3>3
      <4>3. QED BY <1>6, <3>1, <4>1, <4>2
    <3>4. QED BY <3>2, <3>3
  <2>11. \A i \in DOMAIN l : l[i] \in 1..r BY <1>5, <2>2, <2>8, <2>9
  <2>12. \A u : u \in Owes(w, a, q) <=> u = v \/ \E i \in 1..Len(q) : u = z[i]
    <3>1. Owes(w, a, q) = {v} \cup {q[i].revision : i \in 1..Len(q)}
      BY <1>9, <2>1 DEF Owes, EntryOK
    <3>2. QED BY <1>3, <3>1
  <2>13. \A i \in DOMAIN l : l[i] \in Owes(w, a, q) BY <2>8, <2>9, <2>12
  <2>14. \A u \in Owes(w, a, q) : \E i \in DOMAIN l : u = l[i] BY <2>7, <2>8, <2>12
  <2>15. {l[i] : i \in DOMAIN l} = Owes(w, a, q) BY <2>13, <2>14
  <2>16. QED BY <2>10, <2>11, <2>15
<1>10. QED BY <1>8, <1>9

-----------------------------------------------------------------------------
(* What a step leaves alone *)

LEMMA Quiet ==
    ASSUME IInv
    PROVE  /\ UNCHANGED world => WorldTypes'
           /\ UNCHANGED journal => JournalTypes'
           /\ UNCHANGED <<checkpoint, last_checkpoint_outcome>> => CheckpointTypes'
           /\ UNCHANGED <<flags, deferrals>> => FlagTypes'
           /\ UNCHANGED runner => RunnerTypes'
           /\ UNCHANGED stream => StreamTypes'
           /\ UNCHANGED owner => OwnerTypes'
           /\ UNCHANGED <<world, journal, stored, durable, promised>> => Entries'
           /\ UNCHANGED <<written, active, checkpoint>> => CheckpointOK'
           /\ UNCHANGED <<active, checkpoint, runner>> => TravelOK'
           /\ UNCHANGED <<completed, inbox, stored, durable, checkpoint>> => AnswersOK'
           /\ UNCHANGED <<pc, call, stage, attempts, active, block, tasks, completed>> => OwnerOK'
<1> USE DEF IInv, Types
<1>1. UNCHANGED world => WorldTypes' BY DEF world, WorldTypes
<1>2. UNCHANGED journal => JournalTypes' BY DEF journal, JournalTypes
<1>3. UNCHANGED <<checkpoint, last_checkpoint_outcome>> => CheckpointTypes'
  BY DEF CheckpointTypes, CheckpointLimit
<1>4. UNCHANGED <<flags, deferrals>> => FlagTypes' BY DEF flags, deferrals, FlagTypes
<1>5. UNCHANGED runner => RunnerTypes' BY DEF runner, RunnerTypes
<1>6. UNCHANGED stream => StreamTypes' BY DEF stream, StreamTypes
<1>7. UNCHANGED owner => OwnerTypes' BY DEF owner, OwnerTypes
<1>8. UNCHANGED <<world, journal, stored, durable, promised>> => Entries'
  BY DEF world, journal, Entries, LineOK, StreamOK, EditOK, Open
<1>9. UNCHANGED <<written, active, checkpoint>> => CheckpointOK'
  BY DEF CheckpointOK, CheckpointLimit, InFlight
<1>10. UNCHANGED <<active, checkpoint, runner>> => TravelOK'
  BY DEF runner, TravelOK, AttemptsInFlight, SaveTask, InFlight
<1>11. UNCHANGED <<completed, inbox, stored, durable, checkpoint>> => AnswersOK'
  BY DEF AnswersOK, AnswerOK
<1>12. UNCHANGED <<pc, call, stage, attempts, active, block, tasks, completed>> => OwnerOK'
  BY DEF OwnerOK, Waited, Captured, Flushing, InFlight
<1>13. QED BY <1>1, <1>2, <1>3, <1>4, <1>5, <1>6, <1>7, <1>8, <1>9, <1>10, <1>11, <1>12

LEMMA RevisionsInRange ==
    ASSUME WorldTypes
    PROVE  revision \in [Keys -> Revisions]
BY RevisionsAreNumbers DEF WorldTypes

LEMMA TypesAre ==
    ASSUME Types
    PROVE  TypeOK
<1> USE DEF Types
<1>1. /\ block \in [Keys -> [at : {"absent", "requested", "read", "resident"}, shows : Revisions,
                             dirty : BOOLEAN]]
      /\ revision \in [Keys -> Revisions]
  BY RevisionsInRange DEF WorldTypes
<1>2. /\ written \in [Keys -> Revisions] /\ active \in [Keys -> Saves]
      /\ queued \in [Keys -> Seq(Saves)]
  BY DEF JournalTypes
<1>3. /\ checkpoint \in [state : {"None", "Pending", "WriteInFlight", "Indeterminate"},
                         saves : [Keys -> Revisions], retry : 0..CheckpointLimit,
                         explicit : BOOLEAN]
      /\ last_checkpoint_outcome \in {"none", "ok", "err"}
  BY JournalAssumption DEF CheckpointTypes, CheckpointLimit, JournalAssumption
<1>4. /\ {blocked, force_checkpoint_requested, satisfied, deferred_checkpoint_dispatch, flushed}
           \subseteq BOOLEAN
      /\ deferred \subseteq Keys
  BY DEF FlagTypes, OwnerTypes
<1>5. tasks \subseteq Tasks /\ {completed, inbox} \subseteq Seq([task : Tasks, outcome : Outcomes])
  BY DEF RunnerTypes, Completions
<1>6. /\ stored \in [Keys -> Revisions] /\ durable \in [Keys -> Revisions]
      /\ promised \in [Keys -> Revisions] /\ faults \in 0..MaxFaults
  BY DEF StreamTypes, OwnerTypes
<1>7. /\ pc \in {"idle", "drain", "plan", "dispatch", "checkpoint", "wait", "capture", "start",
                 "attempt", "judge", "begin", "await", "finish"}
      /\ call \in {"process", "drain", "flush", "shutdown", "resolve"}
      /\ stage \in {"capture", "judge", "await"} /\ attempts \in 0..MaxExplicitAttempts
      /\ life \in {"up", "closing", "down"}
  BY DEF OwnerTypes
<1>8. QED BY <1>1, <1>2, <1>3, <1>4, <1>5, <1>6, <1>7 DEF TypeOK

-----------------------------------------------------------------------------
(* Entries and attempts that move *)

\* An attempt that only changes its state or its retries keeps the entries;
\* what a flush vouches for may rise to what is durable.
LEMMA EntriesMoved ==
    ASSUME IInv, UNCHANGED <<world, written, queued, stored, durable>>,
           \A k \in Keys : promised'[k] <= durable[k],
           \A k \in Keys : \/ active'[k] = active[k]
                           \/ /\ active[k].state # "None" /\ active'[k].state # "None"
                              /\ active'[k] \in Saves /\ active'[k].revision = active[k].revision
    PROVE  Entries'
<1> SUFFICES ASSUME NEW k \in Keys PROVE (LineOK(k) /\ StreamOK(k) /\ EditOK(k))'
  BY DEF Entries
<1>1. /\ written[k] \in Revisions /\ active[k] \in Saves /\ queued[k] \in Seq(Saves)
      /\ revision[k] \in Nat /\ LineOK(k) /\ StreamOK(k) /\ EditOK(k)
      /\ block' = block /\ revision' = revision
  BY DEF IInv, Types, JournalTypes, WorldTypes, Entries, world
<1>2. LineOK(k)' /\ Open(k)' = Open(k)
  <2>1. CASE active'[k] = active[k] BY <1>1, <2>1 DEF LineOK, Open
  <2>2. CASE active'[k] # active[k]
    <3>1. /\ active[k].state # "None" /\ active'[k].state # "None"
          /\ active'[k] \in Saves /\ active'[k].revision = active[k].revision
      BY <2>2
    <3>2. /\ EntryOK(written[k], active'[k], queued[k], revision[k])
          /\ Owes(written[k], active'[k], queued[k]) = Owes(written[k], active[k], queued[k])
      BY <1>1, <3>1, EntryMoved DEF LineOK
    <3>3. QED BY <1>1, <3>2 DEF LineOK, Open
  <2>3. QED BY <2>1, <2>2
<1>3. StreamOK(k)' BY <1>1, <1>2 DEF StreamOK
<1>4. EditOK(k)' BY <1>1, <1>2 DEF EditOK
<1>5. QED BY <1>2, <1>3, <1>4

\* What is in flight, answer by answer.
LEMMA AttemptIs ==
    ASSUME IInv
    PROVE  /\ \A t \in AttemptsInFlight :
                 \/ /\ t.kind = "save" /\ t.key \in Keys /\ InFlight(t.key) /\ t = SaveTask(t.key)
                    /\ t.revision = active[t.key].revision /\ t # FlushTask
                 \/ t.kind = "flush" /\ t = FlushTask /\ checkpoint.state = "WriteInFlight"
           /\ \A k \in Keys : InFlight(k) => SaveTask(k) \in AttemptsInFlight
           /\ checkpoint.state = "WriteInFlight" => FlushTask \in AttemptsInFlight
           /\ \A t \in tasks \cup Answered(completed) \cup Answered(inbox) : t \in AttemptsInFlight
BY DEF IInv, TravelOK, AttemptsInFlight, SaveTask, FlushTask

LEMMA NothingInFlight ==
    ASSUME IInv, tasks = {}, completed = <<>>, inbox = <<>>
    PROVE  AttemptsInFlight = {} /\ \A k \in Keys : ~InFlight(k)
<1>1. Len(completed) = 0 /\ Len(inbox) = 0 BY EmptySeq DEF IInv
<1>2. Answered(completed) = {} /\ Answered(inbox) = {} BY <1>1 DEF Answered
<1>3. AttemptsInFlight = {} BY <1>2 DEF IInv, TravelOK
<1>4. QED BY <1>3, AttemptIs

\* When nothing is dirty and the journal is empty, every edit is durable.
LEMMA AllDurable ==
    ASSUME IInv, JournalEmpty, \A k \in Keys : ~block[k].dirty
    PROVE  \A k \in Keys : revision[k] <= durable[k]
<1> SUFFICES ASSUME NEW k \in Keys PROVE revision[k] <= durable[k] OBVIOUS
<1>1. /\ written[k] = 0 /\ active[k] = NoAttempt /\ queued[k] = <<>> /\ Len(queued[k]) = 0
  BY EmptySeq DEF JournalEmpty, Idle
<1>2. Open(k) = {} BY <1>1 DEF Open, Owes
<1>3. QED BY <1>2 DEF IInv, Entries, EditOK

-----------------------------------------------------------------------------
(* The owner's own steps *)

LEMMA EndPassKeeps ==
    ASSUME IInv, EndPass
    PROVE  IInv'
<1>1. /\ UNCHANGED <<world, journal, checkpoint, last_checkpoint_outcome, flags, deferrals,
                     runner, stream>>
      /\ UNCHANGED <<call, stage, attempts, flushed, life, promised>>
      /\ pc = "drain" /\ pc' \in {"plan", "dispatch"} /\ inbox = <<>>
      /\ pc' = IF call = "process" THEN "plan" ELSE "dispatch"
  BY DEF EndPass, Leaves
<1>2. OwnerTypes' BY <1>1 DEF IInv, Types, OwnerTypes
<1>3. OwnerOK'
  <2>1. Flushing => \A k \in Keys : ~InFlight(k)
    BY <1>1, NothingInFlight DEF IInv, OwnerOK
  <2>2. QED BY <1>1, <2>1
        DEF IInv, OwnerOK, Waited, Captured, Flushing, world, journal, runner, InFlight
<1>4. QED BY <1>1, <1>2, <1>3, Quiet DEF IInv, Types, world, journal, runner, stream

LEMMA JudgeKeeps ==
    ASSUME IInv, Judge
    PROVE  IInv'
<1>1. /\ UNCHANGED <<world, journal, checkpoint, last_checkpoint_outcome, flags, deferrals,
                     runner, stream>>
      /\ UNCHANGED <<call, stage, flushed, life, promised>>
      /\ pc = "judge"
      /\ \/ pc' = "begin" /\ UNCHANGED attempts
         \/ pc' = "attempt" /\ attempts' = attempts + 1
  BY DEF Judge, Leaves, NextRound
<1>2. OwnerTypes'
  BY <1>1, JournalAssumption DEF IInv, Types, OwnerTypes, OwnerOK, JournalAssumption
<1>3. OwnerOK'
  BY <1>1 DEF IInv, OwnerOK, Waited, Captured, Flushing, world, journal, runner, InFlight
<1>4. QED BY <1>1, <1>2, <1>3, Quiet DEF IInv, Types, world, journal, runner, stream

LEMMA LastRoundKeeps ==
    ASSUME IInv, LastRound
    PROVE  IInv'
<1>1. /\ UNCHANGED <<world, journal, checkpoint, last_checkpoint_outcome, flags, deferrals,
                     runner, stream>>
      /\ UNCHANGED <<call, stage, attempts, flushed, life, promised>>
      /\ pc = "attempt" /\ pc' \in {"begin", "finish"}
  BY DEF LastRound, Leaves
<1>2. OwnerTypes' BY <1>1 DEF IInv, Types, OwnerTypes
<1>3. OwnerOK'
  BY <1>1 DEF IInv, OwnerOK, Waited, Captured, Flushing, world, journal, runner, InFlight
<1>4. QED BY <1>1, <1>2, <1>3, Quiet DEF IInv, Types, world, journal, runner, stream

LEMMA FinishKeeps ==
    ASSUME IInv, Finish
    PROVE  IInv'
<1>1. /\ UNCHANGED <<world, journal, checkpoint, last_checkpoint_outcome, flags, deferrals,
                     runner, stream>>
      /\ UNCHANGED <<call, stage, attempts, flushed, life, promised>>
      /\ pc = "finish" /\ pc' = "idle"
  BY DEF Finish, Return
<1>2. OwnerTypes' BY <1>1 DEF IInv, Types, OwnerTypes
<1>3. OwnerOK'
  BY <1>1 DEF IInv, OwnerOK, Waited, Captured, Flushing, world, journal, runner, InFlight
<1>4. QED BY <1>1, <1>2, <1>3, Quiet DEF IInv, Types, world, journal, runner, stream

LEMMA AwaitOutcomeKeeps ==
    ASSUME IInv, AwaitOutcome
    PROVE  IInv'
<1>1. /\ UNCHANGED <<world, journal, checkpoint, flags, deferrals, runner, stream>>
      /\ UNCHANGED <<call, stage, flushed>> /\ last_checkpoint_outcome' = "none"
      /\ pc = "await"
      /\ \/ pc' = "idle" /\ UNCHANGED <<attempts, life, promised>>
         \/ pc' = "finish" /\ UNCHANGED <<attempts, life, promised>>
         \/ /\ pc' = "idle" /\ UNCHANGED attempts /\ life' \in {life, "down"}
            /\ JournalEmpty /\ promised' = revision
         \/ /\ pc' = "attempt" /\ attempts' = attempts + 1 /\ attempts # MaxExplicitAttempts
            /\ UNCHANGED <<life, promised>>
  BY DEF AwaitOutcome, Return, Leaves, NextRound
<1>2. OwnerTypes'
  BY <1>1, RevisionsInRange, JournalAssumption DEF IInv, Types, OwnerTypes, JournalAssumption
<1>3. OwnerOK'
  BY <1>1 DEF IInv, OwnerOK, Waited, Captured, Flushing, world, journal, runner, InFlight
<1>4. Entries'
  <2>1. Captured BY <1>1 DEF IInv, OwnerOK, Captured
  <2>2. \A k \in Keys : promised[k] <= durable[k] BY DEF IInv, Entries, StreamOK
  <2>3. \A k \in Keys : promised'[k] <= durable[k]
    BY <1>1, <2>1, <2>2, AllDurable DEF IInv, OwnerOK
  <2>4. QED BY <1>1, <2>3, EntriesMoved DEF journal, stream
<1>5. CheckpointTypes' BY <1>1 DEF IInv, Types, CheckpointTypes, CheckpointLimit
<1>6. QED BY <1>1, <1>2, <1>3, <1>4, <1>5, Quiet DEF IInv, Types, world, journal, runner, stream

LEMMA StartFlushKeeps ==
    ASSUME IInv, StartFlush
    PROVE  IInv'
<1>1. /\ UNCHANGED <<world, written, queued, checkpoint, last_checkpoint_outcome,
                     force_checkpoint_requested, satisfied, deferrals, runner, stream>>
      /\ UNCHANGED <<call, stage, flushed>> /\ blocked' \in {blocked, FALSE}
      /\ pc = "start"
      /\ active' = active \/ active' = [k \in Keys |-> IF IsPending(k) THEN [active[k] EXCEPT !.retry = 0]
                                                       ELSE active[k]]
      /\ \/ pc' = "idle" /\ UNCHANGED <<attempts, life, promised>>
         \/ /\ pc' = "idle" /\ UNCHANGED attempts /\ life' \in {life, "down"}
            /\ JournalEmpty /\ promised' = revision
         \/ pc' = "attempt" /\ attempts' = 0 /\ UNCHANGED <<life, promised>>
  BY DEF StartFlush, Return, NothingToFlush
<1>2. OwnerTypes'
  BY <1>1, RevisionsInRange, JournalAssumption DEF IInv, Types, OwnerTypes, JournalAssumption
<1>3. /\ active' \in [Keys -> Saves]
      /\ \A k \in Keys : \/ active'[k] = active[k]
                         \/ /\ active[k].state # "None" /\ active'[k].state # "None"
                            /\ active'[k] \in Saves /\ active'[k].revision = active[k].revision
      /\ \A k \in Keys : active'[k].state = active[k].state /\ active'[k].revision = active[k].revision
  <2>1. active \in [Keys -> Saves] BY DEF IInv, Types, JournalTypes
  <2>2. CASE active' = active BY <2>1, <2>2
  <2>3. CASE active' = [k \in Keys |-> IF IsPending(k) THEN [active[k] EXCEPT !.retry = 0]
                                       ELSE active[k]]
    <3>1. ASSUME NEW a \in Saves
          PROVE  /\ [a EXCEPT !.retry = 0] \in Saves
                 /\ [a EXCEPT !.retry = 0].state = a.state
                 /\ [a EXCEPT !.retry = 0].revision = a.revision
      BY DEF Saves, Retries
    <3>2. QED BY <2>1, <2>3, <3>1 DEF IsPending
  <2>4. QED BY <1>1, <2>2, <2>3
<1>4. OwnerOK'
  BY <1>1, <1>3, JournalAssumption
  DEF IInv, OwnerOK, Waited, Captured, Flushing, world, runner, InFlight, JournalAssumption
<1>5. Entries'
  <2>1. Captured BY <1>1 DEF IInv, OwnerOK, Captured
  <2>2. \A k \in Keys : promised[k] <= durable[k] BY DEF IInv, Entries, StreamOK
  <2>3. \A k \in Keys : promised'[k] <= durable[k]
    BY <1>1, <2>1, <2>2, AllDurable DEF IInv, OwnerOK
  <2>4. QED BY <1>1, <1>3, <2>3, EntriesMoved DEF stream
<1>6. JournalTypes' BY <1>1, <1>3 DEF IInv, Types, JournalTypes
<1>7. FlagTypes' BY <1>1 DEF IInv, Types, FlagTypes, deferrals
<1>8. CheckpointOK' BY <1>1, <1>3 DEF IInv, CheckpointOK, InFlight, CheckpointLimit
<1>9. TravelOK'
  <2>1. AttemptsInFlight' = AttemptsInFlight BY <1>1, <1>3 DEF AttemptsInFlight, InFlight, SaveTask
  <2>2. QED BY <1>1, <2>1 DEF IInv, TravelOK, runner
<1>10. QED BY <1>1, <1>2, <1>4, <1>5, <1>6, <1>7, <1>8, <1>9, Quiet
       DEF IInv, Types, world, runner, stream

LEMMA CompletionsTaken ==
    ASSUME IInv, TakeCompletions, UNCHANGED <<tasks, active, checkpoint, stored, durable>>
    PROVE  RunnerTypes' /\ TravelOK' /\ AnswersOK' /\ completed' = <<>>
<1>1. /\ completed \in Seq(Completions) /\ inbox \in Seq(Completions)
      /\ EachOnce(completed) /\ EachOnce(inbox) /\ Answered(inbox) \cap Answered(completed) = {}
      /\ inbox' = inbox \o completed /\ completed' = <<>>
  BY DEF IInv, Types, RunnerTypes, TravelOK, TakeCompletions
<1>2. /\ inbox' \in Seq(Completions) /\ EachOnce(inbox')
      /\ Answered(inbox') = Answered(inbox) \cup Answered(completed)
      /\ \A i \in 1..Len(inbox') : \/ \E j \in 1..Len(inbox) : inbox'[i] = inbox[j]
                                   \/ \E j \in 1..Len(completed) : inbox'[i] = completed[j]
  BY <1>1, AnswersTaken
<1>3. completed' \in Seq(Completions) /\ Len(completed') = 0 /\ 1..Len(completed') = {}
  BY <1>1, EmptySeq
<1>4. RunnerTypes' BY <1>2, <1>3 DEF IInv, Types, RunnerTypes
<1>5. EachOnce(completed') /\ Answered(completed') = {} BY <1>3 DEF EachOnce, Answered
<1>6. AttemptsInFlight' = AttemptsInFlight BY DEF AttemptsInFlight, InFlight, SaveTask
<1>7. TravelOK' BY <1>2, <1>5, <1>6 DEF IInv, TravelOK
<1>8. AnswersOK' BY <1>2, <1>3 DEF IInv, AnswersOK, AnswerOK
<1>9. QED BY <1>1, <1>4, <1>7, <1>8

LEMMA WaitKeeps ==
    ASSUME IInv, Wait
    PROVE  IInv'
<1>1. /\ UNCHANGED <<world, journal, checkpoint, last_checkpoint_outcome, flags, deferrals, tasks,
                     stream>>
      /\ UNCHANGED <<call, stage, attempts, flushed, life, promised>>
      /\ pc = "wait" /\ pc' = "drain" /\ tasks = {} /\ TakeCompletions
  BY DEF Wait, Leaves
<1>2. RunnerTypes' /\ TravelOK' /\ AnswersOK' /\ completed' = <<>>
  BY <1>1, CompletionsTaken DEF journal, stream
<1>3. OwnerTypes' BY <1>1 DEF IInv, Types, OwnerTypes
<1>4. OwnerOK'
  BY <1>1, <1>2 DEF IInv, OwnerOK, Waited, Captured, Flushing, world, journal, InFlight
<1>5. QED BY <1>1, <1>2, <1>3, <1>4, Quiet DEF IInv, Types, world, journal, stream

LEMMA CallKeeps ==
    ASSUME IInv, NEW c \in Calls, Call(c)
    PROVE  IInv'
<1>1. /\ UNCHANGED <<world, journal, checkpoint, last_checkpoint_outcome, flags, deferrals, tasks,
                     stream>>
      /\ UNCHANGED <<stage, attempts, flushed, life, promised>>
      /\ pc = "idle" /\ pc' = "drain" /\ call' = c /\ c \in {"process", "drain"} /\ TakeCompletions
  BY DEF Call
<1>2. RunnerTypes' /\ TravelOK' /\ AnswersOK'
  BY <1>1, CompletionsTaken DEF journal, stream
<1>3. OwnerTypes' BY <1>1 DEF IInv, Types, OwnerTypes
<1>4. OwnerOK'
  BY <1>1 DEF IInv, OwnerOK, Waited, Captured, Flushing, world, journal, InFlight
<1>5. QED BY <1>1, <1>2, <1>3, <1>4, Quiet DEF IInv, Types, world, journal, stream

-----------------------------------------------------------------------------
(* The steps that edit and load *)

LEMMA EntriesShown ==
    ASSUME IInv, UNCHANGED <<revision, journal, stored, durable, promised>>,
           \A k \in Keys : \/ block'[k] = block[k]
                           \/ ~block[k].dirty /\ ~block'[k].dirty
    PROVE  Entries'
BY DEF IInv, Entries, LineOK, StreamOK, EditOK, Open, journal

LEMMA EditKeeps ==
    ASSUME IInv, NEW k \in Keys, Edit(k)
    PROVE  IInv'
<1>1. /\ UNCHANGED <<journal, checkpoint, last_checkpoint_outcome, flags, deferrals, runner,
                     stream, owner>>
      /\ pc = "idle" /\ block[k].at = "resident" /\ revision[k] < MaxRevision[k]
      /\ revision' = [revision EXCEPT ![k] = @ + 1]
      /\ block' = [block EXCEPT ![k].shows = revision[k] + 1, ![k].dirty = TRUE]
  BY DEF Edit
<1>2. WorldTypes /\ revision[k] + 1 \in Revisions
  BY <1>1, RevisionsAreNumbers DEF IInv, Types, WorldTypes
<1>3. WorldTypes'
  <2>1. revision' \in [Keys -> Nat] /\ \A j \in Keys : revision'[j] <= MaxRevision[j]
    BY <1>1, <1>2, RevisionsAreNumbers DEF WorldTypes
  <2>2. block' \in [Keys -> [at : {"absent", "requested", "read", "resident"}, shows : Revisions,
                             dirty : BOOLEAN]]
    BY <1>1, <1>2 DEF WorldTypes
  <2>3. QED BY <2>1, <2>2 DEF WorldTypes
<1>4. Entries'
  <2> SUFFICES ASSUME NEW j \in Keys PROVE (LineOK(j) /\ StreamOK(j) /\ EditOK(j))'
    BY DEF Entries
  <2>1. /\ written[j] \in Revisions /\ active[j] \in Saves /\ queued[j] \in Seq(Saves)
        /\ revision[j] \in Nat /\ LineOK(j) /\ StreamOK(j) /\ EditOK(j)
        /\ durable[j] \in Nat /\ stored[j] \in Nat /\ Revisions \subseteq Nat
    BY RevisionsAreNumbers DEF IInv, Types, JournalTypes, WorldTypes, StreamTypes, Entries
  <2>2. CASE j # k
    <3>1. block'[j] = block[j] /\ revision'[j] = revision[j] BY <1>1, <1>2, <2>2 DEF WorldTypes
    <3>2. QED BY <1>1, <2>1, <3>1 DEF LineOK, StreamOK, EditOK, Open, journal, stream, owner
  <2>3. CASE j = k
    <3>1. /\ block'[j].at = "resident" /\ block'[j].dirty /\ revision'[j] = revision[j] + 1
      BY <1>1, <1>2, <2>3 DEF WorldTypes
    <3>2. /\ EntryOK(written[j], active[j], queued[j], revision[j] + 1)
          /\ \A v \in Open(j) : v \in 1..revision[j]
      BY <2>1, EntryEdited DEF LineOK, Open
    <3>3. LineOK(j)' BY <1>1, <3>1, <3>2 DEF LineOK, journal
    <3>4. Open(j)' = Open(j) BY <1>1 DEF Open, journal
    <3>5. StreamOK(j)' BY <1>1, <2>1, <3>1, <3>4 DEF StreamOK, stream, owner, journal
    <3>6. EditOK(j)'
      BY <1>1, <2>1, <3>1, <3>2, <3>4 DEF EditOK, StreamOK, stream, owner, journal
    <3>7. QED BY <3>3, <3>5, <3>6
  <2>4. QED BY <2>2, <2>3
<1>5. OwnerOK' BY <1>1 DEF IInv, OwnerOK, Waited, Captured, Flushing, owner, journal, runner, InFlight
<1>6. QED BY <1>1, <1>3, <1>4, <1>5, Quiet DEF IInv, Types, journal, runner, stream

LEMMA RunLoadKeeps ==
    ASSUME IInv, NEW k \in Keys, RunLoad(k)
    PROVE  IInv'
<1>1. /\ UNCHANGED <<revision, journal, checkpoint, last_checkpoint_outcome, flags, deferrals,
                     runner, stream, owner>>
      /\ block[k].at = "requested"
      /\ block' = [block EXCEPT ![k].at = "read", ![k].shows = stored[k]]
  BY DEF RunLoad
<1>2. WorldTypes /\ stored[k] \in Revisions /\ ~block[k].dirty
  BY <1>1 DEF IInv, Types, StreamTypes, Entries, EditOK
<1>3. /\ WorldTypes'
      /\ \A j \in Keys : block'[j] = block[j] \/ (~block[j].dirty /\ ~block'[j].dirty)
  <2> DEFINE b == [block[k] EXCEPT !.at = "read", !.shows = stored[k]]
  <2>1. /\ block' = [block EXCEPT ![k] = b] /\ ~b.dirty
        /\ b \in [at : {"absent", "requested", "read", "resident"}, shows : Revisions,
                  dirty : BOOLEAN]
    BY <1>1, <1>2 DEF WorldTypes
  <2> HIDE DEF b
  <2>2. \A j \in Keys : block'[j] = IF j = k THEN b ELSE block[j] BY <1>2, <2>1 DEF WorldTypes
  <2>3. WorldTypes'
    <3>1. revision' = revision BY <1>1
    <3>2. block' \in [Keys -> [at : {"absent", "requested", "read", "resident"}, shows : Revisions,
                               dirty : BOOLEAN]]
      BY <1>2, <2>1 DEF WorldTypes
    <3>3. QED BY <1>2, <3>1, <3>2 DEF WorldTypes
  <2>4. ASSUME NEW j \in Keys PROVE block'[j] = block[j] \/ (~block[j].dirty /\ ~block'[j].dirty)
    <3>1. CASE j = k BY <1>2, <2>1, <2>2, <3>1
    <3>2. CASE j # k BY <2>2, <3>2
    <3>3. QED BY <3>1, <3>2
  <2>5. QED BY <2>3, <2>4
<1>4. Entries' BY <1>1, <1>3, EntriesShown DEF stream, owner
<1>5. OwnerOK'
  BY <1>1, <1>3 DEF IInv, OwnerOK, Waited, Captured, Flushing, owner, journal, runner, InFlight
<1>6. QED BY <1>1, <1>3, <1>4, <1>5, Quiet DEF IInv, Types, journal, runner, stream

LEMMA ApplyLoadKeeps ==
    ASSUME IInv, NEW k \in Keys, ApplyLoad(k)
    PROVE  IInv'
<1>1. /\ UNCHANGED <<revision, journal, checkpoint, last_checkpoint_outcome, flags, deferrals,
                     runner, stream, owner>>
      /\ block[k].at = "read"
      /\ block' = [block EXCEPT ![k].at = "resident"]
  BY DEF ApplyLoad
<1>2. WorldTypes /\ ~block[k].dirty
  BY <1>1 DEF IInv, Types, Entries, EditOK
<1>3. /\ WorldTypes'
      /\ \A j \in Keys : block'[j] = block[j] \/ (~block[j].dirty /\ ~block'[j].dirty)
  <2> DEFINE b == [block[k] EXCEPT !.at = "resident"]
  <2>1. /\ block' = [block EXCEPT ![k] = b] /\ ~b.dirty
        /\ b \in [at : {"absent", "requested", "read", "resident"}, shows : Revisions,
                  dirty : BOOLEAN]
    BY <1>1, <1>2 DEF WorldTypes
  <2> HIDE DEF b
  <2>2. \A j \in Keys : block'[j] = IF j = k THEN b ELSE block[j] BY <1>2, <2>1 DEF WorldTypes
  <2>3. WorldTypes' BY <1>1, <1>2, <2>1 DEF WorldTypes
  <2>4. ASSUME NEW j \in Keys PROVE block'[j] = block[j] \/ (~block[j].dirty /\ ~block'[j].dirty)
    <3>1. CASE j = k BY <1>2, <2>1, <2>2, <3>1
    <3>2. CASE j # k BY <2>2, <3>2
    <3>3. QED BY <3>1, <3>2
  <2>5. QED BY <2>3, <2>4
<1>4. Entries' BY <1>1, <1>3, EntriesShown DEF stream, owner
<1>5. OwnerOK'
  BY <1>1, <1>3 DEF IInv, OwnerOK, Waited, Captured, Flushing, owner, journal, runner, InFlight
<1>6. QED BY <1>1, <1>3, <1>4, <1>5, Quiet DEF IInv, Types, journal, runner, stream

LEMMA BeginFlushKeeps ==
    ASSUME IInv, NEW c \in Calls, BeginFlush(c)
    PROVE  IInv'
<1>1. /\ UNCHANGED <<revision, journal, checkpoint, last_checkpoint_outcome, flags, deferrals, runner,
                     stream, attempts, flushed, promised>>
      /\ pc = "idle" /\ pc' = "wait" /\ call' = c /\ c \in {"flush", "shutdown"}
      /\ stage' = "capture" /\ life' \in {life, "closing"}
      /\ \/ block' = block
         \/ block' = [k \in Keys |-> IF block[k].at = "resident" THEN block[k] ELSE Absent]
  BY DEF BeginFlush
<1>2. WorldTypes' /\ \A k \in Keys : block'[k] = block[k] \/ (~block[k].dirty /\ ~block'[k].dirty)
  <2>1. WorldTypes /\ \A k \in Keys : block[k].at # "resident" => ~block[k].dirty
    BY DEF IInv, Types, Entries, EditOK
  <2>2. ASSUME NEW k \in Keys
        PROVE Absent \in [at : {"absent", "requested", "read", "resident"}, shows : Revisions,
                             dirty : BOOLEAN] /\ ~Absent.dirty
    BY RevisionsAreNumbers DEF Absent
  <2>3. CASE block' = block BY <1>1, <2>3, Quiet DEF world
  <2>4. CASE block' = [k \in Keys |-> IF block[k].at = "resident" THEN block[k] ELSE Absent]
    <3>1. \A k \in Keys : block'[k] = IF block[k].at = "resident" THEN block[k] ELSE Absent
      BY <2>4
    <3>2. ASSUME NEW k \in Keys PROVE block'[k] = block[k] \/ (~block[k].dirty /\ ~block'[k].dirty)
      <4>1. CASE block[k].at = "resident" BY <3>1, <4>1
      <4>2. CASE block[k].at # "resident"
        <5>1. block'[k] = Absent BY <3>1, <4>2
        <5>2. ~block[k].dirty /\ ~Absent.dirty BY <2>1, <2>2, <4>2
        <5>3. QED BY <5>1, <5>2
      <4>3. QED BY <4>1, <4>2
    <3>3. WorldTypes' BY <1>1, <2>1, <2>2, <2>4 DEF WorldTypes
    <3>4. QED BY <3>2, <3>3
  <2>5. QED BY <1>1, <2>3, <2>4
<1>3. Entries' BY <1>1, <1>2, EntriesShown DEF stream
<1>4. OwnerTypes' BY <1>1 DEF IInv, Types, OwnerTypes
<1>5. OwnerOK'
  BY <1>1 DEF IInv, OwnerOK, Waited, Captured, Flushing, journal, runner, InFlight
<1>6. QED BY <1>1, <1>2, <1>3, <1>4, <1>5, Quiet DEF IInv, Types, journal, runner, stream

-----------------------------------------------------------------------------
(* The steps that capture *)

LEMMA DirtyEnqueued ==
    ASSUME IInv, NEW K \in SUBSET Keys, \A k \in K : block[k].dirty, Enqueue(K),
           UNCHANGED <<revision, written, stored, durable, promised>>,
           \A k \in K : ~block'[k].dirty,
           \A k \in Keys \ K : \/ block'[k] = block[k]
                               \/ ~block[k].dirty /\ ~block'[k].dirty
    PROVE  /\ JournalTypes' /\ Entries'
           /\ \A k \in Keys : \/ active'[k] = active[k]
                              \/ active[k].state = "None" /\ active'[k].state = "Pending"
           /\ \A k \in K : Open(k)' = Open(k) \cup {revision[k]}
           /\ \A k \in Keys \ K : Open(k)' = Open(k)
<1>1. /\ \A k \in Keys : active'[k] = IF k \in K /\ Idle(k) THEN Pending(revision[k], 0) ELSE active[k]
      /\ \A k \in Keys : queued'[k] = IF k \in K /\ ~Idle(k)
                                      THEN Append(queued[k], Pending(revision[k], 0)) ELSE queued[k]
      /\ active' = [k \in Keys |-> active'[k]] /\ queued' = [k \in Keys |-> queued'[k]]
  BY DEF Enqueue
<1>2. ASSUME NEW k \in Keys
      PROVE  /\ active'[k] \in Saves /\ queued'[k] \in Seq(Saves)
             /\ (LineOK(k) /\ StreamOK(k) /\ EditOK(k))'
             /\ \/ active'[k] = active[k]
                \/ active[k].state = "None" /\ active'[k].state = "Pending"
             /\ k \in K => Open(k)' = Open(k) \cup {revision[k]}
             /\ k \notin K => Open(k)' = Open(k)
  <2>1. /\ written[k] \in Revisions /\ active[k] \in Saves /\ queued[k] \in Seq(Saves)
        /\ revision[k] \in Nat /\ revision[k] \in Revisions
        /\ LineOK(k) /\ StreamOK(k) /\ EditOK(k)
        /\ durable[k] \in Nat /\ stored[k] \in Nat
    BY RevisionsAreNumbers, RevisionsInRange
    DEF IInv, Types, JournalTypes, WorldTypes, StreamTypes, Entries
  <2>2. CASE k \notin K
    <3>1. active'[k] = active[k] /\ queued'[k] = queued[k] BY <1>1, <2>2
    <3>2. block'[k] = block[k] \/ (~block[k].dirty /\ ~block'[k].dirty) BY <2>2
    <3>3. Open(k)' = Open(k) BY <3>1 DEF Open
    <3>4. (LineOK(k) /\ StreamOK(k))' BY <2>1, <3>1, <3>3 DEF LineOK, StreamOK
    <3>5. EditOK(k)' BY <2>1, <3>2, <3>3 DEF EditOK
    <3>6. QED BY <2>1, <2>2, <3>1, <3>3, <3>4, <3>5
  <2>3. CASE k \in K
    <3>1. /\ stored[k] < revision[k] /\ \A v \in Owes(written[k], active[k], queued[k]) : v < revision[k]
          /\ ~block'[k].dirty /\ 0 < revision[k]
      BY <2>1, <2>3 DEF EditOK, Open
    <3>2. /\ active'[k] \in Saves /\ queued'[k] \in Seq(Saves)
          /\ EntryOK(written[k], active'[k], queued'[k], revision[k])
          /\ Owes(written[k], active'[k], queued'[k])
               = Owes(written[k], active[k], queued[k]) \cup {revision[k]}
          /\ \/ active'[k] = active[k]
             \/ active[k].state = "None" /\ active'[k].state = "Pending"
      <4>1. Pending(revision[k], 0) \in Saves /\ Pending(revision[k], 0).state = "Pending"
        BY <2>1, PendingIsSave
      <4>2. CASE Idle(k)
        <5>1. active'[k] = Pending(revision[k], 0) /\ queued'[k] = queued[k]
          BY <1>1, <2>3, <4>2
        <5>2. written[k] = 0 /\ active[k] = NoAttempt /\ active[k].state = "None"
          BY <4>2 DEF Idle, NoAttempt
        <5>3. QED BY <2>1, <3>1, <4>1, <5>1, <5>2, EntryEnqueued DEF LineOK
      <4>3. CASE ~Idle(k)
        <5>1. active'[k] = active[k] /\ queued'[k] = Append(queued[k], Pending(revision[k], 0))
          BY <1>1, <2>3, <4>3
        <5>2. ~(written[k] = 0 /\ active[k] = NoAttempt) BY <4>3 DEF Idle
        <5>3. QED BY <2>1, <3>1, <5>1, <5>2, EntryEnqueued DEF LineOK
      <4>4. QED BY <4>2, <4>3
    <3>3. Open(k)' = Open(k) \cup {revision[k]} BY <3>2 DEF Open
    <3>4. LineOK(k)' BY <3>2 DEF LineOK
    <3>5. StreamOK(k)' BY <2>1, <3>1, <3>3 DEF StreamOK
    <3>6. EditOK(k)' BY <2>1, <3>1, <3>3 DEF EditOK
    <3>7. QED BY <2>3, <3>2, <3>3, <3>4, <3>5, <3>6
  <2>4. QED BY <2>2, <2>3
<1>3. JournalTypes'
  <2>1. written' \in [Keys -> Revisions] BY DEF IInv, Types, JournalTypes
  <2>2. active' \in [Keys -> Saves] /\ queued' \in [Keys -> Seq(Saves)] BY <1>1, <1>2
  <2>3. QED BY <2>1, <2>2 DEF JournalTypes
<1>4. Entries' BY <1>2 DEF Entries
<1>5. QED BY <1>2, <1>3, <1>4

\* Attempts that are in flight stay as they are.
LEMMA SameInFlight ==
    ASSUME IInv, UNCHANGED <<written, checkpoint, runner>>,
           \A k \in Keys : \/ active'[k] = active[k]
                           \/ active[k].state # "WriteInFlight" /\ active'[k].state # "WriteInFlight"
    PROVE  /\ AttemptsInFlight' = AttemptsInFlight
           /\ \A k \in Keys : active'[k].state = "WriteInFlight" => active[k].state = "WriteInFlight"
           /\ CheckpointOK' /\ TravelOK'
<1>1. AttemptsInFlight' = AttemptsInFlight
  <2>1. \A k \in Keys : InFlight(k)' => InFlight(k) /\ SaveTask(k)' = SaveTask(k)
    BY DEF InFlight, SaveTask
  <2>2. \A k \in Keys : InFlight(k) => InFlight(k)' /\ SaveTask(k)' = SaveTask(k)
    BY DEF InFlight, SaveTask
  <2>3. QED BY <2>1, <2>2 DEF AttemptsInFlight
<1>2. \A k \in Keys : active'[k].state = "WriteInFlight" => active[k].state = "WriteInFlight"
  OBVIOUS
<1>3. CheckpointOK' BY <1>2 DEF IInv, CheckpointOK, InFlight, CheckpointLimit
<1>4. TravelOK' BY <1>1 DEF IInv, TravelOK, runner
<1>5. QED BY <1>1, <1>2, <1>3, <1>4

LEMMA PlanKeeps ==
    ASSUME IInv, NEW K \in SUBSET Keys, Plan(K)
    PROVE  IInv'
<1>1. /\ UNCHANGED <<revision, written, checkpoint, last_checkpoint_outcome, blocked,
                     force_checkpoint_requested, deferrals, runner, stream>>
      /\ UNCHANGED <<call, stage, attempts, flushed, life, promised>>
      /\ pc = "plan" /\ pc' = "dispatch"
      /\ block' = [k \in Keys |-> IF k \notin K THEN block[k]
                                  ELSE IF block[k] = Absent THEN [Absent EXCEPT !.at = "requested"]
                                  ELSE Absent]
      /\ Enqueue({k \in K : block[k].dirty})
      /\ satisfied' = (satisfied /\ \A k \in K : ~block[k].dirty)
  BY DEF Plan, Leaves
<1>2. PICK D \in SUBSET Keys : D = {k \in K : block[k].dirty} OBVIOUS
<1>3. ASSUME NEW k \in Keys
      PROVE  /\ block'[k] \in [at : {"absent", "requested", "read", "resident"}, shows : Revisions,
                               dirty : BOOLEAN]
             /\ k \in K => ~block'[k].dirty
             /\ k \notin K => block'[k] = block[k]
  <2> DEFINE T == [at : {"absent", "requested", "read", "resident"}, shows : Revisions,
                   dirty : BOOLEAN]
  <2>1. Absent \in T /\ ~Absent.dirty BY RevisionsAreNumbers DEF Absent
  <2>2. [Absent EXCEPT !.at = "requested"] \in T /\ ~[Absent EXCEPT !.at = "requested"].dirty
    <3>1. \A b \in T : ~b.dirty => [b EXCEPT !.at = "requested"] \in T
                                   /\ ~[b EXCEPT !.at = "requested"].dirty
      OBVIOUS
    <3>2. QED BY <2>1, <3>1
  <2>3. block[k] \in T BY DEF IInv, Types, WorldTypes
  <2>4. k \in K => block'[k] = Absent \/ block'[k] = [Absent EXCEPT !.at = "requested"]
    BY <1>1
  <2>5. k \notin K => block'[k] = block[k] BY <1>1
  <2> HIDE DEF T
  <2>6. block'[k] \in T /\ (k \in K => ~block'[k].dirty)
    BY <2>1, <2>2, <2>3, <2>4, <2>5
  <2>7. QED BY <2>5, <2>6 DEF T
<1>4. WorldTypes'
  <2>1. block' = [k \in Keys |-> block'[k]] BY <1>1
  <2>2. QED BY <1>1, <1>3, <2>1 DEF IInv, Types, WorldTypes
<1>5. /\ JournalTypes' /\ Entries'
      /\ \A k \in Keys : \/ active'[k] = active[k]
                         \/ active[k].state = "None" /\ active'[k].state = "Pending"
  <2>1. \A k \in D : block[k].dirty /\ ~block'[k].dirty BY <1>2, <1>3
  <2>2. ASSUME NEW k \in Keys \ D
        PROVE  \/ block'[k] = block[k]
               \/ ~block[k].dirty /\ ~block'[k].dirty
    <3>1. CASE k \in K BY <1>2, <1>3, <2>2, <3>1
    <3>2. CASE k \notin K BY <1>3, <3>2
    <3>3. QED BY <3>1, <3>2
  <2>3. Enqueue(D) BY <1>1, <1>2
  <2>4. UNCHANGED <<revision, written, stored, durable, promised>> BY <1>1 DEF stream
  <2>5. QED BY <2>1, <2>2, <2>3, <2>4, DirtyEnqueued
<1>6. CheckpointOK' /\ TravelOK' BY <1>1, <1>5, SameInFlight
<1>7. FlagTypes' BY <1>1 DEF IInv, Types, FlagTypes, deferrals
<1>8. OwnerTypes' BY <1>1 DEF IInv, Types, OwnerTypes
<1>9. OwnerOK'
  BY <1>1 DEF IInv, OwnerOK, Waited, Captured, Flushing
<1>10. QED BY <1>1, <1>4, <1>5, <1>6, <1>7, <1>8, <1>9, Quiet DEF IInv, Types, runner, stream

LEMMA CaptureKeeps ==
    ASSUME IInv, Capture
    PROVE  IInv'
<1>1. /\ UNCHANGED <<revision, written, checkpoint, last_checkpoint_outcome, blocked,
                     force_checkpoint_requested, deferrals, runner, stream>>
      /\ UNCHANGED <<call, stage, attempts, life, promised>>
      /\ pc = "capture" /\ pc' = "start"
      /\ block' = [k \in Keys |-> [block[k] EXCEPT !.dirty = FALSE]]
      /\ Enqueue({k \in Keys : block[k].dirty})
      /\ satisfied' = FALSE /\ flushed' \in BOOLEAN
  BY DEF Capture
<1>2. PICK D \in SUBSET Keys : D = {k \in Keys : block[k].dirty} OBVIOUS
<1>3. ASSUME NEW k \in Keys
      PROVE  /\ block'[k] \in [at : {"absent", "requested", "read", "resident"}, shows : Revisions,
                               dirty : BOOLEAN]
             /\ ~block'[k].dirty
  BY <1>1 DEF IInv, Types, WorldTypes
<1>4. WorldTypes'
  <2>1. block' = [k \in Keys |-> block'[k]] BY <1>1
  <2>2. QED BY <1>1, <1>3, <2>1 DEF IInv, Types, WorldTypes
<1>5. /\ JournalTypes' /\ Entries'
      /\ \A k \in Keys : \/ active'[k] = active[k]
                         \/ active[k].state = "None" /\ active'[k].state = "Pending"
  <2>1. \A k \in D : block[k].dirty /\ ~block'[k].dirty BY <1>2, <1>3
  <2>2. \A k \in Keys \ D : ~block[k].dirty /\ ~block'[k].dirty BY <1>2, <1>3
  <2>3. Enqueue(D) BY <1>1, <1>2
  <2>4. UNCHANGED <<revision, written, stored, durable, promised>> BY <1>1 DEF stream
  <2>5. QED BY <2>1, <2>2, <2>3, <2>4, DirtyEnqueued
<1>6. CheckpointOK' /\ TravelOK' BY <1>1, <1>5, SameInFlight
<1>7. FlagTypes' BY <1>1 DEF IInv, Types, FlagTypes, deferrals
<1>8. OwnerTypes' BY <1>1 DEF IInv, Types, OwnerTypes
<1>9. OwnerOK'
  <2>1. \A k \in Keys : InFlight(k)' => InFlight(k) BY <1>5 DEF InFlight
  <2>2. QED BY <1>1, <1>3, <2>1 DEF IInv, OwnerOK, Waited, Captured, Flushing
<1>10. QED BY <1>1, <1>4, <1>5, <1>6, <1>7, <1>8, <1>9, Quiet DEF IInv, Types, runner, stream

-----------------------------------------------------------------------------
(* The steps that send tasks *)

LEMMA SavesSent ==
    ASSUME IInv, NEW K \in SUBSET Keys, \A k \in K : active[k].state \in {"Pending", "Indeterminate"}, Dispatch(K),
           K # {} => checkpoint = NoCheckpoint,
           UNCHANGED <<world, written, queued, checkpoint, completed, inbox, stored, durable,
                       promised>>
    PROVE  /\ JournalTypes' /\ RunnerTypes' /\ Entries' /\ CheckpointOK' /\ TravelOK'
           /\ \A k \in Keys : \/ active'[k] = active[k]
                              \/ /\ active[k].state \in {"Pending", "Indeterminate"}
                                 /\ active'[k].state = "WriteInFlight"
                                 /\ active'[k].revision = active[k].revision
<1>1. /\ active' = [k \in Keys |-> IF k \in K THEN [active[k] EXCEPT !.state = "WriteInFlight"]
                                   ELSE active[k]]
      /\ tasks' = tasks \cup {SaveTask(k) : k \in K}
  BY DEF Dispatch
<1>2. ASSUME NEW k \in Keys
      PROVE  /\ active'[k] \in Saves /\ active'[k].revision = active[k].revision
             /\ k \in K => active[k].state \in {"Pending", "Indeterminate"} /\ active'[k].state = "WriteInFlight"
             /\ k \notin K => active'[k] = active[k]
  <2>1. active[k] \in Saves BY DEF IInv, Types, JournalTypes
  <2>2. \A a \in Saves : LET b == [a EXCEPT !.state = "WriteInFlight"] IN
           b \in Saves /\ b.revision = a.revision /\ b.state = "WriteInFlight"
    BY DEF Saves
  <2>3. CASE k \in K BY <1>1, <2>1, <2>2, <2>3
  <2>4. CASE k \notin K BY <1>1, <2>1, <2>4
  <2>5. QED BY <2>3, <2>4
<1>3. JournalTypes' BY <1>1, <1>2 DEF IInv, Types, JournalTypes
<1>4. RunnerTypes'
  <2>1. \A k \in K : SaveTask(k) \in Tasks
    BY <1>2 DEF IInv, Types, JournalTypes, SaveTask, Tasks, Saves
  <2>2. QED BY <1>1, <2>1 DEF IInv, Types, RunnerTypes
<1>5. Entries'
  <2>1. \A k \in Keys : promised[k] <= durable[k] BY DEF IInv, Entries, StreamOK
  <2>2. \A k \in Keys : \/ active'[k] = active[k]
                        \/ /\ active[k].state # "None" /\ active'[k].state # "None"
                           /\ active'[k] \in Saves /\ active'[k].revision = active[k].revision
    BY <1>2
  <2>3. QED BY <2>1, <2>2, EntriesMoved
<1>6. CheckpointOK'
  <2>1. CASE K = {}
    <3>1. \A k \in Keys : active'[k] = active[k] BY <1>2, <2>1
    <3>2. QED BY <3>1 DEF IInv, CheckpointOK, InFlight, CheckpointLimit
  <2>2. CASE K # {} BY <2>2 DEF IInv, CheckpointOK, NoCheckpoint, CheckpointLimit
  <2>3. QED BY <2>1, <2>2
<1>7. TravelOK'
  <2>1. AttemptsInFlight' = AttemptsInFlight \cup {SaveTask(k) : k \in K}
    <3>1. \A k \in Keys : InFlight(k)' <=> InFlight(k) \/ k \in K BY <1>2 DEF InFlight
    <3>2. \A k \in Keys : SaveTask(k)' = SaveTask(k) BY <1>2 DEF SaveTask
    <3>3. QED BY <3>1, <3>2 DEF AttemptsInFlight
  <2>2. \A k \in K : SaveTask(k) \notin AttemptsInFlight
    <3>1. ASSUME NEW k \in K, SaveTask(k) \in AttemptsInFlight PROVE FALSE
      <4>1. SaveTask(k).kind = "save" /\ SaveTask(k).key = k BY DEF SaveTask
      <4>2. InFlight(k) BY <3>1, <4>1, AttemptIs
      <4>3. QED BY <1>2, <4>2 DEF InFlight
    <3>2. QED BY <3>1
  <2>3. /\ \A k \in K : SaveTask(k) \notin Answered(completed) \cup Answered(inbox)
        /\ tasks \cup Answered(completed) \cup Answered(inbox) = AttemptsInFlight
    BY <2>2 DEF IInv, TravelOK
  <2>4. QED BY <1>1, <2>1, <2>3 DEF IInv, TravelOK
<1>8. QED BY <1>2, <1>3, <1>4, <1>5, <1>6, <1>7

\* A checkpoint is sent, or sent again.
LEMMA FlushSent ==
    ASSUME IInv, checkpoint.state # "WriteInFlight",
           checkpoint' \in [state : {"WriteInFlight"}, saves : [Keys -> Revisions], retry : Nat,
                            explicit : BOOLEAN],
           checkpoint'.retry < CheckpointLimit',
           \A k \in Keys : ~InFlight(k),
           \A k \in Keys : checkpoint'.saves[k] # 0 => written[k] = checkpoint'.saves[k],
           tasks' = tasks \cup {FlushTask},
           UNCHANGED <<active, written, completed, inbox, stored, durable>>
    PROVE  /\ RunnerTypes' /\ CheckpointOK' /\ TravelOK' /\ AnswersOK'
           /\ last_checkpoint_outcome' \in {"none", last_checkpoint_outcome} => CheckpointTypes'
<1>1. RunnerTypes' BY DEF IInv, Types, RunnerTypes, Tasks
<1>2. CheckpointOK' BY DEF CheckpointOK, InFlight
<1>3. FlushTask \notin AttemptsInFlight
  <2>1. FlushTask.kind = "flush" BY DEF FlushTask
  <2>2. QED BY <2>1, AttemptIs
<1>4. TravelOK'
  <2>1. \A k \in Keys : SaveTask(k)' = SaveTask(k) /\ ~InFlight(k) /\ ~InFlight(k)'
    BY DEF SaveTask, InFlight
  <2>2. AttemptsInFlight' = AttemptsInFlight \cup {FlushTask} BY <2>1 DEF AttemptsInFlight
  <2>3. /\ FlushTask \notin Answered(completed) \cup Answered(inbox)
        /\ tasks \cup Answered(completed) \cup Answered(inbox) = AttemptsInFlight
    BY <1>3 DEF IInv, TravelOK
  <2>4. QED BY <2>2, <2>3 DEF IInv, TravelOK
<1>5. AnswersOK'
  <2>1. /\ \A i \in 1..Len(completed) : completed[i].task \in AttemptsInFlight
        /\ \A i \in 1..Len(inbox) : inbox[i].task \in AttemptsInFlight
    BY DEF IInv, TravelOK, Answered
  <2>2. /\ \A i \in 1..Len(completed) : completed[i].task # FlushTask
        /\ \A i \in 1..Len(inbox) : inbox[i].task # FlushTask
    BY <1>3, <2>1
  <2>3. QED BY <2>2 DEF IInv, AnswersOK, AnswerOK
<1>6. last_checkpoint_outcome' \in {"none", last_checkpoint_outcome} => CheckpointTypes'
  <2>1. CheckpointLimit' \in Nat
    BY JournalAssumption DEF CheckpointLimit, JournalAssumption
  <2>2. QED BY <2>1 DEF IInv, Types, CheckpointTypes
<1>7. QED BY <1>1, <1>2, <1>4, <1>5, <1>6

LEMMA CheckpointSent ==
    ASSUME IInv, DispatchCheckpoint,
           UNCHANGED <<active, written, completed, inbox, stored, durable, last_checkpoint_outcome>>
    PROVE  /\ RunnerTypes' /\ CheckpointOK' /\ TravelOK' /\ AnswersOK' /\ CheckpointTypes'
           /\ tasks' = tasks \/ CheckpointDispatchable
<1>1. CASE CheckpointDispatchable
  <2>1. checkpoint.state = "Pending" /\ checkpoint.retry < CheckpointLimit
    BY <1>1 DEF CheckpointDispatchable
  <2>2. /\ checkpoint' = [checkpoint EXCEPT !.state = "WriteInFlight"]
        /\ tasks' = tasks \cup {FlushTask}
    BY <1>1 DEF DispatchCheckpoint
  <2>3. /\ checkpoint' \in [state : {"WriteInFlight"}, saves : [Keys -> Revisions], retry : Nat,
                            explicit : BOOLEAN]
        /\ checkpoint'.saves = checkpoint.saves /\ checkpoint'.retry < CheckpointLimit'
    BY <2>1, <2>2 DEF IInv, Types, CheckpointTypes, CheckpointLimit
  <2>4. /\ \A k \in Keys : ~InFlight(k)
        /\ \A k \in Keys : checkpoint'.saves[k] # 0 => written[k] = checkpoint'.saves[k]
    BY <2>1, <2>3 DEF IInv, CheckpointOK
  <2>5. QED BY <1>1, <2>1, <2>2, <2>3, <2>4, FlushSent
<1>2. CASE ~CheckpointDispatchable
  <2>1. UNCHANGED <<checkpoint, tasks>> BY <1>2 DEF DispatchCheckpoint
  <2>2. QED BY <2>1, Quiet DEF runner, IInv, Types
<1>3. QED BY <1>1, <1>2

LEMMA AttemptKeeps ==
    ASSUME IInv, Attempt
    PROVE  IInv'
<1>1. /\ UNCHANGED <<world, written, queued, checkpoint, last_checkpoint_outcome, flags, deferrals,
                     completed, inbox, stream>>
      /\ UNCHANGED <<call, attempts, flushed, life, promised>>
      /\ pc = "attempt" /\ attempts < MaxExplicitAttempts /\ pc' = "wait" /\ stage' = "judge"
      /\ Dispatch(IF MayDispatch THEN {k \in Keys : IsPending(k) /\ written[k] = 0} ELSE {})
  BY DEF Attempt, ThenWait
<1>2. PICK K \in SUBSET Keys :
        /\ K = IF MayDispatch THEN {k \in Keys : IsPending(k) /\ written[k] = 0} ELSE {}
        /\ \A k \in K : IsPending(k)
        /\ K # {} => checkpoint = NoCheckpoint
  <2> DEFINE S == IF MayDispatch THEN {k \in Keys : IsPending(k) /\ written[k] = 0} ELSE {}
  <2>1. S \in SUBSET Keys /\ \A k \in S : IsPending(k) OBVIOUS
  <2>2. S # {} => checkpoint = NoCheckpoint BY DEF MayDispatch
  <2>3. QED BY <2>1, <2>2
<1>3. /\ JournalTypes' /\ RunnerTypes' /\ Entries' /\ CheckpointOK' /\ TravelOK'
  <2>1. Dispatch(K) BY <1>1, <1>2
  <2>2. QED BY <1>1, <1>2, <2>1, SavesSent DEF stream, IsPending
<1>4. OwnerTypes' BY <1>1 DEF IInv, Types, OwnerTypes
<1>5. OwnerOK' BY <1>1 DEF IInv, OwnerOK, Waited, Captured, Flushing, world
<1>6. QED BY <1>1, <1>3, <1>4, <1>5, Quiet DEF IInv, Types, world, stream

LEMMA EndDrainKeeps ==
    ASSUME IInv, EndDrain
    PROVE  IInv'
<1>1. /\ UNCHANGED <<world, written, queued, last_checkpoint_outcome, flags, completed, inbox, stream>>
      /\ UNCHANGED <<call, stage, attempts, flushed, life, promised>>
      /\ pc = "dispatch" /\ deferred' = {} /\ deferred_checkpoint_dispatch' = FALSE
      /\ pc' = CASE call = "process" -> "checkpoint" [] call = "drain" -> "idle" [] OTHER -> stage
  BY DEF EndDrain, Leaves
<1>2. PICK K \in SUBSET Keys :
        /\ K = IF Flushing \/ ~MayDispatch THEN {}
               ELSE {k \in Keys : Dispatchable(k, MaxAutomaticAttempts)} \ deferred
        /\ \A k \in K : IsPending(k)
        /\ K # {} => checkpoint = NoCheckpoint /\ ~Flushing
  <2> DEFINE S == IF Flushing \/ ~MayDispatch THEN {}
                  ELSE {k \in Keys : Dispatchable(k, MaxAutomaticAttempts)} \ deferred
  <2>1. S \in SUBSET Keys /\ \A k \in S : IsPending(k) BY DEF Dispatchable
  <2>2. S # {} => checkpoint = NoCheckpoint /\ ~Flushing BY DEF MayDispatch
  <2>3. QED BY <2>1, <2>2
<1>3. \/ Dispatch(K) /\ UNCHANGED checkpoint
      \/ DispatchCheckpoint /\ UNCHANGED active
  BY <1>2 DEF EndDrain
<1>4. CASE Dispatch(K) /\ UNCHANGED checkpoint
  <2>1. /\ JournalTypes' /\ RunnerTypes' /\ Entries' /\ CheckpointOK' /\ TravelOK'
        /\ \A k \in Keys : \/ active'[k] = active[k]
                           \/ /\ active[k].state \in {"Pending", "Indeterminate"}
                              /\ active'[k].state = "WriteInFlight"
                              /\ active'[k].revision = active[k].revision
    BY <1>1, <1>2, <1>4, SavesSent DEF stream, IsPending
  <2>2. OwnerTypes'
    BY <1>1, JournalAssumption DEF IInv, Types, OwnerTypes, OwnerOK, Flushing
  <2>3. Flushing => active' = active
    <3>1. ASSUME Flushing PROVE active' = active
      <4>1. K = {} BY <1>2, <3>1
      <4>2. active' = [k \in Keys |-> active[k]] BY <1>4, <4>1 DEF Dispatch
      <4>3. QED BY <4>2 DEF IInv, Types, JournalTypes
    <3>2. QED BY <3>1
  <2>4. OwnerOK'
    BY <1>1, <2>3 DEF IInv, OwnerOK, Waited, Captured, Flushing, world, InFlight, Types, OwnerTypes
  <2>5. FlagTypes' /\ CheckpointTypes'
    BY <1>1, <1>4 DEF IInv, Types, FlagTypes, CheckpointTypes, CheckpointLimit, flags
  <2>6. QED BY <1>1, <1>4, <2>1, <2>2, <2>4, <2>5, Quiet DEF IInv, Types, world, stream
<1>5. CASE DispatchCheckpoint /\ UNCHANGED active
  <2>1. RunnerTypes' /\ CheckpointOK' /\ TravelOK' /\ AnswersOK' /\ CheckpointTypes'
    BY <1>1, <1>5, CheckpointSent DEF stream
  <2>2. OwnerTypes'
    BY <1>1, JournalAssumption DEF IInv, Types, OwnerTypes, OwnerOK, Flushing
  <2>3. OwnerOK'
    BY <1>1, <1>5 DEF IInv, OwnerOK, Waited, Captured, Flushing, world, InFlight, Types, OwnerTypes
  <2>4. FlagTypes' BY <1>1 DEF IInv, Types, FlagTypes, flags
  <2>5. QED BY <1>1, <1>5, <2>1, <2>2, <2>3, <2>4, Quiet DEF IInv, Types, world, stream, journal
<1>6. QED BY <1>3, <1>4, <1>5

LEMMA CheckpointBegun ==
    ASSUME IInv, checkpoint = NoCheckpoint, \A k \in Keys : ~InFlight(k),
           BeginCheckpoint(TRUE) \/ BeginCheckpoint(FALSE),
           UNCHANGED <<active, written, completed, inbox, stored, durable>>
    PROVE  RunnerTypes' /\ CheckpointOK' /\ TravelOK' /\ AnswersOK' /\ CheckpointTypes'
<1>1. /\ \/ checkpoint' = [state |-> "WriteInFlight", saves |-> written, retry |-> 0, explicit |-> TRUE]
         \/ checkpoint' = [state |-> "WriteInFlight", saves |-> written, retry |-> 0, explicit |-> FALSE]
      /\ last_checkpoint_outcome' = "none" /\ tasks' = tasks \cup {FlushTask}
  BY DEF BeginCheckpoint
<1>2. /\ checkpoint' \in [state : {"WriteInFlight"}, saves : [Keys -> Revisions], retry : Nat,
                          explicit : BOOLEAN]
      /\ checkpoint'.saves = written /\ checkpoint'.retry = 0
  <2>1. PICK e \in BOOLEAN :
          checkpoint' = [state |-> "WriteInFlight", saves |-> written, retry |-> 0, explicit |-> e]
    BY <1>1
  <2>2. written \in [Keys -> Revisions] BY DEF IInv, Types, JournalTypes
  <2>3. QED BY <2>1, <2>2
<1>3. 0 < CheckpointLimit' BY JournalAssumption DEF CheckpointLimit, JournalAssumption
<1>4. checkpoint.state # "WriteInFlight" BY DEF NoCheckpoint
<1>5. QED BY <1>1, <1>2, <1>3, <1>4, FlushSent

LEMMA CheckpointIfNeededKeeps ==
    ASSUME IInv, CheckpointIfNeeded
    PROVE  IInv'
<1>1. /\ UNCHANGED <<world, journal, flags, deferrals, completed, inbox, stream>>
      /\ UNCHANGED <<call, stage, attempts, flushed, life, promised>>
      /\ pc = "checkpoint" /\ pc' = "idle"
      /\ IF CheckpointNeeded THEN BeginCheckpoint(FALSE)
         ELSE UNCHANGED <<checkpoint, last_checkpoint_outcome, tasks>>
  BY DEF CheckpointIfNeeded, Leaves
<1>2. RunnerTypes' /\ CheckpointOK' /\ TravelOK' /\ AnswersOK' /\ CheckpointTypes'
  <2>1. CASE CheckpointNeeded
    <3>1. checkpoint = NoCheckpoint /\ \A k \in Keys : ~InFlight(k)
      BY <2>1 DEF CheckpointNeeded, MayDispatch
    <3>2. BeginCheckpoint(FALSE) BY <1>1, <2>1
    <3>3. QED BY <1>1, <3>1, <3>2, CheckpointBegun DEF journal, stream
  <2>2. CASE ~CheckpointNeeded
    <3>1. UNCHANGED <<checkpoint, last_checkpoint_outcome, tasks>> BY <1>1, <2>2
    <3>2. QED BY <1>1, <3>1, Quiet DEF runner, IInv, Types, journal, stream
  <2>3. QED BY <2>1, <2>2
<1>3. OwnerTypes' BY <1>1 DEF IInv, Types, OwnerTypes
<1>4. OwnerOK' BY <1>1 DEF IInv, OwnerOK, Waited, Captured, Flushing, world
<1>5. QED BY <1>1, <1>2, <1>3, <1>4, Quiet DEF IInv, Types, world, journal, stream

LEMMA BeginFlushCheckpointKeeps ==
    ASSUME IInv, BeginFlushCheckpoint
    PROVE  IInv'
<1>1. /\ UNCHANGED <<world, journal, flags, deferrals, completed, inbox, stream>>
      /\ UNCHANGED <<call, stage, attempts, flushed, life, promised>>
      /\ pc = "begin" /\ pc' = "await"
      /\ IF checkpoint = NoCheckpoint THEN BeginCheckpoint(TRUE)
         ELSE /\ checkpoint' = [checkpoint EXCEPT
                    !.retry = IF checkpoint.state = "Pending" THEN 0 ELSE @, !.explicit = TRUE]
              /\ UNCHANGED <<last_checkpoint_outcome, tasks>>
  BY DEF BeginFlushCheckpoint, Leaves
<1>2. RunnerTypes' /\ CheckpointOK' /\ TravelOK' /\ AnswersOK' /\ CheckpointTypes'
  <2>1. CASE checkpoint = NoCheckpoint
    <3>1. \A k \in Keys : ~InFlight(k) BY <1>1 DEF IInv, OwnerOK, Waited
    <3>2. BeginCheckpoint(TRUE) BY <1>1, <2>1
    <3>3. QED BY <1>1, <2>1, <3>1, <3>2, CheckpointBegun DEF journal, stream
  <2>2. CASE checkpoint # NoCheckpoint
    <3>1. /\ checkpoint' = [checkpoint EXCEPT
                 !.retry = IF checkpoint.state = "Pending" THEN 0 ELSE @, !.explicit = TRUE]
          /\ UNCHANGED <<last_checkpoint_outcome, tasks>>
      BY <1>1, <2>2
    <3>2. /\ checkpoint' \in [state : {"None", "Pending", "WriteInFlight", "Indeterminate"},
                              saves : [Keys -> Revisions], retry : Nat, explicit : BOOLEAN]
          /\ checkpoint'.state = checkpoint.state /\ checkpoint'.saves = checkpoint.saves
          /\ checkpoint'.explicit /\ checkpoint'.retry \in {0, checkpoint.retry}
      BY <3>1 DEF IInv, Types, CheckpointTypes
    <3>3. /\ CheckpointLimit' = MaxExplicitCheckpoints /\ MaxExplicitCheckpoints \in Nat \ {0}
          /\ CheckpointLimit <= MaxExplicitCheckpoints /\ CheckpointLimit \in Nat
      BY <3>2, JournalAssumption DEF CheckpointLimit, JournalAssumption
    <3>4. CheckpointTypes' BY <3>1, <3>2, <3>3 DEF IInv, Types, CheckpointTypes
    <3>5. RunnerTypes' BY <1>1, <3>1 DEF IInv, Types, RunnerTypes
    <3>6. CheckpointOK'
      <4>1. checkpoint.state # "None" BY <2>2 DEF IInv, CheckpointOK
      <4>2. /\ checkpoint.state \in {"WriteInFlight", "Indeterminate"} =>
                 checkpoint'.retry < CheckpointLimit'
        BY <3>2, <3>3 DEF IInv, CheckpointOK, Types, CheckpointTypes
      <4>3. QED BY <1>1, <3>2, <4>1, <4>2 DEF IInv, CheckpointOK, journal, InFlight
    <3>7. TravelOK'
      BY <1>1, <3>1, <3>2 DEF IInv, TravelOK, AttemptsInFlight, SaveTask, InFlight, journal
    <3>8. AnswersOK' BY <1>1, <3>2 DEF IInv, AnswersOK, AnswerOK, stream
    <3>9. QED BY <3>4, <3>5, <3>6, <3>7, <3>8
  <2>3. QED BY <2>1, <2>2
<1>3. OwnerTypes' BY <1>1 DEF IInv, Types, OwnerTypes
<1>4. OwnerOK' BY <1>1 DEF IInv, OwnerOK, Waited, Captured, Flushing, world, journal, InFlight
<1>5. QED BY <1>1, <1>2, <1>3, <1>4, Quiet DEF IInv, Types, world, journal, stream

LEMMA AwaitCheckpointKeeps ==
    ASSUME IInv, AwaitCheckpoint
    PROVE  IInv'
<1>1. /\ UNCHANGED <<world, journal, last_checkpoint_outcome, flags, deferrals, completed, inbox,
                     stream>>
      /\ UNCHANGED <<call, attempts, flushed, life, promised>>
      /\ pc = "await"
      /\ \/ DispatchCheckpoint /\ pc' = "wait" /\ stage' = "await"
         \/ pc' = "idle" /\ stage' = stage /\ UNCHANGED <<checkpoint, tasks>>
  BY DEF AwaitCheckpoint, ThenWait, Return
<1>2. RunnerTypes' /\ CheckpointOK' /\ TravelOK' /\ AnswersOK' /\ CheckpointTypes'
  <2>1. CASE DispatchCheckpoint BY <1>1, <2>1, CheckpointSent DEF journal, stream
  <2>2. CASE UNCHANGED <<checkpoint, tasks>>
    BY <1>1, <2>2, Quiet DEF runner, IInv, Types, journal, stream
  <2>3. QED BY <1>1, <2>1, <2>2
<1>3. OwnerTypes' BY <1>1 DEF IInv, Types, OwnerTypes
<1>4. OwnerOK' BY <1>1 DEF IInv, OwnerOK, Waited, Captured, Flushing, world, journal, InFlight
<1>5. QED BY <1>1, <1>2, <1>3, <1>4, Quiet DEF IInv, Types, world, journal, stream

LEMMA RetrySaveKeeps ==
    ASSUME IInv, NEW k \in Keys, RetrySave(k)
    PROVE  IInv'
<1>1. /\ UNCHANGED <<world, written, queued, checkpoint, last_checkpoint_outcome, flags, deferrals,
                     completed, inbox, stream, owner>>
      /\ pc = "idle" /\ active[k].state = "Indeterminate"
  BY DEF RetrySave, MayResolve, InDoubt
<1>2. /\ active \in [Keys -> Saves] /\ active[k] \in Saves
  BY DEF IInv, Types, JournalTypes
<1>3. \/ Dispatch({k}) /\ checkpoint = NoCheckpoint
      \/ active' = [active EXCEPT ![k].state = "Pending"] /\ tasks' = tasks
  <2>1. PICK goes \in BOOLEAN :
          /\ goes => checkpoint = NoCheckpoint
          /\ active' = [active EXCEPT ![k].state = IF goes THEN "WriteInFlight" ELSE "Pending"]
          /\ tasks' = tasks \cup {SaveTask(j) : j \in {k} \cap (IF goes THEN Keys ELSE {})}
    <3> DEFINE g == MayDispatch /\ written[k] = 0 /\ active[k].retry < MaxAutomaticAttempts
    <3>1. g \in BOOLEAN /\ (g => checkpoint = NoCheckpoint) BY DEF MayDispatch
    <3>2. QED BY <3>1 DEF RetrySave
  <2>2. CASE goes
    <3>1. {k} \cap Keys = {k} OBVIOUS
    <3>2. tasks' = tasks \cup {SaveTask(j) : j \in {k}} BY <2>1, <2>2, <3>1
    <3>3. active' = [j \in Keys |-> IF j \in {k} THEN [active[j] EXCEPT !.state = "WriteInFlight"]
                                    ELSE active[j]]
      BY <1>2, <2>1, <2>2
    <3>4. QED BY <2>1, <2>2, <3>2, <3>3 DEF Dispatch
  <2>3. CASE ~goes
    <3>1. tasks' = tasks BY <2>1, <2>3
    <3>2. QED BY <2>1, <2>3, <3>1
  <2>4. QED BY <2>2, <2>3
<1>4. CASE Dispatch({k}) /\ checkpoint = NoCheckpoint
  <2>1. /\ JournalTypes' /\ RunnerTypes' /\ Entries' /\ CheckpointOK' /\ TravelOK'
    <3>1. PICK K \in SUBSET Keys : K = {k} OBVIOUS
    <3>2. QED BY <1>1, <1>4, <3>1, SavesSent DEF stream, owner
  <2>2. OwnerOK' BY <1>1 DEF IInv, OwnerOK, Waited, Captured, Flushing, world, owner
  <2>3. QED BY <1>1, <2>1, <2>2, Quiet DEF IInv, Types, world, stream
<1>5. CASE active' = [active EXCEPT ![k].state = "Pending"] /\ tasks' = tasks
  <2>1. /\ active' \in [Keys -> Saves] /\ active'[k].state = "Pending"
        /\ active'[k].revision = active[k].revision
        /\ \A j \in Keys \ {k} : active'[j] = active[j]
    BY <1>2, <1>5 DEF Saves
  <2>2. JournalTypes' BY <1>1, <2>1 DEF IInv, Types, JournalTypes
  <2>3. Entries'
    <3>1. \A j \in Keys : promised[j] <= durable[j] BY DEF IInv, Entries, StreamOK
    <3>2. \A j \in Keys : \/ active'[j] = active[j]
                          \/ /\ active[j].state # "None" /\ active'[j].state # "None"
                             /\ active'[j] \in Saves /\ active'[j].revision = active[j].revision
      BY <1>1, <2>1
    <3>3. QED BY <1>1, <3>1, <3>2, EntriesMoved DEF stream, owner
  <2>4. CheckpointOK' /\ TravelOK'
    <3>1. \A j \in Keys : \/ active'[j] = active[j]
                          \/ active[j].state # "WriteInFlight" /\ active'[j].state # "WriteInFlight"
      BY <1>1, <2>1
    <3>2. QED BY <1>1, <1>5, <3>1, SameInFlight DEF runner
  <2>5. OwnerOK' BY <1>1 DEF IInv, OwnerOK, Waited, Captured, Flushing, world, owner
  <2>6. QED BY <1>1, <1>5, <2>2, <2>3, <2>4, <2>5, Quiet DEF IInv, Types, world, stream, runner
<1>6. QED BY <1>3, <1>4, <1>5

LEMMA RetryCheckpointKeeps ==
    ASSUME IInv, RetryCheckpoint
    PROVE  IInv'
<1>1. /\ UNCHANGED <<world, journal, last_checkpoint_outcome, flags, deferrals, completed, inbox,
                     stream, owner>>
      /\ pc = "idle" /\ checkpoint.state = "Indeterminate"
  BY DEF RetryCheckpoint, MayResolve
<1>2. checkpoint.retry < CheckpointLimit BY <1>1 DEF IInv, CheckpointOK
<1>3. /\ checkpoint' = [checkpoint EXCEPT !.state = "WriteInFlight"]
      /\ tasks' = tasks \cup {FlushTask}
  BY <1>2 DEF RetryCheckpoint
<1>4. /\ checkpoint' \in [state : {"WriteInFlight"}, saves : [Keys -> Revisions], retry : Nat,
                          explicit : BOOLEAN]
      /\ checkpoint'.saves = checkpoint.saves /\ checkpoint'.retry < CheckpointLimit'
  BY <1>2, <1>3 DEF IInv, Types, CheckpointTypes, CheckpointLimit
<1>5. /\ \A k \in Keys : ~InFlight(k)
      /\ \A k \in Keys : checkpoint'.saves[k] # 0 => written[k] = checkpoint'.saves[k]
  BY <1>1, <1>4 DEF IInv, CheckpointOK
<1>6. RunnerTypes' /\ CheckpointOK' /\ TravelOK' /\ AnswersOK' /\ CheckpointTypes'
  BY <1>1, <1>3, <1>4, <1>5, FlushSent DEF journal, stream
<1>7. OwnerOK' BY <1>1 DEF IInv, OwnerOK, Waited, Captured, Flushing, world, owner
<1>8. QED BY <1>1, <1>6, <1>7, Quiet DEF IInv, Types, world, journal, stream, owner

-----------------------------------------------------------------------------
(* The steps that apply a completion *)

LEMMA OldestAnswer ==
    ASSUME IInv, inbox # <<>>
    PROVE  /\ Head(inbox) \in Completions /\ AnswerOK(Head(inbox))
           /\ Head(inbox).task \in AttemptsInFlight
<1>1. inbox \in Seq(Completions) /\ EachOnce(inbox) BY DEF IInv, Types, RunnerTypes, TravelOK
<1>2. /\ Head(inbox) \in Completions /\ Head(inbox) = inbox[1] /\ 1 \in 1..Len(inbox)
      /\ Head(inbox).task \in Answered(inbox)
  BY <1>1, AnswerApplied
<1>3. QED BY <1>2 DEF IInv, AnswersOK, TravelOK

LEMMA AnswerTaken ==
    ASSUME IInv, inbox # <<>>, inbox' = Tail(inbox), UNCHANGED <<tasks, completed, stored, durable>>,
           AttemptsInFlight' = AttemptsInFlight \ {Head(inbox).task},
           \A k \in Keys : checkpoint'.saves[k] \in {0, checkpoint.saves[k]}
    PROVE  RunnerTypes' /\ TravelOK' /\ AnswersOK'
<1>1. inbox \in Seq(Completions) /\ EachOnce(inbox) BY DEF IInv, Types, RunnerTypes, TravelOK
<1>2. /\ inbox' \in Seq(Completions) /\ EachOnce(inbox')
      /\ Answered(inbox') = Answered(inbox) \ {Head(inbox).task}
      /\ Head(inbox).task \in Answered(inbox)
      /\ \A i \in 1..Len(inbox') : \E j \in 1..Len(inbox) : inbox'[i] = inbox[j]
  BY <1>1, AnswerApplied
<1>3. RunnerTypes' BY <1>2 DEF IInv, Types, RunnerTypes
<1>4. TravelOK' BY <1>2 DEF IInv, TravelOK
<1>5. AnswersOK'
  <2>1. \A k \in Keys : durable[k] \in Nat
    BY RevisionsAreNumbers DEF IInv, Types, StreamTypes
  <2>2. ASSUME NEW a, AnswerOK(a) PROVE AnswerOK(a)' BY <2>1, <2>2 DEF AnswerOK
  <2>3. QED BY <1>2, <2>2 DEF IInv, AnswersOK
<1>6. QED BY <1>3, <1>4, <1>5

\* The answer to the save of k, whose attempt is then no longer in flight.
LEMMA SaveAnswered ==
    ASSUME IInv, NEW k \in Keys, inbox # <<>>, Matching(k), inbox' = Tail(inbox),
           UNCHANGED <<tasks, completed, stored, durable, checkpoint>>,
           active'[k].state # "WriteInFlight", \A j \in Keys \ {k} : active'[j] = active[j]
    PROVE  /\ RunnerTypes' /\ TravelOK' /\ AnswersOK'
           /\ Head(inbox).outcome = "ok" => stored[k] = active[k].revision
           /\ \A j \in Keys : InFlight(j)' => InFlight(j)
           /\ checkpoint.state = "None"
<1>1. /\ Head(inbox).task \in AttemptsInFlight /\ AnswerOK(Head(inbox))
      /\ Head(inbox).task.kind = "save" /\ Head(inbox).task.key = k
      /\ Head(inbox).task.revision = active[k].revision /\ InFlight(k)
  BY OldestAnswer DEF Matching
<1>2. Head(inbox).task = SaveTask(k) /\ SaveTask(k) # FlushTask BY <1>1, AttemptIs
<1>3. /\ \A j \in Keys : InFlight(j)' <=> InFlight(j) /\ j # k
      /\ \A j \in Keys \ {k} : SaveTask(j)' = SaveTask(j) /\ SaveTask(j) # SaveTask(k)
  BY DEF InFlight, SaveTask
<1>4. AttemptsInFlight' = AttemptsInFlight \ {SaveTask(k)}
  BY <1>2, <1>3 DEF AttemptsInFlight
<1>5. RunnerTypes' /\ TravelOK' /\ AnswersOK'
  <2>1. \A j \in Keys : checkpoint'.saves[j] \in {0, checkpoint.saves[j]} OBVIOUS
  <2>2. QED BY <1>2, <1>4, <2>1, AnswerTaken
<1>6. Head(inbox).outcome = "ok" => stored[k] = active[k].revision BY <1>1 DEF AnswerOK
<1>7. checkpoint.state = "None" BY <1>1 DEF IInv, CheckpointOK
<1>8. QED BY <1>3, <1>5, <1>6, <1>7

\* The save of k is written: nothing is owed that was not, and it is stored.
LEMMA EntryAccepted ==
    ASSUME IInv, NEW k \in Keys, active[k].state # "None", stored[k] = active[k].revision,
           written' = [written EXCEPT ![k] = active[k].revision],
           active' = [active EXCEPT ![k] = NoAttempt],
           UNCHANGED <<world, queued, stored, durable, promised>>
    PROVE  /\ JournalTypes' /\ Entries'
           /\ active'[k] = NoAttempt /\ \A j \in Keys \ {k} : active'[j] = active[j]
           /\ written[k] = 0 /\ \A j \in Keys \ {k} : written'[j] = written[j]
           /\ \A j \in Keys : Open(j)' = Open(j)
<1>1. /\ written[k] \in Revisions /\ active[k] \in Saves /\ queued[k] \in Seq(Saves)
      /\ revision[k] \in Nat /\ LineOK(k) /\ NoAttempt \in Saves
      /\ written \in [Keys -> Revisions] /\ active \in [Keys -> Saves]
      /\ queued \in [Keys -> Seq(Saves)]
  BY RevisionsAreNumbers DEF IInv, Types, JournalTypes, WorldTypes, Entries
<1>2. /\ active'[k] = NoAttempt /\ \A j \in Keys \ {k} : active'[j] = active[j]
      /\ written'[k] = active[k].revision /\ \A j \in Keys \ {k} : written'[j] = written[j]
  BY <1>1
<1>3. JournalTypes' BY <1>1 DEF JournalTypes, Saves
<1>4. /\ written[k] = 0 /\ EntryOK(active[k].revision, NoAttempt, queued[k], revision[k])
      /\ Owes(active[k].revision, NoAttempt, queued[k]) = Owes(written[k], active[k], queued[k])
  BY <1>1, EntryWritten DEF LineOK
<1>5. \A j \in Keys : Open(j)' = Open(j) BY <1>2, <1>4 DEF Open
<1>6. ASSUME NEW j \in Keys PROVE (LineOK(j) /\ StreamOK(j) /\ EditOK(j))'
  <2>1. LineOK(j) /\ StreamOK(j) /\ EditOK(j) BY DEF IInv, Entries
  <2>2. CASE j = k
    <3>1. LineOK(j)' BY <1>2, <1>4, <2>2 DEF LineOK, world
    <3>2. StreamOK(j)' BY <1>2, <1>5, <2>1, <2>2 DEF StreamOK, world
    <3>3. EditOK(j)' BY <1>5, <2>1 DEF EditOK, world
    <3>4. QED BY <3>1, <3>2, <3>3
  <2>3. CASE j # k
    <3>1. active'[j] = active[j] /\ written'[j] = written[j] BY <1>2, <2>3
    <3>2. QED BY <1>5, <2>1, <3>1 DEF LineOK, StreamOK, EditOK, world
  <2>4. QED BY <2>2, <2>3
<1>7. Entries' BY <1>6 DEF Entries
<1>8. QED BY <1>2, <1>3, <1>4, <1>5, <1>7

LEMMA AcknowledgeSaveKeeps ==
    ASSUME IInv, NEW k \in Keys, AcknowledgeSave(k)
    PROVE  IInv'
<1>1. /\ UNCHANGED <<queued, checkpoint, last_checkpoint_outcome, flags, deferrals>>
      /\ UNCHANGED <<world, tasks, completed, stream, owner>>
      /\ pc = "drain" /\ inbox # <<>> /\ Head(inbox).outcome = "ok" /\ inbox' = Tail(inbox)
      /\ Matching(k) /\ active[k].state = "WriteInFlight"
      /\ written' = [written EXCEPT ![k] = active[k].revision]
      /\ active' = [active EXCEPT ![k] = NoAttempt]
  BY DEF AcknowledgeSave, Applies, Matching, InFlight
<1>2. active'[k] = NoAttempt /\ \A j \in Keys \ {k} : active'[j] = active[j]
  BY <1>1 DEF IInv, Types, JournalTypes
<1>3. /\ RunnerTypes' /\ TravelOK' /\ AnswersOK'
      /\ stored[k] = active[k].revision /\ checkpoint.state = "None"
      /\ \A j \in Keys : InFlight(j)' => InFlight(j)
  BY <1>1, <1>2, SaveAnswered DEF stream, NoAttempt
<1>4. JournalTypes' /\ Entries' BY <1>1, <1>3, EntryAccepted DEF stream, owner
<1>5. CheckpointOK'
  <2>1. checkpoint = NoCheckpoint BY <1>3 DEF IInv, CheckpointOK
  <2>2. QED BY <1>1, <2>1 DEF CheckpointOK, NoCheckpoint
<1>6. OwnerOK'
  BY <1>1, <1>3 DEF IInv, OwnerOK, Waited, Captured, Flushing, world, owner
<1>7. QED BY <1>1, <1>3, <1>4, <1>5, <1>6, Quiet DEF IInv, Types, world, stream, owner

LEMMA SaveMovedKeeps ==
    ASSUME IInv, NEW k \in Keys, inbox # <<>>, pc = "drain", Matching(k), inbox' = Tail(inbox),
           UNCHANGED <<written, queued, checkpoint, last_checkpoint_outcome, flags>>,
           UNCHANGED <<world, tasks, completed, stream, owner>>, FlagTypes',
           NEW a \in Saves, a.state \notin {"None", "WriteInFlight"}, a.revision = active[k].revision,
           active' = [active EXCEPT ![k] = a]
    PROVE  IInv'
<1>1. /\ active'[k] = a /\ \A j \in Keys \ {k} : active'[j] = active[j]
      /\ active' \in [Keys -> Saves]
  BY DEF IInv, Types, JournalTypes
<1>2. JournalTypes' BY <1>1 DEF IInv, Types, JournalTypes
<1>3. /\ RunnerTypes' /\ TravelOK' /\ AnswersOK' /\ checkpoint.state = "None"
      /\ \A j \in Keys : InFlight(j)' => InFlight(j)
  BY <1>1, SaveAnswered DEF stream
<1>4. Entries'
  <2>1. \A j \in Keys : promised[j] <= durable[j] BY DEF IInv, Entries, StreamOK
  <2>2. \A j \in Keys : \/ active'[j] = active[j]
                        \/ /\ active[j].state # "None" /\ active'[j].state # "None"
                           /\ active'[j] \in Saves /\ active'[j].revision = active[j].revision
    BY <1>1 DEF Matching, InFlight
  <2>3. QED BY <2>1, <2>2, EntriesMoved DEF stream, owner
<1>5. CheckpointOK' BY <1>3 DEF IInv, CheckpointOK, NoCheckpoint
<1>6. OwnerOK' BY <1>3 DEF IInv, OwnerOK, Waited, Captured, Flushing, world, owner
<1>7. QED BY <1>2, <1>3, <1>4, <1>5, <1>6, Quiet DEF IInv, Types, world, stream, owner

LEMMA ReturnSaveKeeps ==
    ASSUME IInv, NEW k \in Keys, ReturnSave(k)
    PROVE  IInv'
<1>1. /\ UNCHANGED <<written, queued, checkpoint, last_checkpoint_outcome, flags,
                     deferred_checkpoint_dispatch>>
      /\ UNCHANGED <<world, tasks, completed, stream, owner>>
      /\ pc = "drain" /\ inbox # <<>> /\ inbox' = Tail(inbox) /\ Matching(k)
      /\ active' = [active EXCEPT ![k] = Pending(active[k].revision, active[k].retry + 1)]
      /\ deferred' = deferred \cup {k}
  BY DEF ReturnSave, Applies
<1>2. PICK a : a = Pending(active[k].revision, active[k].retry + 1) OBVIOUS
<1>3. a \in Saves /\ a.state = "Pending" /\ a.revision = active[k].revision
  <2>1. active[k] \in Saves BY DEF IInv, Types, JournalTypes
  <2>2. active[k].revision \in Revisions /\ active[k].retry + 1 \in Nat BY <2>1 DEF Saves, Retries
  <2>3. QED BY <1>2, <2>2, PendingIsSave
<1>4. FlagTypes' BY <1>1 DEF IInv, Types, FlagTypes, flags
<1>5. active' = [active EXCEPT ![k] = a] BY <1>1, <1>2
<1>6. QED BY <1>1, <1>3, <1>4, <1>5, SaveMovedKeeps

LEMMA MarkSaveKeeps ==
    ASSUME IInv, NEW k \in Keys, MarkSave(k)
    PROVE  IInv'
<1>1. /\ UNCHANGED <<written, queued, checkpoint, last_checkpoint_outcome, flags, deferrals>>
      /\ UNCHANGED <<world, tasks, completed, stream, owner>>
      /\ pc = "drain" /\ inbox # <<>> /\ inbox' = Tail(inbox) /\ Matching(k)
      /\ active' = [active EXCEPT ![k].state = "Indeterminate"]
  BY DEF MarkSave, Applies
<1>2. PICK a : a = [active[k] EXCEPT !.state = "Indeterminate"] OBVIOUS
<1>3. a \in Saves /\ a.state = "Indeterminate" /\ a.revision = active[k].revision
  <2>1. active[k] \in Saves BY DEF IInv, Types, JournalTypes
  <2>2. QED BY <1>2, <2>1 DEF Saves
<1>4. FlagTypes' BY <1>1, Quiet DEF IInv, Types
<1>5. active' = [active EXCEPT ![k] = a] BY <1>1, <1>2
<1>6. QED BY <1>1, <1>3, <1>4, <1>5, SaveMovedKeeps

LEMMA AcceptSaveKeeps ==
    ASSUME IInv, NEW k \in Keys, AcceptSave(k)
    PROVE  IInv'
<1>1. /\ UNCHANGED <<world, queued, checkpoint, last_checkpoint_outcome, blocked, satisfied,
                     deferrals, runner, stream, stage, attempts, flushed, life, promised>>
      /\ pc = "idle" /\ active[k].state = "Indeterminate" /\ written[k] = 0
      /\ stored[k] = active[k].revision
      /\ written' = [written EXCEPT ![k] = active[k].revision]
      /\ active' = [active EXCEPT ![k] = NoAttempt]
      /\ force_checkpoint_requested' = TRUE /\ pc' = "checkpoint" /\ call' = "resolve"
  BY DEF AcceptSave, MayResolve, InDoubt
<1>2. /\ JournalTypes' /\ Entries'
      /\ active'[k] = NoAttempt /\ \A j \in Keys \ {k} : active'[j] = active[j]
      /\ \A j \in Keys \ {k} : written'[j] = written[j]
  BY <1>1, EntryAccepted DEF stream
<1>3. AttemptsInFlight' = AttemptsInFlight
  <2>1. \A j \in Keys : InFlight(j)' <=> InFlight(j) BY <1>1, <1>2 DEF InFlight, NoAttempt
  <2>2. \A j \in Keys : InFlight(j) => SaveTask(j)' = SaveTask(j)
    BY <1>1, <1>2 DEF InFlight, SaveTask
  <2>3. QED BY <1>1, <2>1, <2>2 DEF AttemptsInFlight
<1>4. TravelOK' BY <1>1, <1>3 DEF IInv, TravelOK, runner
<1>5. CheckpointOK'
  <2>1. \A j \in Keys : InFlight(j)' => InFlight(j) BY <1>1, <1>2 DEF InFlight, NoAttempt
  <2>2. \A j \in Keys : checkpoint.saves[j] # 0 => written'[j] = checkpoint.saves[j]
    BY <1>1, <1>2 DEF IInv, CheckpointOK
  <2>3. QED BY <1>1, <2>1, <2>2 DEF IInv, CheckpointOK, CheckpointLimit
<1>6. OwnerTypes' BY <1>1 DEF IInv, Types, OwnerTypes
<1>7. FlagTypes' BY <1>1 DEF IInv, Types, FlagTypes, deferrals
<1>8. OwnerOK' BY <1>1 DEF IInv, OwnerOK, Waited, Captured, Flushing, world
<1>9. QED BY <1>1, <1>2, <1>4, <1>5, <1>6, <1>7, <1>8, Quiet DEF IInv, Types, world, stream, runner

\* The answer to the checkpoint in flight, which is then no longer in flight.
LEMMA FlushAnswered ==
    ASSUME IInv, inbox # <<>>, CheckpointMatches, inbox' = Tail(inbox),
           UNCHANGED <<tasks, completed, stored, durable>>,
           checkpoint'.state # "WriteInFlight",
           \A k \in Keys : checkpoint'.saves[k] \in {0, checkpoint.saves[k]},
           \A k \in Keys : active'[k].state # "WriteInFlight"
    PROVE  /\ RunnerTypes' /\ TravelOK' /\ AnswersOK'
           /\ Head(inbox).outcome = "ok" => \A k \in Keys : checkpoint.saves[k] <= durable[k]
<1>1. /\ Head(inbox).task \in AttemptsInFlight /\ AnswerOK(Head(inbox))
      /\ Head(inbox).task.kind = "flush" /\ checkpoint.state = "WriteInFlight"
  BY OldestAnswer DEF CheckpointMatches
<1>2. Head(inbox).task = FlushTask BY <1>1, AttemptIs
<1>3. \A k \in Keys : ~InFlight(k) /\ ~InFlight(k)' BY <1>1 DEF IInv, CheckpointOK, InFlight
<1>4. AttemptsInFlight = {FlushTask} /\ AttemptsInFlight' = {}
  BY <1>1, <1>3 DEF AttemptsInFlight
<1>5. RunnerTypes' /\ TravelOK' /\ AnswersOK' BY <1>2, <1>4, AnswerTaken
<1>6. Head(inbox).outcome = "ok" => \A k \in Keys : checkpoint.saves[k] <= durable[k]
  BY <1>1, <1>2, RevisionsAreNumbers
  DEF AnswerOK, IInv, Types, StreamTypes, CheckpointTypes
<1>7. QED BY <1>5, <1>6

LEMMA EntriesSettled ==
    ASSUME IInv, SettleCheckpoint, \A k \in Keys : checkpoint.saves[k] <= durable[k],
           UNCHANGED <<world, stored, durable, promised>>
    PROVE  /\ JournalTypes' /\ Entries'
           /\ \A k \in Keys : \/ active'[k] = active[k]
                              \/ active[k].state = "None" /\ active'[k].state = "Pending"
           /\ \A k \in Keys : \/ Open(k)' = Open(k)
                              \/ Open(k)' = Open(k) \ {durable[k]}
<1>1. PICK promoted \in SUBSET Keys :
        /\ promoted = {k \in Acknowledged : active[k] = NoAttempt /\ queued[k] # <<>>}
        /\ written' = [k \in Keys |-> IF k \in Acknowledged THEN 0 ELSE written[k]]
        /\ active' = [k \in Keys |-> IF k \in promoted THEN Head(queued[k]) ELSE active[k]]
        /\ queued' = [k \in Keys |-> IF k \in promoted THEN Tail(queued[k]) ELSE queued[k]]
  BY DEF SettleCheckpoint, Acknowledged
<1>2. ASSUME NEW k \in Keys
      PROVE  /\ written'[k] \in Revisions /\ active'[k] \in Saves /\ queued'[k] \in Seq(Saves)
             /\ (LineOK(k) /\ StreamOK(k) /\ EditOK(k))'
             /\ \/ active'[k] = active[k]
                \/ active[k].state = "None" /\ active'[k].state = "Pending"
             /\ \/ Open(k)' = Open(k)
                \/ Open(k)' = Open(k) \ {durable[k]}
  <2>1. /\ written[k] \in Revisions /\ active[k] \in Saves /\ queued[k] \in Seq(Saves)
        /\ revision[k] \in Nat /\ LineOK(k) /\ StreamOK(k) /\ EditOK(k)
        /\ durable[k] \in Nat /\ stored[k] \in Nat /\ written[k] \in Nat
    BY RevisionsAreNumbers DEF IInv, Types, JournalTypes, WorldTypes, StreamTypes, Entries
  <2>2. CASE k \notin Acknowledged
    <3>1. active'[k] = active[k] /\ written'[k] = written[k] /\ queued'[k] = queued[k]
      BY <1>1, <2>2
    <3>2. QED BY <2>1, <3>1 DEF LineOK, StreamOK, EditOK, Open, world
  <2>3. CASE k \in Acknowledged
    <3>1. /\ written[k] # 0 /\ written[k] = checkpoint.saves[k] /\ written'[k] = 0
          /\ stored[k] = written[k] /\ durable[k] = written[k]
      BY <1>1, <2>1, <2>3 DEF Acknowledged, StreamOK
    <3>2. /\ active[k] = NoAttempt /\ 0 \in Revisions
          /\ active'[k] \in Saves /\ queued'[k] \in Seq(Saves)
          /\ EntryOK(0, active'[k], queued'[k], revision[k])
          /\ Owes(0, active'[k], queued'[k]) = Owes(written[k], active[k], queued[k]) \ {written[k]}
          /\ active'[k] = active[k] \/ active'[k].state = "Pending"
      <4> DEFINE w == written[k]
      <4> DEFINE q == queued[k]
      <4>0. /\ active[k] = NoAttempt
            /\ q = <<>> => /\ EntryOK(0, active[k], q, revision[k])
                           /\ Owes(0, active[k], q) = Owes(w, active[k], q) \ {w}
            /\ q # <<>> => /\ Head(q) \in Saves /\ Head(q).state = "Pending" /\ Tail(q) \in Seq(Saves)
                           /\ EntryOK(0, Head(q), Tail(q), revision[k])
                           /\ Owes(0, Head(q), Tail(q)) = Owes(w, active[k], q) \ {w}
        <5>1. w \in Revisions /\ q \in Seq(Saves) /\ EntryOK(w, active[k], q, revision[k]) /\ w # 0
          BY <2>1, <3>1 DEF LineOK
        <5> HIDE DEF w, q
        <5>2. QED BY <2>1, <5>1, EntrySettled
      <4>1. active[k] = NoAttempt /\ 0 \in Revisions
        BY <4>0, RevisionsAreNumbers
      <4>2. CASE queued[k] = <<>>
        <5>1. active'[k] = active[k] /\ queued'[k] = queued[k] BY <1>1, <4>2
        <5>2. QED BY <2>1, <4>0, <4>1, <4>2, <5>1
      <4>3. CASE queued[k] # <<>>
        <5>1. active'[k] = Head(queued[k]) /\ queued'[k] = Tail(queued[k])
          BY <1>1, <2>3, <4>1, <4>3
        <5>2. QED BY <4>0, <4>1, <4>3, <5>1
      <4>4. QED BY <4>2, <4>3
    <3>3. Open(k)' = Open(k) \ {durable[k]} BY <3>1, <3>2 DEF Open
    <3>4. LineOK(k)' BY <3>1, <3>2 DEF LineOK, world
    <3>5. StreamOK(k)' BY <2>1, <3>1, <3>3 DEF StreamOK, world
    <3>6. EditOK(k)'
      <4>1. revision[k] \in Open(k) => revision[k] \in Open(k)' \/ durable[k] >= revision[k]
        BY <2>1, <3>3
      <4>2. QED BY <2>1, <3>3, <4>1 DEF EditOK, world
    <3>7. active[k].state = "None" BY <3>2 DEF NoAttempt
    <3>8. QED BY <3>1, <3>2, <3>3, <3>4, <3>5, <3>6, <3>7
  <2>4. QED BY <2>2, <2>3
<1>3. JournalTypes' BY <1>1, <1>2 DEF JournalTypes
<1>4. QED BY <1>2, <1>3 DEF Entries

LEMMA EntriesRestored ==
    ASSUME IInv, RestoreCheckpoint, UNCHANGED <<world, stored, durable, promised>>
    PROVE  /\ JournalTypes' /\ Entries'
           /\ \A k \in Keys : \/ active'[k] = active[k]
                              \/ active[k].state = "None" /\ active'[k].state = "Pending"
           /\ \A k \in Keys : Open(k)' = Open(k)
<1>1. PICK n \in Nat : n = IF checkpoint.explicit THEN 1 ELSE 0 OBVIOUS
<1>2. ASSUME NEW k \in Keys
      PROVE  /\ written'[k] \in Revisions /\ active'[k] \in Saves /\ queued'[k] \in Seq(Saves)
             /\ (LineOK(k) /\ StreamOK(k) /\ EditOK(k))' /\ Open(k)' = Open(k)
             /\ \/ active'[k] = active[k]
                \/ active[k].state = "None" /\ active'[k].state = "Pending"
  <2>1. /\ written[k] \in Revisions /\ active[k] \in Saves /\ queued[k] \in Seq(Saves)
        /\ revision[k] \in Nat /\ LineOK(k) /\ StreamOK(k) /\ EditOK(k)
    BY RevisionsAreNumbers DEF IInv, Types, JournalTypes, WorldTypes, Entries
  <2>2. CASE k \notin Acknowledged
    <3>1. active'[k] = active[k] /\ written'[k] = written[k] /\ queued'[k] = queued[k]
      BY <2>2 DEF RestoreCheckpoint
    <3>2. QED BY <2>1, <3>1 DEF LineOK, StreamOK, EditOK, Open, world
  <2>3. CASE k \in Acknowledged
    <3>1. written[k] # 0 BY <2>3 DEF Acknowledged
    <3>2. /\ active[k] = NoAttempt /\ ~IsPending(k) /\ active[k].state = "None"
          /\ Head(Rejoin(Pending(written[k], n), queued[k])) = Pending(written[k], n)
          /\ Tail(Rejoin(Pending(written[k], n), queued[k])) = queued[k]
          /\ EntryOK(0, Pending(written[k], n), queued[k], revision[k])
          /\ Owes(0, Pending(written[k], n), queued[k]) = Owes(written[k], active[k], queued[k])
      BY <2>1, <3>1, EntryRestored DEF LineOK, NoAttempt, IsPending
    <3>3. /\ written'[k] = 0 /\ 0 \in Revisions
          /\ active'[k] = Head(Rejoin(Pending(written[k], n), queued[k]))
          /\ queued'[k] = Tail(Rejoin(Pending(written[k], n), queued[k]))
      BY <1>1, <2>3, <3>2, RevisionsAreNumbers DEF RestoreCheckpoint
    <3>4. active'[k] = Pending(written[k], n) /\ queued'[k] = queued[k] BY <3>2, <3>3
    <3>5. active'[k] \in Saves /\ active'[k].state = "Pending" BY <2>1, <3>4, PendingIsSave
    <3>6. LineOK(k)' /\ Open(k)' = Open(k) BY <3>2, <3>3, <3>4 DEF LineOK, Open, world
    <3>7. (StreamOK(k) /\ EditOK(k))' BY <2>1, <3>3, <3>6 DEF StreamOK, EditOK, world
    <3>8. QED BY <2>1, <3>2, <3>3, <3>4, <3>5, <3>6, <3>7
  <2>4. QED BY <2>2, <2>3
<1>3. JournalTypes'
  <2>1. /\ written' = [k \in Keys |-> written'[k]] /\ active' = [k \in Keys |-> active'[k]]
        /\ queued' = [k \in Keys |-> queued'[k]]
    BY DEF RestoreCheckpoint
  <2>2. QED BY <1>2, <2>1 DEF JournalTypes
<1>4. QED BY <1>2, <1>3 DEF Entries

LEMMA NoCheckpointIs ==
    NoCheckpoint \in [state : {"None", "Pending", "WriteInFlight", "Indeterminate"},
                      saves : [Keys -> Revisions], retry : Nat, explicit : BOOLEAN]
<1>1. [k \in Keys |-> 0] \in [Keys -> Revisions]
  <2>1. \A k \in Keys : 0 \in Revisions BY RevisionsAreNumbers
  <2>2. QED BY <2>1
<1>2. QED BY <1>1 DEF NoCheckpoint

LEMMA FlagsSettled ==
    ASSUME IInv, SettleCheckpoint
    PROVE  blocked' \in BOOLEAN /\ satisfied' \in BOOLEAN /\ deferred' \subseteq Keys
<1>1. blocked' \in BOOLEAN BY DEF SettleCheckpoint
<1>2. satisfied' \in BOOLEAN
  <2>1. satisfied' = JournalEmpty' BY DEF SettleCheckpoint
  <2>2. QED BY <2>1, Zenon DEF JournalEmpty
<1>3. deferred' \subseteq Keys BY DEF SettleCheckpoint, Acknowledged, IInv, Types, FlagTypes
<1>4. QED BY <1>1, <1>2, <1>3

LEMMA EndCheckpointKeeps ==
    ASSUME IInv, NEW outcome \in Outcomes, EndCheckpoint(outcome)
    PROVE  IInv'
<1>1. /\ UNCHANGED <<world, tasks, completed, stream, owner, deferred_checkpoint_dispatch>>
      /\ pc = "drain" /\ inbox # <<>> /\ Head(inbox).outcome = outcome /\ inbox' = Tail(inbox)
      /\ CheckpointMatches /\ checkpoint' = NoCheckpoint /\ outcome \in {"ok", "err"}
      /\ IF outcome = "ok" THEN SettleCheckpoint ELSE RestoreCheckpoint
      /\ last_checkpoint_outcome' \in {outcome, last_checkpoint_outcome}
      /\ force_checkpoint_requested' = FALSE
  BY DEF EndCheckpoint, Applies
<1>2. /\ \A k \in Keys : active[k].state # "WriteInFlight"
      /\ checkpoint'.state = "None" /\ \A k \in Keys : checkpoint'.saves[k] = 0
      /\ checkpoint' \in [state : {"None"}, saves : [Keys -> {0}], retry : {0}, explicit : {FALSE}]
  BY <1>1 DEF CheckpointMatches, IInv, CheckpointOK, InFlight, NoCheckpoint
<1>3. Head(inbox).outcome = "ok" => \A k \in Keys : checkpoint.saves[k] <= durable[k]
  <2>1. Head(inbox).task \in AttemptsInFlight /\ AnswerOK(Head(inbox)) BY <1>1, OldestAnswer
  <2>2. Head(inbox).task = FlushTask BY <1>1, <2>1, AttemptIs DEF CheckpointMatches
  <2>3. QED
    BY <2>1, <2>2, RevisionsAreNumbers DEF AnswerOK, IInv, Types, StreamTypes, CheckpointTypes
<1>4. /\ JournalTypes' /\ Entries'
      /\ \A k \in Keys : \/ active'[k] = active[k]
                         \/ active[k].state = "None" /\ active'[k].state = "Pending"
  <2>1. CASE outcome = "ok"
    <3>1. SettleCheckpoint BY <1>1, <2>1
    <3>2. QED BY <1>1, <1>3, <2>1, <3>1, EntriesSettled DEF stream, owner
  <2>2. CASE outcome = "err"
    <3>1. RestoreCheckpoint BY <1>1, <2>2
    <3>2. QED BY <1>1, <3>1, EntriesRestored DEF stream, owner
  <2>3. QED BY <1>1, <2>1, <2>2
<1>5. \A k \in Keys : active'[k].state # "WriteInFlight" BY <1>2, <1>4
<1>6. RunnerTypes' /\ TravelOK' /\ AnswersOK' BY <1>1, <1>2, <1>5, FlushAnswered DEF stream
<1>7. CheckpointOK'
  <2>1. checkpoint'.state = "None" /\ checkpoint' = NoCheckpoint' BY <1>1, <1>2 DEF NoCheckpoint
  <2>2. QED BY <1>2, <2>1 DEF CheckpointOK
<1>8. CheckpointTypes'
  <2>1. checkpoint' \in [state : {"None", "Pending", "WriteInFlight", "Indeterminate"},
                         saves : [Keys -> Revisions], retry : Nat, explicit : BOOLEAN]
    BY <1>1, NoCheckpointIs
  <2>2. checkpoint'.retry <= CheckpointLimit'
    BY <1>2, JournalAssumption DEF CheckpointLimit, JournalAssumption
  <2>3. QED BY <1>1, <2>1, <2>2 DEF IInv, Types, CheckpointTypes
<1>9. FlagTypes'
  <2>1. blocked' \in BOOLEAN /\ satisfied' \in BOOLEAN /\ deferred' \subseteq Keys
    <3>1. CASE SettleCheckpoint BY <3>1, FlagsSettled
    <3>2. CASE RestoreCheckpoint BY <3>2 DEF RestoreCheckpoint, IInv, Types, FlagTypes
    <3>3. QED BY <1>1, <3>1, <3>2
  <2>2. QED BY <1>1, <2>1 DEF IInv, Types, FlagTypes
<1>10. OwnerOK' BY <1>1, <1>5 DEF IInv, OwnerOK, Waited, Captured, Flushing, world, owner, InFlight
<1>11. QED BY <1>1, <1>4, <1>6, <1>7, <1>8, <1>9, <1>10, Quiet DEF IInv, Types, world, stream, owner

LEMMA AcceptCheckpointKeeps ==
    ASSUME IInv, AcceptCheckpoint
    PROVE  IInv'
<1>1. /\ UNCHANGED <<world, deferred_checkpoint_dispatch, runner, stream, owner>>
      /\ pc = "idle" /\ checkpoint.state = "Indeterminate" /\ SettleCheckpoint
      /\ \A k \in Keys : durable[k] >= checkpoint.saves[k]
      /\ checkpoint' = NoCheckpoint /\ last_checkpoint_outcome' = "ok"
      /\ force_checkpoint_requested' = FALSE
  BY DEF AcceptCheckpoint, MayResolve
<1>2. /\ \A k \in Keys : active[k].state # "WriteInFlight"
      /\ checkpoint'.state = "None" /\ \A k \in Keys : checkpoint'.saves[k] = 0
      /\ checkpoint' \in [state : {"None"}, saves : [Keys -> {0}], retry : {0}, explicit : {FALSE}]
  BY <1>1 DEF IInv, CheckpointOK, InFlight, NoCheckpoint
<1>3. \A k \in Keys : checkpoint.saves[k] <= durable[k]
  BY <1>1, RevisionsAreNumbers DEF IInv, Types, StreamTypes, CheckpointTypes
<1>4. /\ JournalTypes' /\ Entries'
      /\ \A k \in Keys : \/ active'[k] = active[k]
                         \/ active[k].state = "None" /\ active'[k].state = "Pending"
  BY <1>1, <1>3, EntriesSettled DEF stream, owner
<1>5. \A k \in Keys : active'[k].state # "WriteInFlight" BY <1>2, <1>4
<1>6. TravelOK'
  <2>1. \A k \in Keys : ~InFlight(k) /\ ~InFlight(k)' BY <1>2, <1>5 DEF InFlight
  <2>2. AttemptsInFlight = {} /\ AttemptsInFlight' = {} BY <1>1, <1>2, <2>1 DEF AttemptsInFlight
  <2>3. QED BY <1>1, <2>2 DEF IInv, TravelOK, runner
<1>7. CheckpointOK'
  <2>1. checkpoint'.state = "None" /\ checkpoint' = NoCheckpoint' BY <1>1, <1>2 DEF NoCheckpoint
  <2>2. QED BY <1>2, <2>1 DEF CheckpointOK
<1>8. CheckpointTypes'
  <2>1. checkpoint' \in [state : {"None", "Pending", "WriteInFlight", "Indeterminate"},
                         saves : [Keys -> Revisions], retry : Nat, explicit : BOOLEAN]
    BY <1>1, NoCheckpointIs
  <2>2. checkpoint'.retry <= CheckpointLimit'
    BY <1>2, JournalAssumption DEF CheckpointLimit, JournalAssumption
  <2>3. QED BY <1>1, <2>1, <2>2 DEF IInv, Types, CheckpointTypes
<1>9. FlagTypes'
  <2>1. blocked' \in BOOLEAN /\ satisfied' \in BOOLEAN /\ deferred' \subseteq Keys
    BY <1>1, FlagsSettled
  <2>2. QED BY <1>1, <2>1 DEF IInv, Types, FlagTypes
<1>10. AnswersOK'
  <2>1. \A k \in Keys : durable[k] \in Nat
    BY RevisionsAreNumbers DEF IInv, Types, StreamTypes
  <2>2. ASSUME NEW a, AnswerOK(a) PROVE AnswerOK(a)'
    BY <1>1, <1>2, <2>1, <2>2 DEF AnswerOK, stream
  <2>3. QED BY <1>1, <2>2 DEF IInv, AnswersOK, runner
<1>11. OwnerOK' BY <1>1, <1>5 DEF IInv, OwnerOK, Waited, Captured, Flushing, world, owner, InFlight
<1>12. QED BY <1>1, <1>4, <1>6, <1>7, <1>8, <1>9, <1>10, <1>11, Quiet
       DEF IInv, Types, world, stream, owner, runner

LEMMA CheckpointMovedKeeps ==
    ASSUME IInv, inbox # <<>>, pc = "drain", CheckpointMatches, inbox' = Tail(inbox),
           UNCHANGED <<journal, last_checkpoint_outcome, flags>>,
           UNCHANGED <<world, tasks, completed, stream, owner>>, FlagTypes',
           checkpoint' \in [state : {"Pending", "Indeterminate"}, saves : {checkpoint.saves},
                            retry : Nat, explicit : {checkpoint.explicit}],
           checkpoint'.state = "Pending" => checkpoint'.retry <= checkpoint.retry + 1,
           checkpoint'.state = "Indeterminate" => checkpoint'.retry = checkpoint.retry
    PROVE  IInv'
<1>1. /\ \A k \in Keys : active[k].state # "WriteInFlight"
      /\ checkpoint.retry < CheckpointLimit /\ CheckpointLimit' = CheckpointLimit
      /\ checkpoint.state = "WriteInFlight" /\ CheckpointLimit \in Nat
  BY JournalAssumption
  DEF CheckpointMatches, IInv, CheckpointOK, InFlight, CheckpointLimit, JournalAssumption
<1>2. CheckpointTypes' BY <1>1 DEF IInv, Types, CheckpointTypes
<1>3. RunnerTypes' /\ TravelOK' /\ AnswersOK' BY <1>1, FlushAnswered DEF stream, journal
<1>4. CheckpointOK' BY <1>1 DEF IInv, CheckpointOK, journal, InFlight
<1>5. OwnerOK' BY DEF IInv, OwnerOK, Waited, Captured, Flushing, world, owner, journal, InFlight
<1>6. QED BY <1>2, <1>3, <1>4, <1>5, Quiet DEF IInv, Types, world, journal, stream, owner

LEMMA ReturnCheckpointKeeps ==
    ASSUME IInv, ReturnCheckpoint
    PROVE  IInv'
<1>1. /\ UNCHANGED <<journal, last_checkpoint_outcome, flags, deferred>>
      /\ UNCHANGED <<world, tasks, completed, stream, owner>>
      /\ pc = "drain" /\ inbox # <<>> /\ inbox' = Tail(inbox) /\ CheckpointMatches
      /\ checkpoint' = [checkpoint EXCEPT !.state = "Pending", !.retry = @ + 1]
      /\ deferred_checkpoint_dispatch' = TRUE
  BY DEF ReturnCheckpoint, Applies
<1>2. FlagTypes' BY <1>1 DEF IInv, Types, FlagTypes, flags
<1>3. /\ checkpoint' \in [state : {"Pending", "Indeterminate"}, saves : {checkpoint.saves},
                          retry : Nat, explicit : {checkpoint.explicit}]
      /\ checkpoint'.state = "Pending" /\ checkpoint'.retry <= checkpoint.retry + 1
  <2>1. /\ checkpoint \in [state : {"None", "Pending", "WriteInFlight", "Indeterminate"},
                           saves : [Keys -> Revisions], retry : Nat, explicit : BOOLEAN]
        /\ checkpoint.retry + 1 \in Nat
    BY DEF IInv, Types, CheckpointTypes
  <2>2. /\ checkpoint'.state = "Pending" /\ checkpoint'.retry = checkpoint.retry + 1
        /\ checkpoint' = [state |-> "Pending", saves |-> checkpoint.saves,
                          retry |-> checkpoint.retry + 1, explicit |-> checkpoint.explicit]
    BY <1>1, <2>1
  <2>3. QED BY <2>1, <2>2
<1>4. QED BY <1>1, <1>2, <1>3, CheckpointMovedKeeps

LEMMA MarkCheckpointKeeps ==
    ASSUME IInv, MarkCheckpoint
    PROVE  IInv'
<1>1. /\ UNCHANGED <<journal, last_checkpoint_outcome, flags, deferrals>>
      /\ UNCHANGED <<world, tasks, completed, stream, owner>>
      /\ pc = "drain" /\ inbox # <<>> /\ inbox' = Tail(inbox) /\ CheckpointMatches
      /\ checkpoint' = [checkpoint EXCEPT !.state = "Indeterminate"]
  BY DEF MarkCheckpoint, Applies
<1>2. FlagTypes' BY <1>1, Quiet DEF IInv, Types
<1>3. /\ checkpoint' \in [state : {"Pending", "Indeterminate"}, saves : {checkpoint.saves},
                          retry : Nat, explicit : {checkpoint.explicit}]
      /\ checkpoint'.state = "Indeterminate" /\ checkpoint'.retry = checkpoint.retry
  BY <1>1 DEF IInv, Types, CheckpointTypes
<1>4. QED BY <1>1, <1>2, <1>3, CheckpointMovedKeeps

-----------------------------------------------------------------------------
(* The steps of the runner *)

LEMMA TaskCompleted ==
    ASSUME IInv, NEW task \in tasks, NEW outcome \in Outcomes, Complete(task, outcome)
    PROVE  /\ RunnerTypes' /\ TravelOK' /\ OwnerOK' /\ faults' \in 0..MaxFaults
           /\ \A i \in 1..Len(completed') :
                 \/ completed'[i] = [task |-> task, outcome |-> outcome]
                 \/ \E j \in 1..Len(completed) : completed'[i] = completed[j]
           /\ \A i \in 1..Len(completed) : completed[i].task # task
           /\ \A i \in 1..Len(inbox) : inbox[i].task # task
           /\ task \in AttemptsInFlight
<1>1. /\ tasks' = tasks \ {task}
      /\ completed' = Append(completed, [task |-> task, outcome |-> outcome])
      /\ faults' = faults + (IF outcome = "ok" THEN 0 ELSE 1) /\ faults' <= MaxFaults
      /\ UNCHANGED <<world, journal, checkpoint, last_checkpoint_outcome, flags, deferrals, inbox,
                     owner>>
  BY DEF Complete
<1>2. /\ completed \in Seq(Completions) /\ EachOnce(completed)
      /\ tasks \cap Answered(completed) = {} /\ tasks \cap Answered(inbox) = {}
      /\ tasks \subseteq Tasks /\ inbox \in Seq(Completions)
  BY DEF IInv, Types, RunnerTypes, TravelOK
<1>3. task \notin Answered(completed) /\ task \notin Answered(inbox) BY <1>2
<1>4. PICK a \in Completions : a = [task |-> task, outcome |-> outcome]
  BY <1>2 DEF Completions
<1>5. a.task = task /\ completed' = Append(completed, a) BY <1>1, <1>4
<1>6. /\ completed' \in Seq(Completions) /\ EachOnce(completed')
      /\ Answered(completed') = Answered(completed) \cup {task}
      /\ \A i \in 1..Len(completed') :
            completed'[i] = a \/ \E j \in 1..Len(completed) : completed'[i] = completed[j]
  BY <1>2, <1>3, <1>5, AnswerAppended
<1>7. RunnerTypes' BY <1>1, <1>2, <1>6 DEF RunnerTypes
<1>8. TravelOK'
  <2>1. AttemptsInFlight' = AttemptsInFlight
    BY <1>1 DEF AttemptsInFlight, InFlight, SaveTask, journal
  <2>2. QED BY <1>1, <1>3, <1>6, <2>1 DEF IInv, TravelOK
<1>9. OwnerOK' BY <1>1 DEF IInv, OwnerOK, Waited, Captured, Flushing, world, owner, journal, InFlight
<1>10. faults' \in 0..MaxFaults
  BY <1>1, JournalAssumption DEF IInv, Types, StreamTypes, JournalAssumption
<1>11. task \in AttemptsInFlight BY DEF IInv, TravelOK
<1>12. QED BY <1>3, <1>4, <1>6, <1>7, <1>8, <1>9, <1>10, <1>11 DEF Answered

LEMMA RunSaveKeeps ==
    ASSUME IInv, NEW task \in tasks, NEW outcome \in Outcomes, RunSave(task, outcome)
    PROVE  /\ IInv'
           /\ \A k \in Keys : stored'[k] >= stored[k]
<1>1. /\ task.kind = "save" /\ Complete(task, outcome) /\ durable' = durable
      /\ \/ stored' = [stored EXCEPT ![task.key] = task.revision]
         \/ stored' = stored /\ outcome # "ok"
      /\ UNCHANGED <<world, journal, checkpoint, last_checkpoint_outcome, flags, deferrals, inbox,
                     owner>>
  BY DEF RunSave, Complete, MayTakeEffect
<1>2. /\ RunnerTypes' /\ TravelOK' /\ OwnerOK' /\ faults' \in 0..MaxFaults
      /\ \A i \in 1..Len(completed') :
            \/ completed'[i] = [task |-> task, outcome |-> outcome]
            \/ \E j \in 1..Len(completed) : completed'[i] = completed[j]
      /\ \A i \in 1..Len(completed) : completed[i].task # task
      /\ \A i \in 1..Len(inbox) : inbox[i].task # task
      /\ task \in AttemptsInFlight
  BY <1>1, TaskCompleted
<1>3. PICK k \in Keys : task = SaveTask(k) /\ InFlight(k) /\ task.key = k
                        /\ task.revision = active[k].revision /\ task # FlushTask
  <2>1. task.kind # "flush" BY <1>1
  <2>2. QED BY <1>2, <2>1, AttemptIs
<1>4. /\ written[k] \in Revisions /\ active[k] \in Saves /\ queued[k] \in Seq(Saves)
      /\ revision[k] \in Nat /\ LineOK(k) /\ StreamOK(k) /\ EditOK(k)
      /\ stored \in [Keys -> Revisions] /\ active[k].state # "None"
      /\ \A j \in Keys : stored[j] \in Nat /\ durable[j] \in Nat
  BY <1>3, RevisionsAreNumbers
  DEF IInv, Types, JournalTypes, WorldTypes, StreamTypes, Entries, InFlight
<1>5. /\ active[k].revision \in Open(k) /\ active[k].revision \in Nat /\ written[k] = 0
      /\ active[k].revision \in Revisions
  BY <1>4, EntryWritten, RevisionsAreNumbers DEF LineOK, Open, Saves
<1>6. /\ \A j \in Keys \ {k} : stored'[j] = stored[j]
      /\ stored'[k] \in {stored[k], active[k].revision}
      /\ outcome = "ok" => stored'[k] = active[k].revision
      /\ stored' \in [Keys -> Revisions]
  BY <1>1, <1>3, <1>4, <1>5
<1>7. stored[k] <= active[k].revision /\ stored'[k] >= stored[k]
  BY <1>4, <1>5, <1>6 DEF StreamOK
<1>8. \A v \in Open(k) : active[k].revision <= v
  <2>1. \A i \in 1..Len(queued[k]) : queued[k][i] \in Saves BY <1>4, ElementOfSeq
  <2>2. \A i \in 1..Len(queued[k]) : active[k].revision < queued[k][i].revision
    BY <1>4 DEF LineOK, EntryOK
  <2>3. QED BY <1>5, <2>1, <2>2, RevisionsAreNumbers DEF Open, Owes
<1>9. Entries'
  <2> SUFFICES ASSUME NEW j \in Keys PROVE (LineOK(j) /\ StreamOK(j) /\ EditOK(j))'
    BY DEF Entries
  <2>1. LineOK(j) /\ StreamOK(j) /\ EditOK(j) BY DEF IInv, Entries
  <2>2. LineOK(j)' /\ Open(j)' = Open(j) BY <1>1, <2>1 DEF LineOK, Open, world, journal
  <2>3. CASE j # k
    BY <1>1, <1>6, <2>1, <2>2, <2>3 DEF StreamOK, EditOK, world, journal, owner
  <2>4. CASE j = k
    <3>1. stored'[k] = stored[k] \/ stored'[k] = active[k].revision BY <1>6
    <3>2. \A v \in Open(k) : stored'[k] <= v BY <1>4, <1>8, <3>1 DEF StreamOK
    <3>3. active[k].revision \in 1..revision[k] BY <1>4 DEF LineOK, EntryOK
    <3>4. StreamOK(k)'
      BY <1>1, <1>4, <1>5, <1>7, <2>2, <2>4, <3>1, <3>2, <3>3
      DEF StreamOK, world, journal, owner
    <3>5. EditOK(k)' BY <1>1, <1>4, <1>5, <2>2, <2>4, <3>1 DEF EditOK, world
    <3>6. QED BY <2>2, <2>4, <3>4, <3>5
  <2>5. QED BY <2>3, <2>4
<1>10. AnswersOK'
  <2>1. ASSUME NEW a, AnswerOK(a), a.task \in AttemptsInFlight, a.task # task PROVE AnswerOK(a)'
    <3>1. CASE a.task.kind = "save"
      <4>1. a.task.key \in Keys /\ a.task = SaveTask(a.task.key) /\ a.task # FlushTask
        BY <2>1, <3>1, AttemptIs
      <4>2. a.task.key # k BY <1>3, <2>1, <4>1
      <4>3. stored'[a.task.key] = stored[a.task.key] BY <1>6, <4>1, <4>2
      <4>4. QED BY <2>1, <4>1, <4>3 DEF AnswerOK
    <3>2. CASE a.task.kind # "save" BY <1>1, <2>1, <3>2 DEF AnswerOK
    <3>3. QED BY <3>1, <3>2
  <2>2. PICK b : b = [task |-> task, outcome |-> outcome] OBVIOUS
  <2>3. AnswerOK(b)' BY <1>3, <1>6, <2>2 DEF AnswerOK
  <2>4. /\ \A i \in 1..Len(completed) : completed[i].task \in AttemptsInFlight
        /\ \A i \in 1..Len(inbox) : inbox[i].task \in AttemptsInFlight
    BY DEF IInv, TravelOK, Answered
  <2>5. /\ \A i \in 1..Len(completed) : AnswerOK(completed[i]) /\ completed[i].task # task
        /\ \A i \in 1..Len(inbox) : AnswerOK(inbox[i]) /\ inbox[i].task # task
    BY <1>2 DEF IInv, AnswersOK
  <2>6. QED BY <1>1, <1>2, <2>1, <2>2, <2>3, <2>4, <2>5 DEF AnswersOK
<1>11. StreamTypes' BY <1>1, <1>2, <1>6 DEF IInv, Types, StreamTypes
<1>12. \A j \in Keys : stored'[j] >= stored[j] BY <1>4, <1>6, <1>7
<1>13. QED BY <1>1, <1>2, <1>9, <1>10, <1>11, <1>12, Quiet DEF IInv, Types, world, journal, owner

LEMMA RunFlushKeeps ==
    ASSUME IInv, NEW task \in tasks, NEW outcome \in Outcomes, RunFlush(task, outcome)
    PROVE  /\ IInv'
           /\ stored' = stored
           /\ \A k \in Keys : durable'[k] \in {durable[k], stored[k]}
<1>1. /\ task.kind = "flush" /\ Complete(task, outcome) /\ stored' = stored
      /\ UNCHANGED <<world, journal, checkpoint, last_checkpoint_outcome, flags, deferrals, inbox,
                     owner>>
  BY DEF RunFlush, Complete
<1>2. PICK K \in SUBSET Keys :
        /\ outcome = "ok" => K = Keys
        /\ durable' = [k \in Keys |-> IF k \in K THEN stored[k] ELSE durable[k]]
  <2>1. CASE outcome = "ok" BY <2>1 DEF RunFlush
  <2>2. CASE outcome = "before" BY <2>2 DEF RunFlush
  <2>3. CASE outcome \notin {"ok", "before"} BY <2>3 DEF RunFlush
  <2>4. QED BY <2>1, <2>2, <2>3
<1>3. /\ RunnerTypes' /\ TravelOK' /\ OwnerOK' /\ faults' \in 0..MaxFaults
      /\ \A i \in 1..Len(completed') :
            \/ completed'[i] = [task |-> task, outcome |-> outcome]
            \/ \E j \in 1..Len(completed) : completed'[i] = completed[j]
      /\ task \in AttemptsInFlight
  BY <1>1, TaskCompleted
<1>4. task = FlushTask BY <1>1, <1>3, AttemptIs
<1>5. ASSUME NEW k \in Keys
      PROVE  /\ LineOK(k) /\ StreamOK(k) /\ EditOK(k)
             /\ durable[k] \in Nat /\ stored[k] \in Nat /\ promised[k] \in Nat
             /\ revision[k] \in Nat
             /\ durable'[k] \in {durable[k], stored[k]} /\ durable[k] <= durable'[k]
             /\ durable'[k] \in Revisions
             /\ outcome = "ok" => durable'[k] = stored[k]
  <2>1. /\ LineOK(k) /\ StreamOK(k) /\ EditOK(k)
        /\ durable[k] \in Nat /\ stored[k] \in Nat /\ promised[k] \in Nat /\ revision[k] \in Nat
        /\ durable[k] \in Revisions /\ stored[k] \in Revisions
    BY RevisionsAreNumbers DEF IInv, Types, WorldTypes, StreamTypes, OwnerTypes, Entries
  <2>2. durable[k] <= stored[k] BY <2>1 DEF StreamOK
  <2>3. /\ durable'[k] \in {durable[k], stored[k]}
        /\ outcome = "ok" => durable'[k] = stored[k]
    BY <1>2
  <2>4. QED BY <2>1, <2>2, <2>3
<1>6. Entries'
  <2> SUFFICES ASSUME NEW k \in Keys PROVE (LineOK(k) /\ StreamOK(k) /\ EditOK(k))'
    BY DEF Entries
  <2>1. LineOK(k)' /\ Open(k)' = Open(k) BY <1>1, <1>5 DEF LineOK, Open, world, journal
  <2>2. StreamOK(k)' BY <1>1, <1>5, <2>1 DEF StreamOK, world, journal, owner
  <2>3. EditOK(k)' BY <1>1, <1>5, <2>1 DEF EditOK, world
  <2>4. QED BY <2>1, <2>2, <2>3
<1>7. AnswersOK'
  <2>0. \A k \in Keys : checkpoint.saves[k] \in Nat
    BY RevisionsAreNumbers DEF IInv, Types, CheckpointTypes
  <2>1. ASSUME NEW a, AnswerOK(a) PROVE AnswerOK(a)'
    BY <1>1, <1>5, <2>0, <2>1 DEF AnswerOK
  <2>2. PICK b : b = [task |-> task, outcome |-> outcome] OBVIOUS
  <2>3. AnswerOK(b)'
    <3>1. ASSUME NEW k \in Keys, outcome = "ok" PROVE durable'[k] >= checkpoint.saves[k]
      <4>1. checkpoint.saves[k] # 0 => stored[k] = checkpoint.saves[k]
        BY <1>5 DEF IInv, CheckpointOK, StreamOK
      <4>2. QED BY <1>5, <2>0, <3>1, <4>1
    <3>2. b.task = FlushTask /\ b.task.kind # "save" /\ b.outcome = outcome BY <1>1, <1>4, <2>2
    <3>3. QED BY <1>1, <3>1, <3>2 DEF AnswerOK
  <2>4. /\ \A i \in 1..Len(completed) : AnswerOK(completed[i])
        /\ \A i \in 1..Len(inbox) : AnswerOK(inbox[i])
    BY DEF IInv, AnswersOK
  <2>5. QED BY <1>1, <1>3, <2>1, <2>2, <2>3, <2>4 DEF AnswersOK
<1>8. StreamTypes' BY <1>1, <1>2, <1>3, <1>5 DEF IInv, Types, StreamTypes
<1>9. QED BY <1>1, <1>3, <1>5, <1>6, <1>7, <1>8, Quiet DEF IInv, Types, world, journal, owner

-----------------------------------------------------------------------------
(* The invariant *)

LEMMA InitHolds ==
    ASSUME Init
    PROVE  IInv
<1>0. /\ \A k \in Keys : 0 \in Revisions /\ MaxRevision[k] \in Nat /\ NoAttempt \in Saves
      /\ <<>> \in Seq(Saves) /\ <<>> \in Seq(Completions) /\ Len(<<>>) = 0
  BY RevisionsAreNumbers, EmptySeq
<1>1. WorldTypes BY <1>0 DEF Init, WorldTypes
<1>2. JournalTypes BY <1>0 DEF Init, JournalTypes
<1>3. CheckpointTypes
  <2>1. checkpoint.retry = 0 BY DEF Init, NoCheckpoint
  <2>2. CheckpointLimit \in Nat BY JournalAssumption DEF CheckpointLimit, JournalAssumption
  <2>3. QED BY <2>1, <2>2, NoCheckpointIs DEF Init, CheckpointTypes
<1>4. FlagTypes BY DEF Init, FlagTypes
<1>5. RunnerTypes BY <1>0 DEF Init, RunnerTypes
<1>6. StreamTypes BY <1>0, JournalAssumption DEF Init, StreamTypes, JournalAssumption
<1>7. OwnerTypes
  <2>1. promised \in [Keys -> Revisions] BY <1>0 DEF Init
  <2>2. attempts \in 0..MaxExplicitAttempts BY JournalAssumption DEF Init, JournalAssumption
  <2>3. QED BY <2>1, <2>2 DEF Init, OwnerTypes
<1>8. Entries
  <2> SUFFICES ASSUME NEW k \in Keys PROVE LineOK(k) /\ StreamOK(k) /\ EditOK(k)
    BY DEF Entries
  <2>1. /\ written[k] = 0 /\ active[k] = NoAttempt /\ queued[k] = <<>> /\ Len(queued[k]) = 0
        /\ revision[k] = 0 /\ stored[k] = 0 /\ durable[k] = 0 /\ promised[k] = 0
        /\ ~block[k].dirty
    BY <1>0 DEF Init
  <2>2. 1..Len(queued[k]) = {} BY <2>1
  <2>3. Open(k) = {} BY <2>1, <2>2 DEF Open, Owes
  <2>4. LineOK(k) BY <2>1, <2>2 DEF LineOK, EntryOK, NoAttempt
  <2>5. QED BY <2>1, <2>3, <2>4 DEF StreamOK, EditOK
<1>9. CheckpointOK BY DEF Init, CheckpointOK, NoCheckpoint
<1>10. TravelOK /\ AnswersOK
  <2>1. tasks = {} /\ Len(completed) = 0 /\ Len(inbox) = 0 BY <1>0 DEF Init
  <2>2. 1..Len(completed) = {} /\ 1..Len(inbox) = {} BY <2>1
  <2>3. /\ Answered(completed) = {} /\ Answered(inbox) = {}
        /\ EachOnce(completed) /\ EachOnce(inbox)
    BY <2>2 DEF Answered, EachOnce
  <2>4. AttemptsInFlight = {} BY DEF Init, AttemptsInFlight, InFlight, NoAttempt, NoCheckpoint
  <2>5. QED BY <2>1, <2>2, <2>3, <2>4 DEF TravelOK, AnswersOK
<1>11. OwnerOK BY DEF Init, OwnerOK, Waited, Captured, Flushing
<1>12. QED BY <1>1, <1>2, <1>3, <1>4, <1>5, <1>6, <1>7, <1>8, <1>9, <1>10, <1>11
       DEF IInv, Types

LEMMA NextKeeps ==
    ASSUME IInv, [Next]_vars
    PROVE  IInv'
<1>1. ASSUME Next PROVE IInv'
  <2>1. CASE \E k \in Keys : Edit(k) \/ RunLoad(k)
    BY <2>1, EditKeeps, RunLoadKeeps
  <2>2. CASE \E c \in Calls : Call(c) \/ BeginFlush(c)
    BY <2>2, CallKeeps, BeginFlushKeeps
  <2>3. CASE Proceed
    <3>1. CASE ApplyCompletion
      BY <3>1, AcknowledgeSaveKeeps, ReturnSaveKeeps, MarkSaveKeeps, ApplyLoadKeeps,
         EndCheckpointKeeps, ReturnCheckpointKeeps, MarkCheckpointKeeps DEF ApplyCompletion
    <3>2. CASE \E K \in SUBSET Keys : Plan(K) BY <3>2, PlanKeeps
    <3>3. QED
      BY <2>3, <3>1, <3>2, EndPassKeeps, EndDrainKeeps, CheckpointIfNeededKeeps, WaitKeeps,
         CaptureKeeps, StartFlushKeeps, AttemptKeeps, JudgeKeeps, LastRoundKeeps,
         BeginFlushCheckpointKeeps, AwaitOutcomeKeeps, AwaitCheckpointKeeps, FinishKeeps
      DEF Proceed
  <2>4. CASE Resolve
    BY <2>4, RetrySaveKeeps, AcceptSaveKeeps, RetryCheckpointKeeps, AcceptCheckpointKeeps
    DEF Resolve
  <2>5. CASE RunPersistence BY <2>5, RunSaveKeeps, RunFlushKeeps DEF RunPersistence
  <2>6. QED BY <1>1, <2>1, <2>2, <2>3, <2>4, <2>5 DEF Next
<1>2. CASE UNCHANGED vars
  <2>1. /\ UNCHANGED <<world, journal, checkpoint, last_checkpoint_outcome, flags, deferrals,
                       runner, stream, owner>>
    BY <1>2 DEF vars
  <2>2. QED BY <2>1, Quiet DEF IInv, Types, world, journal, runner, stream, owner
<1>3. QED BY <1>1, <1>2

(* The journal is in order, each attempt of it has one task or completion,     *)
(* and the stream is never ahead of an edit or behind what is promised: the    *)
(* inductive invariant of all steps of the owner and of the workers.           *)
THEOREM JournalInvariant == Spec => []IInv
<1>1. Init => IInv BY InitHolds
<1>2. IInv /\ [Next]_vars => IInv' BY NextKeeps
<1>3. QED BY <1>1, <1>2, PTL DEF Spec

(* The line of a block *)

LEMMA LineIs ==
    ASSUME IInv, NEW k \in Keys
    PROVE  /\ Owed(k) = Open(k)
           /\ \A i, j \in DOMAIN Line(k) : i < j => Line(k)[i] < Line(k)[j]
           /\ \A i \in DOMAIN Line(k) : Line(k)[i] \in 1..revision[k]
<1>1. /\ written[k] \in Revisions /\ active[k] \in Saves /\ queued[k] \in Seq(Saves)
      /\ revision[k] \in Nat /\ EntryOK(written[k], active[k], queued[k], revision[k])
  BY DEF IInv, Types, JournalTypes, WorldTypes, Entries, LineOK
<1>2. PICK l : l = LineOf(written[k], active[k], queued[k]) OBVIOUS
<1>3. /\ {l[i] : i \in DOMAIN l} = Owes(written[k], active[k], queued[k])
      /\ \A i, j \in DOMAIN l : i < j => l[i] < l[j]
      /\ \A i \in DOMAIN l : l[i] \in 1..revision[k]
  BY <1>1, <1>2, EntryLine
<1>4. Line(k) = l BY <1>2 DEF Line, LineOf
<1>5. QED BY <1>3, <1>4 DEF Owed, Open

\* An answer in a queue that holds each once is counted once.
LEMMA CountedOnce ==
    ASSUME NEW s \in Seq(Completions), EachOnce(s), NEW t
    PROVE  Cardinality({i \in DOMAIN s : s[i].task = t}) = IF t \in Answered(s) THEN 1 ELSE 0
<1>1. DOMAIN s = 1..Len(s) BY LenProperties
<1>2. CASE t \in Answered(s)
  <2>1. PICK j \in 1..Len(s) : s[j].task = t BY <1>2 DEF Answered
  <2>2. {i \in DOMAIN s : s[i].task = t} = {j} BY <1>1, <2>1 DEF EachOnce
  <2>3. QED BY <1>2, <2>2, FS_Singleton
<1>3. CASE t \notin Answered(s)
  <2>1. {i \in DOMAIN s : s[i].task = t} = {} BY <1>1, <1>3 DEF Answered
  <2>2. QED BY <1>3, <2>1, FS_EmptySet
<1>4. QED BY <1>2, <1>3

LEMMA InFlightIsExact ==
    ASSUME IInv
    PROVE  InFlightExact
<1>1. /\ completed \in Seq(Completions) /\ inbox \in Seq(Completions)
      /\ EachOnce(completed) /\ EachOnce(inbox)
      /\ tasks \cup Answered(completed) \cup Answered(inbox) = AttemptsInFlight
      /\ tasks \cap Answered(completed) = {} /\ tasks \cap Answered(inbox) = {}
      /\ Answered(completed) \cap Answered(inbox) = {}
  BY DEF IInv, Types, RunnerTypes, TravelOK
<1>2. OnTheirWay = AttemptsInFlight
  <2>1. DOMAIN completed = 1..Len(completed) /\ DOMAIN inbox = 1..Len(inbox)
    BY <1>1, LenProperties
  <2>2. QED BY <1>1, <2>1 DEF OnTheirWay, Answered
<1>3. ASSUME NEW t \in AttemptsInFlight PROVE Count(t) = 1
  <2>1. Cardinality({t} \cap tasks) = IF t \in tasks THEN 1 ELSE 0
    <3>1. CASE t \in tasks
      <4>1. {t} \cap tasks = {t} BY <3>1
      <4>2. QED BY <3>1, <4>1, FS_Singleton
    <3>2. CASE t \notin tasks
      <4>1. {t} \cap tasks = {} BY <3>2
      <4>2. QED BY <3>2, <4>1, FS_EmptySet
    <3>3. QED BY <3>1, <3>2
  <2>2. Count(t) = (IF t \in Answered(completed) THEN 1 ELSE 0)
                   + (IF t \in Answered(inbox) THEN 1 ELSE 0) + (IF t \in tasks THEN 1 ELSE 0)
    BY <1>1, <2>1, CountedOnce DEF Count
  <2>3. QED BY <1>1, <1>3, <2>2
<1>4. FlushTask \in AttemptsInFlight => AttemptsInFlight = {FlushTask}
  <2>1. ASSUME FlushTask \in AttemptsInFlight PROVE AttemptsInFlight = {FlushTask}
    <3>1. checkpoint.state = "WriteInFlight"
      <4>1. FlushTask.kind = "flush" BY DEF FlushTask
      <4>2. QED BY <2>1, <4>1, AttemptIs
    <3>2. \A k \in Keys : ~InFlight(k) BY <3>1 DEF IInv, CheckpointOK
    <3>3. QED BY <3>1, <3>2 DEF AttemptsInFlight
  <2>2. QED BY <2>1
<1>5. QED BY <1>2, <1>3, <1>4 DEF InFlightExact

(* The saves of a block stand in the order of its edits, and every attempt in  *)
(* flight has exactly one task or completion: no answer of a save or of a      *)
(* checkpoint is lost, doubled or applied to another attempt.                  *)
THEOREM JournalIsIntact == Spec => []JournalIntact
<1>1. IInv => JournalIntact
  <2> SUFFICES ASSUME IInv PROVE JournalIntact OBVIOUS
  <2>1. TypeOK BY TypesAre DEF IInv
  <2>2. JournalOrdered
    <3> SUFFICES ASSUME NEW k \in Keys
                 PROVE  /\ \A i, j \in DOMAIN Line(k) : i < j => Line(k)[i] < Line(k)[j]
                        /\ \A i \in DOMAIN Line(k) : Line(k)[i] \in 1..revision[k]
                        /\ written[k] # 0 => active[k] = NoAttempt
      BY DEF JournalOrdered
    <3>1. written[k] # 0 => active[k] = NoAttempt BY DEF IInv, Entries, LineOK, EntryOK
    <3>2. QED BY <3>1, LineIs
  <2>3. InFlightExact BY InFlightIsExact
  <2>4. QED BY <2>1, <2>2, <2>3 DEF JournalIntact
<1>2. QED BY <1>1, JournalInvariant, PTL

(* The last edit of a block is durable, or owed by the journal, or still in    *)
(* the resident block and known to be unsaved: no interleaving of captures,    *)
(* saves, checkpoints, failures and retries forgets it.                        *)
THEOREM EditsAreKept == Spec => []NoEditLost
<1>1. IInv => NoEditLost
  <2> SUFFICES ASSUME IInv, NEW k \in Keys
               PROVE  \/ durable[k] >= revision[k]
                      \/ revision[k] \in Owed(k)
                      \/ block[k].at = "resident" /\ block[k].dirty
    BY DEF NoEditLost
  <2>1. EditOK(k) /\ Owed(k) = Open(k) BY LineIs DEF IInv, Entries
  <2>2. QED BY <2>1 DEF EditOK
<1>2. QED BY <1>1, JournalInvariant, PTL

(* What a flush or a shutdown that returned Ok vouched for survives a crash.   *)
THEOREM FlushIsDurable == Spec => []FlushedIsDurable
<1>1. IInv => FlushedIsDurable
  <2> SUFFICES ASSUME IInv, NEW k \in Keys PROVE durable[k] >= promised[k]
    BY DEF FlushedIsDurable
  <2>1. promised[k] <= durable[k] BY DEF IInv, Entries, StreamOK
  <2>2. promised[k] \in Nat /\ durable[k] \in Nat
    BY RevisionsAreNumbers DEF IInv, Types, OwnerTypes, StreamTypes
  <2>3. QED BY <2>1, <2>2
<1>2. QED BY <1>1, JournalInvariant, PTL

-----------------------------------------------------------------------------
(* What a step does to the stream and to what is owed *)

\* nothing that is owed is forgotten before it is durable
Settles ==
    /\ UNCHANGED <<stored, durable>>
    /\ \A k \in Keys : Open(k)' = Open(k) \/ Open(k)' = Open(k) \ {durable[k]}

\* the revisions of dirty blocks are owed as well
Captures ==
    /\ UNCHANGED <<stored, durable>>
    /\ \A k \in Keys : \/ Open(k)' = Open(k)
                       \/ block[k].dirty /\ Open(k)' = Open(k) \cup {revision[k]}

LEMMA JournalKept ==
    ASSUME UNCHANGED <<journal, stream>>
    PROVE  Settles
BY DEF Settles, Open, journal, stream

\* An attempt that changes its state owes what it did.
LEMMA AttemptsMoved ==
    ASSUME UNCHANGED <<written, queued, stream>>,
           \A k \in Keys : \/ active'[k] = active[k]
                           \/ /\ active[k].state # "None" /\ active'[k].state # "None"
                              /\ active'[k].revision = active[k].revision
    PROVE  Settles
<1>1. ASSUME NEW k \in Keys PROVE Open(k)' = Open(k)
  <2>1. (active'[k] = NoAttempt <=> active[k] = NoAttempt) /\ active'[k].revision = active[k].revision
    BY DEF NoAttempt
  <2>2. written'[k] = written[k] /\ queued'[k] = queued[k] OBVIOUS
  <2>3. QED BY <2>1, <2>2 DEF Open, Owes
<1>2. QED BY <1>1 DEF Settles, stream

LEMMA AttemptsSent ==
    ASSUME UNCHANGED <<written, queued, stream>>, active \in [Keys -> Saves],
           NEW K \in SUBSET Keys, \A k \in K : active[k].state # "None", Dispatch(K)
    PROVE  Settles
<1>1. ASSUME NEW a \in Saves
      PROVE  /\ [a EXCEPT !.state = "WriteInFlight"].state = "WriteInFlight"
             /\ [a EXCEPT !.state = "WriteInFlight"].revision = a.revision
  BY DEF Saves
<1>2. ASSUME NEW k \in Keys
      PROVE  \/ active'[k] = active[k]
             \/ /\ active[k].state # "None" /\ active'[k].state # "None"
                /\ active'[k].revision = active[k].revision
  <2>1. CASE k \in K BY <1>1, <2>1 DEF Dispatch
  <2>2. CASE k \notin K BY <2>2 DEF Dispatch
  <2>3. QED BY <2>1, <2>2
<1>3. QED BY <1>2, AttemptsMoved

\* The answers of saves and of checkpoints.
LEMMA CompletionSettles ==
    ASSUME IInv, ApplyCompletion
    PROVE  Settles
<1>0. active \in [Keys -> Saves] BY DEF IInv, Types, JournalTypes
<1>1. ASSUME NEW k \in Keys, AcknowledgeSave(k) PROVE Settles
  <2>1. /\ UNCHANGED <<world, queued, checkpoint, tasks, completed, stream, owner>>
        /\ inbox # <<>> /\ Head(inbox).outcome = "ok" /\ inbox' = Tail(inbox)
        /\ Matching(k) /\ active[k].state = "WriteInFlight"
        /\ written' = [written EXCEPT ![k] = active[k].revision]
        /\ active' = [active EXCEPT ![k] = NoAttempt]
    BY <1>1 DEF AcknowledgeSave, Applies, Matching, InFlight
  <2>2. active'[k] = NoAttempt /\ \A j \in Keys \ {k} : active'[j] = active[j] BY <1>0, <2>1
  <2>3. stored[k] = active[k].revision BY <2>1, <2>2, SaveAnswered DEF stream, NoAttempt
  <2>4. QED BY <2>1, <2>3, EntryAccepted DEF stream, owner, Settles
<1>2. ASSUME NEW k \in Keys, ReturnSave(k) PROVE Settles
  <2>1. /\ UNCHANGED <<written, queued, stream>> /\ active[k].state = "WriteInFlight"
        /\ active' = [active EXCEPT ![k] = Pending(active[k].revision, active[k].retry + 1)]
    BY <1>2 DEF ReturnSave, Applies, Matching, InFlight
  <2>2. \A j \in Keys \ {k} : active'[j] = active[j] BY <1>0, <2>1
  <2>3. active'[k].state = "Pending" /\ active'[k].revision = active[k].revision
    BY <1>0, <2>1 DEF Pending
  <2>4. QED BY <2>1, <2>2, <2>3, AttemptsMoved
<1>3. ASSUME NEW k \in Keys, MarkSave(k) PROVE Settles
  <2>1. /\ UNCHANGED <<written, queued, stream>> /\ active[k].state = "WriteInFlight"
        /\ active' = [active EXCEPT ![k].state = "Indeterminate"]
    BY <1>3 DEF MarkSave, Applies, Matching, InFlight
  <2>2. \A j \in Keys \ {k} : active'[j] = active[j] BY <1>0, <2>1
  <2>3. active'[k].state = "Indeterminate" /\ active'[k].revision = active[k].revision
    BY <1>0, <2>1 DEF Saves
  <2>4. QED BY <2>1, <2>2, <2>3, AttemptsMoved
<1>4. ASSUME NEW k \in Keys, ApplyLoad(k) PROVE Settles
  BY <1>4, JournalKept DEF ApplyLoad
<1>5. ASSUME NEW outcome \in Outcomes, EndCheckpoint(outcome) PROVE Settles
  <2>1. /\ UNCHANGED <<world, tasks, completed, stream, owner>>
        /\ inbox # <<>> /\ Head(inbox).outcome = outcome
        /\ CheckpointMatches /\ outcome \in {"ok", "err"}
        /\ IF outcome = "ok" THEN SettleCheckpoint ELSE RestoreCheckpoint
    BY <1>5 DEF EndCheckpoint, Applies
  <2>2. CASE outcome = "ok"
    <3>1. Head(inbox).task \in AttemptsInFlight /\ AnswerOK(Head(inbox)) BY <2>1, OldestAnswer
    <3>2. Head(inbox).task = FlushTask BY <2>1, <3>1, AttemptIs DEF CheckpointMatches
    <3>3. \A k \in Keys : checkpoint.saves[k] <= durable[k]
      BY <2>1, <2>2, <3>1, <3>2, RevisionsAreNumbers
      DEF AnswerOK, IInv, Types, StreamTypes, CheckpointTypes
    <3>4. QED BY <2>1, <2>2, <3>3, EntriesSettled DEF stream, owner, Settles
  <2>3. CASE outcome = "err" BY <2>1, <2>3, EntriesRestored DEF stream, owner, Settles
  <2>4. QED BY <2>1, <2>2, <2>3
<1>6. CASE ReturnCheckpoint BY <1>6, JournalKept DEF ReturnCheckpoint, Applies
<1>7. CASE MarkCheckpoint BY <1>7, JournalKept DEF MarkCheckpoint, Applies
<1>8. QED BY <1>1, <1>2, <1>3, <1>4, <1>5, <1>6, <1>7 DEF ApplyCompletion

\* Resolving what is in doubt.
LEMMA ResolveSettles ==
    ASSUME IInv, Resolve
    PROVE  Settles
<1>0. active \in [Keys -> Saves] BY DEF IInv, Types, JournalTypes
<1>1. ASSUME NEW k \in Keys, RetrySave(k) PROVE Settles
  <2>1. /\ UNCHANGED <<written, queued, stream>> /\ active[k].state = "Indeterminate"
        /\ \/ active' = [active EXCEPT ![k].state = "WriteInFlight"]
           \/ active' = [active EXCEPT ![k].state = "Pending"]
    BY <1>1 DEF RetrySave, InDoubt
  <2>2. \A j \in Keys \ {k} : active'[j] = active[j] BY <1>0, <2>1
  <2>3. active'[k].state # "None" /\ active'[k].revision = active[k].revision
    BY <1>0, <2>1 DEF Saves
  <2>4. QED BY <2>1, <2>2, <2>3, AttemptsMoved
<1>2. ASSUME NEW k \in Keys, AcceptSave(k) PROVE Settles
  <2>1. /\ UNCHANGED <<world, queued, stream, promised>> /\ active[k].state = "Indeterminate"
        /\ stored[k] = active[k].revision
        /\ written' = [written EXCEPT ![k] = active[k].revision]
        /\ active' = [active EXCEPT ![k] = NoAttempt]
    BY <1>2 DEF AcceptSave, InDoubt
  <2>2. QED BY <2>1, EntryAccepted DEF stream, Settles
<1>3. CASE RetryCheckpoint BY <1>3, JournalKept DEF RetryCheckpoint
<1>4. CASE AcceptCheckpoint
  <2>1. /\ UNCHANGED <<world, stream, owner>> /\ SettleCheckpoint
        /\ \A k \in Keys : durable[k] >= checkpoint.saves[k]
    BY <1>4 DEF AcceptCheckpoint
  <2>2. \A k \in Keys : checkpoint.saves[k] <= durable[k]
    BY <2>1, RevisionsAreNumbers DEF IInv, Types, StreamTypes, CheckpointTypes
  <2>3. QED BY <2>1, <2>2, EntriesSettled DEF stream, owner, Settles
<1>5. QED BY <1>1, <1>2, <1>3, <1>4 DEF Resolve

\* Blocks that leave, and the capture of a flush.
LEMMA EnqueueCaptures ==
    ASSUME IInv, (\E K \in SUBSET Keys : Plan(K)) \/ Capture
    PROVE  Captures
<1>1. ASSUME NEW K \in SUBSET Keys, Plan(K) PROVE Captures
  <2>1. /\ UNCHANGED <<revision, written, stream, promised>>
        /\ block' = [k \in Keys |-> IF k \notin K THEN block[k]
                                    ELSE IF block[k] = Absent THEN [Absent EXCEPT !.at = "requested"]
                                    ELSE Absent]
        /\ Enqueue({k \in K : block[k].dirty})
    BY <1>1 DEF Plan, Leaves
  <2>2. PICK D \in SUBSET Keys : D = {k \in K : block[k].dirty} OBVIOUS
  <2>3. ~Absent.dirty /\ ~[Absent EXCEPT !.at = "requested"].dirty BY DEF Absent
  <2>4. \A k \in K : ~block'[k].dirty BY <2>1, <2>3
  <2>5. \A k \in Keys \ K : block'[k] = block[k] BY <2>1
  <2>6. \A k \in D : block[k].dirty /\ ~block'[k].dirty BY <2>2, <2>4
  <2>7. \A k \in Keys \ D : block'[k] = block[k] \/ (~block[k].dirty /\ ~block'[k].dirty)
    BY <2>2, <2>4, <2>5
  <2>8. Enqueue(D) /\ UNCHANGED <<revision, written, stored, durable, promised>>
    BY <2>1, <2>2 DEF stream
  <2>9. /\ \A k \in D : Open(k)' = Open(k) \cup {revision[k]}
        /\ \A k \in Keys \ D : Open(k)' = Open(k)
    BY <2>6, <2>7, <2>8, DirtyEnqueued
  <2>10. QED BY <2>6, <2>8, <2>9 DEF Captures
<1>2. CASE Capture
  <2>1. /\ UNCHANGED <<revision, written, stream, promised>>
        /\ block' = [k \in Keys |-> [block[k] EXCEPT !.dirty = FALSE]]
        /\ Enqueue({k \in Keys : block[k].dirty})
    BY <1>2 DEF Capture
  <2>2. PICK D \in SUBSET Keys : D = {k \in Keys : block[k].dirty} OBVIOUS
  <2>3. \A k \in Keys : ~block'[k].dirty BY <2>1 DEF IInv, Types, WorldTypes
  <2>4. \A k \in D : block[k].dirty /\ ~block'[k].dirty BY <2>2, <2>3
  <2>5. \A k \in Keys \ D : ~block[k].dirty /\ ~block'[k].dirty BY <2>2, <2>3
  <2>6. Enqueue(D) /\ UNCHANGED <<revision, written, stored, durable, promised>>
    BY <2>1, <2>2 DEF stream
  <2>7. /\ \A k \in D : Open(k)' = Open(k) \cup {revision[k]}
        /\ \A k \in Keys \ D : Open(k)' = Open(k)
    BY <2>4, <2>5, <2>6, DirtyEnqueued
  <2>8. QED BY <2>4, <2>6, <2>7 DEF Captures
<1>3. QED BY <1>1, <1>2

\* The other steps inside a call.
LEMMA CallSettles ==
    ASSUME IInv, EndPass \/ EndDrain \/ CheckpointIfNeeded \/ Wait \/ StartFlush \/ Attempt \/ Judge
                 \/ LastRound \/ BeginFlushCheckpoint \/ AwaitOutcome \/ AwaitCheckpoint \/ Finish
    PROVE  Settles
<1>0. active \in [Keys -> Saves] BY DEF IInv, Types, JournalTypes
<1>1. CASE EndPass BY <1>1, JournalKept DEF EndPass
<1>2. CASE EndDrain
  <2>1. UNCHANGED <<written, queued, stream>> BY <1>2 DEF EndDrain
  <2>2. PICK K \in SUBSET Keys :
          /\ K = IF Flushing \/ ~MayDispatch THEN {}
                 ELSE {k \in Keys : Dispatchable(k, MaxAutomaticAttempts)} \ deferred
          /\ \A k \in K : IsPending(k)
    <3> DEFINE S == IF Flushing \/ ~MayDispatch THEN {}
                    ELSE {k \in Keys : Dispatchable(k, MaxAutomaticAttempts)} \ deferred
    <3>1. S \in SUBSET Keys /\ \A k \in S : IsPending(k) BY DEF Dispatchable
    <3>2. QED BY <3>1
  <2>3. Dispatch(K) \/ UNCHANGED active BY <1>2, <2>2 DEF EndDrain
  <2>4. \A k \in K : active[k].state # "None" BY <2>2 DEF IsPending
  <2>5. QED BY <1>0, <2>1, <2>3, <2>4, AttemptsSent, AttemptsMoved
<1>3. CASE CheckpointIfNeeded BY <1>3, JournalKept DEF CheckpointIfNeeded
<1>4. CASE Wait BY <1>4, JournalKept DEF Wait
<1>5. CASE StartFlush
  <2>1. /\ UNCHANGED <<written, queued, stream>>
        /\ \/ active' = active
           \/ active' = [k \in Keys |-> IF IsPending(k) THEN [active[k] EXCEPT !.retry = 0]
                                        ELSE active[k]]
    BY <1>5 DEF StartFlush
  <2>2. ASSUME NEW a \in Saves
        PROVE  [a EXCEPT !.retry = 0].state = a.state /\ [a EXCEPT !.retry = 0].revision = a.revision
    BY DEF Saves
  <2>3. ASSUME NEW k \in Keys
        PROVE  \/ active'[k] = active[k]
               \/ /\ active[k].state # "None" /\ active'[k].state # "None"
                  /\ active'[k].revision = active[k].revision
    <3>1. active'[k] = active[k] \/ (IsPending(k) /\ active'[k] = [active[k] EXCEPT !.retry = 0])
      BY <2>1
    <3>2. active[k] \in Saves BY <1>0
    <3>3. QED BY <2>2, <3>1, <3>2 DEF IsPending
  <2>4. QED BY <2>1, <2>3, AttemptsMoved
<1>6. CASE Attempt
  <2>1. UNCHANGED <<written, queued, stream>> BY <1>6 DEF Attempt
  <2>2. PICK K \in SUBSET Keys :
          /\ K = IF MayDispatch THEN {k \in Keys : IsPending(k) /\ written[k] = 0} ELSE {}
          /\ \A k \in K : IsPending(k)
    <3> DEFINE S == IF MayDispatch THEN {k \in Keys : IsPending(k) /\ written[k] = 0} ELSE {}
    <3>1. S \in SUBSET Keys /\ \A k \in S : IsPending(k) OBVIOUS
    <3>2. QED BY <3>1
  <2>3. Dispatch(K) BY <1>6, <2>2 DEF Attempt
  <2>4. \A k \in K : active[k].state # "None" BY <2>2 DEF IsPending
  <2>5. QED BY <1>0, <2>1, <2>3, <2>4, AttemptsSent
<1>7. CASE Judge BY <1>7, JournalKept DEF Judge
<1>8. CASE LastRound BY <1>8, JournalKept DEF LastRound
<1>9. CASE BeginFlushCheckpoint BY <1>9, JournalKept DEF BeginFlushCheckpoint
<1>10. CASE AwaitOutcome BY <1>10, JournalKept DEF AwaitOutcome
<1>11. CASE AwaitCheckpoint BY <1>11, JournalKept DEF AwaitCheckpoint
<1>12. CASE Finish BY <1>12, JournalKept DEF Finish
<1>13. QED BY <1>1, <1>2, <1>3, <1>4, <1>5, <1>6, <1>7, <1>8, <1>9, <1>10, <1>11, <1>12

\* Only the tasks of the runner touch the stream.
LEMMA StepIs ==
    ASSUME IInv, Next
    PROVE  Settles \/ Captures \/ RunPersistence
<1>1. CASE \E k \in Keys : Edit(k) \/ RunLoad(k) BY <1>1, JournalKept DEF Edit, RunLoad
<1>2. CASE \E c \in Calls : Call(c) \/ BeginFlush(c) BY <1>2, JournalKept DEF Call, BeginFlush
<1>3. CASE Proceed BY <1>3, CompletionSettles, EnqueueCaptures, CallSettles DEF Proceed
<1>4. CASE Resolve BY <1>4, ResolveSettles
<1>5. QED BY <1>1, <1>2, <1>3, <1>4 DEF Next

(* No write puts an older edit of a block over a newer one: a save that is     *)
(* sent again after a failure is still the oldest one that is owed.            *)
THEOREM WritesNeverRegress == Spec => StoredNeverRegresses
<1>1. IInv /\ [Next]_vars => [\A k \in Keys : stored'[k] >= stored[k]]_vars
  <2> SUFFICES ASSUME IInv, Next, NEW k \in Keys PROVE stored'[k] >= stored[k]
    OBVIOUS
  <2>1. stored[k] \in Nat BY RevisionsAreNumbers DEF IInv, Types, StreamTypes
  <2>2. CASE Settles \/ Captures BY <2>1, <2>2 DEF Settles, Captures
  <2>3. CASE RunPersistence BY <2>1, <2>3, RunSaveKeeps, RunFlushKeeps DEF RunPersistence
  <2>4. QED BY <2>2, <2>3, StepIs
<1>2. QED BY <1>1, JournalInvariant, PTL DEF Spec, StoredNeverRegresses


(* The journal keeps its promise, SaveLedger: a captured edit is owed until    *)
(* it, or a newer one, is durable, and what is durable never goes back.        *)
THEOREM JournalIsLedger == Spec => ImplementsLedger
<1> DEFINE owed == [k \in Keys |-> Owed(k)]
           opened == [k \in Keys |-> Open(k)]
<1>1. IInv => owed = opened BY LineIs
<1>2. Init => Ledger!Init
  <2> SUFFICES ASSUME Init PROVE Ledger!Init OBVIOUS
  <2>1. ASSUME NEW k \in Keys PROVE Open(k) = {}
    <3>1. /\ written[k] = 0 /\ active[k] = NoAttempt /\ queued[k] = <<>> /\ Len(queued[k]) = 0
      BY EmptySeq DEF Init
    <3>2. 1..Len(queued[k]) = {} BY <3>1
    <3>3. QED BY <3>1, <3>2 DEF Open, Owes
  <2>2. owed = opened BY <1>1, InitHolds
  <2>3. QED BY <2>1, <2>2 DEF Ledger!Init, Init
<1>3. IInv /\ IInv' /\ [Next]_vars => [Ledger!Next]_<<owed, durable>>
  <2> SUFFICES ASSUME IInv, IInv', [Next]_vars PROVE [Ledger!Next]_<<owed, durable>> OBVIOUS
  <2>1. owed = opened /\ owed' = opened'
    <3>1. (IInv => owed = opened)' BY <1>1, PTL
    <3>2. QED BY <1>1, <3>1
  <2>2. \A k \in Keys : owed[k] = Open(k) /\ owed'[k] = Open(k)' BY <2>1
  <2>3. ASSUME NEW k \in Keys
        PROVE  /\ durable[k] \in Nat /\ stored[k] \in Nat /\ revision[k] \in Nat
               /\ Open(k) \subseteq Nat /\ StreamOK(k) /\ EditOK(k)
    <3>1. /\ durable[k] \in Nat /\ stored[k] \in Nat /\ revision[k] \in Nat
          /\ StreamOK(k) /\ EditOK(k)
      BY RevisionsAreNumbers DEF IInv, Types, StreamTypes, WorldTypes, Entries
    <3>2. \A i \in DOMAIN Line(k) : Line(k)[i] \in 1..revision[k] BY LineIs
    <3>3. Owed(k) \subseteq Nat BY <3>1, <3>2 DEF Owed
    <3>4. QED BY <3>1, <3>3, LineIs
  <2> HIDE DEF owed, opened
  <2>4. CASE UNCHANGED vars
    <3>1. UNCHANGED <<journal, stream>> BY <2>4 DEF vars
    <3>2. Settles BY <3>1, JournalKept
    <3>3. Ledger!Settle BY <2>2, <2>3, <3>2 DEF Settles, Ledger!Settle, owed
    <3>4. QED BY <3>3 DEF Ledger!Next, owed
  <2>5. CASE Settles
    <3>1. Ledger!Settle BY <2>2, <2>3, <2>5 DEF Settles, Ledger!Settle, owed
    <3>2. QED BY <3>1 DEF Ledger!Next, owed
  <2>6. CASE Captures
    <3>1. ASSUME NEW k \in Keys, Open(k)' # Open(k)
          PROVE  /\ revision[k] \in Open(k)' /\ Open(k)' = Open(k) \cup {revision[k]}
                 /\ \A u \in Open(k) \cup {durable[k]} : u < revision[k]
      <4>1. block[k].dirty /\ Open(k)' = Open(k) \cup {revision[k]} BY <2>6, <3>1 DEF Captures
      <4>2. /\ \A u \in Open(k) : u < revision[k]
            /\ durable[k] <= stored[k] /\ stored[k] < revision[k]
        BY <2>3, <4>1 DEF EditOK, StreamOK
      <4>3. QED BY <2>3, <4>1, <4>2
    <3>2. Ledger!Capture BY <2>2, <2>6, <3>1 DEF Captures, Ledger!Capture, owed
    <3>3. QED BY <3>2 DEF Ledger!Next, owed
  <2>7. ASSUME NEW task \in tasks, NEW outcome \in Outcomes, RunSave(task, outcome)
        PROVE  [Ledger!Next]_<<owed, durable>>
    <3>1. UNCHANGED <<journal, durable>> BY <2>7 DEF RunSave, Complete
    <3>2. \A k \in Keys : Open(k)' = Open(k) BY <3>1 DEF Open, journal
    <3>3. Ledger!Settle BY <2>2, <3>1, <3>2 DEF Ledger!Settle, owed
    <3>4. QED BY <3>3 DEF Ledger!Next, owed
  <2>8. ASSUME NEW task \in tasks, NEW outcome \in Outcomes, RunFlush(task, outcome)
        PROVE  [Ledger!Next]_<<owed, durable>>
    <3>1. UNCHANGED journal BY <2>8 DEF RunFlush, Complete
    <3>2. \A k \in Keys : Open(k)' = Open(k) BY <3>1 DEF Open, journal
    <3>3. \A k \in Keys : durable'[k] \in {durable[k], stored[k]} BY <2>8, RunFlushKeeps
    <3>4. \A k \in Keys : durable'[k] >= durable[k] /\ durable'[k] \in Open(k) \cup {durable[k]}
      BY <2>3, <3>3 DEF StreamOK
    <3>5. owed' = owed BY <2>1, <3>2 DEF opened
    <3>6. Ledger!Flush BY <2>2, <3>4, <3>5 DEF Ledger!Flush, owed
    <3>7. QED BY <3>6 DEF Ledger!Next, owed
  <2>9. QED BY <2>4, <2>5, <2>6, <2>7, <2>8, StepIs DEF RunPersistence
<1>4. QED BY <1>2, <1>3, JournalInvariant, PTL DEF Spec, ImplementsLedger, Ledger!Spec

-----------------------------------------------------------------------------
(* How much of a call is left *)

\* a wait of a flush with its drain, before it goes on with s
Passing(s) == Flushing /\ pc \in {"wait", "drain", "dispatch"} /\ stage = s

\* What comes before the rounds of a flush, and the passes of other calls.
Prelude ==
    IF Flushing
    THEN IF Passing("capture")
         THEN IF pc = "wait" THEN 5 ELSE IF pc = "drain" THEN 4 ELSE 3
         ELSE IF pc = "capture" THEN 2 ELSE IF pc = "start" THEN 1 ELSE 0
    ELSE IF pc = "drain" THEN 3 ELSE IF pc = "plan" THEN 2 ELSE IF pc = "dispatch" THEN 1 ELSE 0

RoundsLeft == MaxExplicitAttempts - attempts

\* A round writes the saves, begins the checkpoint and awaits its outcome.
Awaiting == pc = "await" \/ Passing("await")
Half ==
    IF Awaiting THEN 1 ELSE IF pc = "begin" THEN 2 ELSE IF pc = "finish" THEN 0 ELSE 3

\* The answers that a flush may still have to wait for: one per try of the
\* checkpoint, and one fewer when it waits for one already.
Tries == IF last_checkpoint_outcome # "none" \/ checkpoint.state = "Indeterminate" THEN 0
         ELSE CheckpointLimit - checkpoint.retry + 1
Expects == pc \in {"wait", "drain"} /\ checkpoint.state = "WriteInFlight"
Answers == IF ~Awaiting THEN 0 ELSE 2 * Tries + (IF Expects THEN 0 ELSE 1)

\* its place on the way through a wait
Place ==
    IF pc = "attempt" THEN 4 ELSE IF pc = "wait" THEN 3
    ELSE IF pc = "drain" THEN 2 ELSE IF pc = "dispatch" THEN 1 ELSE 0

\* what the workers have to run, and the owner to apply
At(place) == {k \in Keys : block[k].at = place}
Work == 3 * Cardinality(tasks) + 2 * Len(completed) + Len(inbox)
          + 2 * Cardinality(At("requested")) + Cardinality(At("read"))

\* Less is left, in the lexicographic order of these numbers.
Shorter ==
    \/ Prelude' < Prelude
    \/ UNCHANGED Prelude /\ RoundsLeft' < RoundsLeft
    \/ UNCHANGED <<Prelude, RoundsLeft>> /\ Half' < Half
    \/ UNCHANGED <<Prelude, RoundsLeft, Half>> /\ Answers' < Answers
    \/ UNCHANGED <<Prelude, RoundsLeft, Half, Answers>> /\ Place' < Place
    \/ UNCHANGED <<Prelude, RoundsLeft, Half, Answers, Place>> /\ Work' < Work

Left == {Prelude, RoundsLeft, Half, Answers, Place, Work} \subseteq Nat

\* An outcome is of no checkpoint that is still there, and a flush that awaits
\* one has it, or has a checkpoint that will leave it.
AwaitOK ==
    /\ checkpoint.state # "None" => last_checkpoint_outcome = "none"
    /\ Awaiting => \/ last_checkpoint_outcome # "none"
                   \/ checkpoint.state # "None" /\ checkpoint.explicit

\* What is counted is finite.
LEMMA WorkIs ==
    ASSUME IInv
    PROVE  /\ IsFiniteSet(tasks) /\ Cardinality(tasks) \in Nat
           /\ Len(completed) \in Nat /\ Len(inbox) \in Nat
           /\ \A p : IsFiniteSet(At(p)) /\ Cardinality(At(p)) \in Nat
           /\ Work \in Nat
<1>1. IsFiniteSet(Keys) BY JournalAssumption DEF JournalAssumption
<1>2. IsFiniteSet(tasks)
  <2> DEFINE S == {SaveTask(k) : k \in Keys}
             f == [k \in Keys |-> SaveTask(k)]
  <2>1. f \in Surjection(Keys, S) BY DEF Surjection
  <2>2. IsFiniteSet(S) BY <1>1, <2>1, FS_Surjection
  <2>3. IsFiniteSet(S \cup {FlushTask}) BY <2>2, FS_AddElement
  <2>4. tasks \subseteq S \cup {FlushTask} BY DEF IInv, TravelOK, AttemptsInFlight
  <2> HIDE DEF S
  <2>5. QED BY <2>3, <2>4, FS_Subset
<1>3. \A p : IsFiniteSet(At(p))
  <2>1. \A p : At(p) \subseteq Keys BY DEF At
  <2>2. QED BY <1>1, <2>1, FS_Subset
<1>4. Len(completed) \in Nat /\ Len(inbox) \in Nat
  BY LenProperties DEF IInv, Types, RunnerTypes
<1>5. Cardinality(tasks) \in Nat /\ \A p : Cardinality(At(p)) \in Nat
  BY <1>2, <1>3, FS_CardinalityType
<1>6. Work \in Nat BY <1>4, <1>5 DEF Work
<1>7. QED BY <1>2, <1>3, <1>4, <1>5, <1>6

\* All that is left is counted in natural numbers.
LEMMA LeftIs ==
    ASSUME IInv
    PROVE  Left /\ Tries \in Nat
<1>1. Tries \in Nat
  <2>1. CheckpointLimit \in Nat BY JournalAssumption DEF CheckpointLimit, JournalAssumption
  <2>2. checkpoint.retry \in Nat /\ checkpoint.retry <= CheckpointLimit
    BY DEF IInv, Types, CheckpointTypes
  <2>3. QED BY <2>1, <2>2 DEF Tries
<1>2. Answers \in Nat BY <1>1 DEF Answers
<1>3. RoundsLeft \in Nat
  BY JournalAssumption DEF IInv, Types, OwnerTypes, RoundsLeft, JournalAssumption
<1>4. Prelude \in Nat BY DEF Prelude
<1>5. Half \in Nat /\ Place \in Nat BY DEF Half, Place
<1>6. QED BY <1>1, <1>2, <1>3, <1>4, <1>5, WorkIs DEF Left

\* A step that leaves the owner where it is and does some of the work.
LEMMA WorkDone ==
    ASSUME UNCHANGED owner,
           UNCHANGED <<checkpoint, last_checkpoint_outcome>>, Work' < Work
    PROVE  Shorter
<1>1. UNCHANGED <<pc, call, stage, attempts, checkpoint, last_checkpoint_outcome>> BY DEF owner
<1>2. UNCHANGED <<Prelude, RoundsLeft>>
  BY <1>1 DEF Prelude, RoundsLeft, Passing, Flushing
<1>3. UNCHANGED <<Half, Place>> BY <1>1 DEF Half, Place, Awaiting, Passing, Flushing
<1>4. UNCHANGED Answers
  BY <1>1 DEF Answers, Awaiting, Passing, Flushing, Tries, Expects, CheckpointLimit
<1>5. QED BY <1>2, <1>3, <1>4 DEF Shorter

\* A worker that ends a task leaves its completion.
LEMMA TaskShortens ==
    ASSUME IInv, NEW task \in tasks, NEW outcome, Complete(task, outcome)
    PROVE  Shorter
<1>1. /\ tasks' = tasks \ {task}
      /\ completed' = Append(completed, [task |-> task, outcome |-> outcome])
      /\ UNCHANGED <<block, checkpoint, last_checkpoint_outcome, inbox>> /\ UNCHANGED owner
  BY DEF Complete, world
<1>2. Cardinality(tasks') = Cardinality(tasks) - 1 BY <1>1, WorkIs, FS_RemoveElement
<1>3. Len(completed') = Len(completed) + 1
  <2>1. completed \in Seq(Completions) BY DEF IInv, Types, RunnerTypes
  <2>2. completed \in Seq(Completions \cup {[task |-> task, outcome |-> outcome]})
    BY <2>1, LenProperties, ElementOfSeq
  <2>3. QED BY <1>1, <2>1
<1>4. At("requested")' = At("requested") /\ At("read")' = At("read") BY <1>1 DEF At
<1>5. Work' < Work
  <2> DEFINE t == Cardinality(tasks)       u == Cardinality(tasks')
             c == Len(completed)           d == Len(completed')
             i == Len(inbox)               m == Len(inbox')
             r == Cardinality(At("requested"))  x == Cardinality(At("requested")')
             e == Cardinality(At("read"))  y == Cardinality(At("read")')
  <2>1. Work = 3 * t + 2 * c + i + 2 * r + e BY DEF Work
  <2>2. Work' = 3 * u + 2 * d + m + 2 * x + y BY DEF Work
  <2>3. t \in Nat /\ c \in Nat /\ i \in Nat /\ r \in Nat /\ e \in Nat BY WorkIs
  <2>4. u = t - 1 /\ d = c + 1 /\ m = i /\ x = r /\ y = e BY <1>1, <1>2, <1>3, <1>4
  <2> HIDE DEF t, u, c, d, i, m, r, x, e, y
  <2>5. QED BY <2>1, <2>2, <2>3, <2>4
<1>6. QED BY <1>1, <1>5, WorkDone

\* A load that moves a block on its way.
LEMMA LoadWeighs ==
    ASSUME IInv, UNCHANGED owner,
           UNCHANGED <<checkpoint, last_checkpoint_outcome, tasks, completed, inbox>>,
           \/ /\ Cardinality(At("requested")') = Cardinality(At("requested")) - 1
              /\ Cardinality(At("read")') = Cardinality(At("read")) + 1
           \/ /\ Cardinality(At("requested")') = Cardinality(At("requested"))
              /\ Cardinality(At("read")') = Cardinality(At("read")) - 1
    PROVE  Shorter
<1>1. Work' < Work
  <2> DEFINE t == Cardinality(tasks)       u == Cardinality(tasks')
             c == Len(completed)           d == Len(completed')
             i == Len(inbox)               m == Len(inbox')
             r == Cardinality(At("requested"))  x == Cardinality(At("requested")')
             e == Cardinality(At("read"))  y == Cardinality(At("read")')
  <2>1. Work = 3 * t + 2 * c + i + 2 * r + e BY DEF Work
  <2>2. Work' = 3 * u + 2 * d + m + 2 * x + y BY DEF Work
  <2>3. t \in Nat /\ c \in Nat /\ i \in Nat /\ r \in Nat /\ e \in Nat BY WorkIs
  <2>4. u = t /\ d = c /\ m = i OBVIOUS
  <2>5. \/ x = r - 1 /\ y = e + 1
        \/ x = r /\ y = e - 1
    OBVIOUS
  <2> HIDE DEF t, u, c, d, i, m, r, x, e, y
  <2>6. QED BY <2>1, <2>2, <2>3, <2>4, <2>5
<1>2. QED BY <1>1, WorkDone

\* A block that was read, and one that is shown.
LEMMA LoadShortens ==
    ASSUME IInv, NEW k \in Keys, RunLoad(k) \/ ApplyLoad(k)
    PROVE  Shorter
<1>1. /\ UNCHANGED <<checkpoint, last_checkpoint_outcome, tasks, completed, inbox>>
      /\ UNCHANGED owner
  BY DEF RunLoad, ApplyLoad, runner
<1>2. \A p : IsFiniteSet(At(p)) /\ Cardinality(At(p)) \in Nat BY WorkIs
<1>3. /\ block \in [Keys -> [at : {"absent", "requested", "read", "resident"}, shows : Revisions,
                             dirty : BOOLEAN]]
  BY DEF IInv, Types, WorldTypes
<1>4. CASE RunLoad(k)
  <2>1. block[k].at = "requested" /\ block' = [block EXCEPT ![k].at = "read", ![k].shows = stored[k]]
    BY <1>4 DEF RunLoad
  <2>2. block'[k].at = "read" /\ \A j \in Keys : j # k => block'[j] = block[j]
    BY <1>3, <2>1
  <2>3. /\ At("requested")' = At("requested") \ {k} /\ k \in At("requested")
        /\ At("read")' = At("read") \cup {k} /\ k \notin At("read")
    BY <2>1, <2>2 DEF At
  <2>4. Cardinality(At("requested")') = Cardinality(At("requested")) - 1
    BY <1>2, <2>3, FS_RemoveElement
  <2>5. Cardinality(At("read")') = Cardinality(At("read")) + 1
    BY <1>2, <2>3, FS_AddElement
  <2>6. QED BY <1>1, <2>4, <2>5, LoadWeighs
<1>5. CASE ApplyLoad(k)
  <2>1. block[k].at = "read" /\ block' = [block EXCEPT ![k].at = "resident"]
    BY <1>5 DEF ApplyLoad
  <2>2. block'[k].at = "resident" /\ \A j \in Keys : j # k => block'[j] = block[j]
    BY <1>3, <2>1
  <2>3. /\ At("requested")' = At("requested")
        /\ At("read")' = At("read") \ {k} /\ k \in At("read")
    BY <2>1, <2>2 DEF At
  <2>4. Cardinality(At("read")') = Cardinality(At("read")) - 1
    BY <1>2, <2>3, FS_RemoveElement
  <2>5. Cardinality(At("requested")') = Cardinality(At("requested")) BY <2>3
  <2>6. QED BY <1>1, <2>4, <2>5, LoadWeighs
<1>6. QED BY <1>4, <1>5

\* An answer that is applied is one fewer, and with that of the checkpoint an
\* awaiting flush has its outcome, or a try fewer.
LEMMA AnswerShortens ==
    ASSUME IInv, AwaitOK, NEW outcome, Applies(outcome),
           \/ UNCHANGED <<checkpoint, last_checkpoint_outcome>>
           \/ EndCheckpoint(outcome) \/ ReturnCheckpoint \/ MarkCheckpoint
    PROVE  Shorter
<1>1. /\ pc = "drain" /\ inbox # <<>> /\ inbox' = Tail(inbox)
      /\ UNCHANGED <<block, tasks, completed>> /\ UNCHANGED owner
  BY DEF Applies, world
<1>2. inbox \in Seq(Completions) BY DEF IInv, Types, RunnerTypes
<1>3. Len(inbox') = Len(inbox) - 1 BY <1>1, <1>2
<1>4. Work' < Work
  <2> DEFINE t == Cardinality(tasks)       u == Cardinality(tasks')
             c == Len(completed)           d == Len(completed')
             i == Len(inbox)               m == Len(inbox')
             r == Cardinality(At("requested"))  x == Cardinality(At("requested")')
             e == Cardinality(At("read"))  y == Cardinality(At("read")')
  <2>1. Work = 3 * t + 2 * c + i + 2 * r + e BY DEF Work
  <2>2. Work' = 3 * u + 2 * d + m + 2 * x + y BY DEF Work
  <2>3. t \in Nat /\ c \in Nat /\ i \in Nat /\ r \in Nat /\ e \in Nat BY WorkIs
  <2>4. u = t /\ d = c /\ m = i - 1 BY <1>1, <1>3
  <2>5. x = r /\ y = e BY <1>1 DEF At
  <2> HIDE DEF t, u, c, d, i, m, r, x, e, y
  <2>6. QED BY <2>1, <2>2, <2>3, <2>4, <2>5
<1>5. CASE UNCHANGED <<checkpoint, last_checkpoint_outcome>> BY <1>1, <1>4, <1>5, WorkDone
<1>6. CASE EndCheckpoint(outcome) \/ ReturnCheckpoint \/ MarkCheckpoint
  <2>1. UNCHANGED <<pc, call, stage, attempts>> BY <1>1 DEF owner
  <2>2. UNCHANGED <<Prelude, RoundsLeft>>
    BY <2>1 DEF Prelude, RoundsLeft, Passing, Flushing
  <2>3. UNCHANGED <<Half, Place>> /\ Awaiting' = Awaiting
    BY <2>1 DEF Half, Place, Awaiting, Passing, Flushing
  <2>4. CASE ~Awaiting
    <3>1. UNCHANGED Answers BY <2>3, <2>4 DEF Answers
    <3>2. QED BY <1>4, <2>2, <2>3, <3>1 DEF Shorter
  <2>5. CASE Awaiting
    <3>1. checkpoint.state = "WriteInFlight"
      BY <1>6 DEF EndCheckpoint, ReturnCheckpoint, MarkCheckpoint, CheckpointMatches
    <3>2. /\ last_checkpoint_outcome = "none" /\ checkpoint.explicit
          /\ checkpoint.retry < CheckpointLimit
      BY <2>5, <3>1 DEF AwaitOK, IInv, CheckpointOK
    <3>3. /\ CheckpointLimit \in Nat /\ checkpoint.retry \in Nat
          /\ checkpoint \in [state : {"None", "Pending", "WriteInFlight", "Indeterminate"},
                             saves : [Keys -> Revisions], retry : Nat, explicit : BOOLEAN]
      BY JournalAssumption DEF CheckpointLimit, JournalAssumption, IInv, Types, CheckpointTypes
    <3>4. Tries = CheckpointLimit - checkpoint.retry + 1 /\ Expects
      BY <1>1, <3>1, <3>2 DEF Tries, Expects
    <3>5. Answers = 2 * Tries + 0 BY <2>5, <3>4 DEF Answers
    <3>6. Answers' = 2 * Tries' + (IF Expects' THEN 0 ELSE 1) BY <2>3, <2>5 DEF Answers
    <3>7. Tries \in Nat \ {0} BY <3>2, <3>3, <3>4
    <3>8. Tries' = 0 \/ Tries' = Tries - 1
      <4>1. CASE EndCheckpoint(outcome)
        <5>1. last_checkpoint_outcome' # "none" BY <3>2, <4>1 DEF EndCheckpoint
        <5>2. QED BY <5>1 DEF Tries
      <4>2. CASE ReturnCheckpoint
        <5>1. checkpoint' = [checkpoint EXCEPT !.state = "Pending", !.retry = @ + 1]
              /\ last_checkpoint_outcome' = "none"
          BY <3>2, <4>2 DEF ReturnCheckpoint
        <5>2. /\ checkpoint'.state = "Pending" /\ checkpoint'.retry = checkpoint.retry + 1
              /\ checkpoint'.explicit = checkpoint.explicit
          BY <3>3, <5>1
        <5>3. QED BY <3>3, <3>4, <5>1, <5>2 DEF Tries, CheckpointLimit
      <4>3. CASE MarkCheckpoint
        <5>1. checkpoint'.state = "Indeterminate" BY <3>3, <4>3 DEF MarkCheckpoint
        <5>2. QED BY <5>1 DEF Tries
      <4>4. QED BY <1>6, <4>1, <4>2, <4>3
    <3>9. Answers' < Answers
      <4> DEFINE a == Tries  b == Tries'  z == IF Expects' THEN 0 ELSE 1
      <4>1. Answers = 2 * a + 0 /\ Answers' = 2 * b + z BY <3>5, <3>6
      <4>2. a \in Nat \ {0} /\ z \in {0, 1} BY <3>7
      <4>3. b = 0 \/ b = a - 1 BY <3>8
      <4> HIDE DEF a, b, z
      <4>4. QED BY <4>1, <4>2, <4>3
    <3>10. QED BY <2>2, <2>3, <3>9 DEF Shorter
  <2>6. QED BY <2>4, <2>5
<1>7. QED BY <1>5, <1>6

-----------------------------------------------------------------------------
(* The steps of a call *)

\* A step of a flush that goes on behind its capture, in the same round and
\* half, with as many answers to wait for.
LEMMA PlaceShortens ==
    ASSUME Prelude = 0, Prelude' = 0, attempts' = attempts, Half' = Half, Answers' = Answers,
           Place' < Place
    PROVE  Shorter
BY DEF Shorter, RoundsLeft

LEMMA EndPassShortens ==
    ASSUME IInv, EndPass
    PROVE  Shorter
<1>1. /\ pc = "drain" /\ inbox = <<>>
      /\ pc' = IF call = "process" THEN "plan" ELSE "dispatch"
      /\ UNCHANGED <<call, stage, attempts, checkpoint, last_checkpoint_outcome>>
  BY DEF EndPass, Leaves
<1>2. CASE ~Flushing
  <2>1. Prelude = 3 BY <1>1, <1>2 DEF Prelude
  <2>2. Prelude' \in {1, 2} BY <1>1, <1>2 DEF Prelude, Flushing
  <2>3. QED BY <2>1, <2>2 DEF Shorter
<1>3. CASE Flushing
  <2>1. pc' = "dispatch" /\ Flushing' /\ Passing(stage) /\ Passing(stage)'
    BY <1>1, <1>3 DEF Flushing, Passing
  <2>2. CASE stage = "capture"
    <3>1. Prelude = 4 /\ Prelude' = 3 BY <1>1, <1>3, <2>1, <2>2 DEF Prelude
    <3>2. QED BY <3>1 DEF Shorter
  <2>3. CASE stage # "capture"
    <3>1. Prelude = 0 /\ Prelude' = 0 BY <1>1, <1>3, <2>1, <2>3 DEF Prelude, Passing
    <3>2. Awaiting' = Awaiting BY <1>1, <1>3, <2>1 DEF Awaiting, Passing
    <3>3. Half' = Half BY <1>1, <2>1, <3>2 DEF Half
    <3>4. checkpoint.state # "WriteInFlight"
      <4>1. AttemptsInFlight = {} BY <1>1, <1>3, NothingInFlight DEF IInv, OwnerOK
      <4>2. QED BY <4>1 DEF AttemptsInFlight, FlushTask
    <3>5. Answers' = Answers
      <4>1. Tries' = Tries BY <1>1 DEF Tries, CheckpointLimit
      <4>2. ~Expects /\ ~Expects' BY <1>1, <3>4 DEF Expects
      <4>3. QED BY <3>2, <4>1, <4>2 DEF Answers
    <3>6. Place = 2 /\ Place' = 1 BY <1>1, <2>1 DEF Place
    <3>7. QED BY <1>1, <3>1, <3>3, <3>5, <3>6, PlaceShortens
  <2>4. QED BY <2>2, <2>3
<1>4. QED BY <1>2, <1>3

LEMMA WaitShortens ==
    ASSUME IInv, Wait
    PROVE  Shorter
<1>1. /\ pc = "wait" /\ pc' = "drain" /\ Flushing
      /\ UNCHANGED <<call, stage, attempts, checkpoint, last_checkpoint_outcome>>
  BY DEF Wait, Leaves, IInv, OwnerOK
<1>2. Flushing' /\ Passing(stage) /\ Passing(stage)' BY <1>1 DEF Flushing, Passing
<1>3. CASE stage = "capture"
  <2>1. Prelude = 5 /\ Prelude' = 4 BY <1>1, <1>2, <1>3 DEF Prelude
  <2>2. QED BY <2>1 DEF Shorter
<1>4. CASE stage # "capture"
  <2>1. Prelude = 0 /\ Prelude' = 0 BY <1>1, <1>2, <1>4 DEF Prelude, Passing
  <2>2. Awaiting' = Awaiting BY <1>1, <1>2 DEF Awaiting, Passing
  <2>3. Half' = Half BY <1>1, <2>2 DEF Half
  <2>4. Answers' = Answers
    <3>1. Tries' = Tries BY <1>1 DEF Tries, CheckpointLimit
    <3>2. Expects' = Expects BY <1>1 DEF Expects
    <3>3. QED BY <2>2, <3>1, <3>2 DEF Answers
  <2>5. Place = 3 /\ Place' = 2 BY <1>1 DEF Place
  <2>6. QED BY <1>1, <2>1, <2>3, <2>4, <2>5, PlaceShortens
<1>5. QED BY <1>3, <1>4

\* A checkpoint that is dispatched is tried no more and no less often.
LEMMA DispatchTries ==
    ASSUME IInv, UNCHANGED last_checkpoint_outcome,
           UNCHANGED checkpoint \/ DispatchCheckpoint
    PROVE  /\ Tries' = Tries /\ checkpoint'.explicit = checkpoint.explicit
           /\ (checkpoint'.state = "None") <=> (checkpoint.state = "None")
<1>1. CASE UNCHANGED checkpoint BY <1>1 DEF Tries, CheckpointLimit
<1>2. CASE DispatchCheckpoint /\ CheckpointDispatchable
  <2>1. /\ checkpoint.state = "Pending"
        /\ checkpoint' = [checkpoint EXCEPT !.state = "WriteInFlight"]
    BY <1>2 DEF DispatchCheckpoint, CheckpointDispatchable
  <2>2. checkpoint \in [state : {"None", "Pending", "WriteInFlight", "Indeterminate"},
                        saves : [Keys -> Revisions], retry : Nat, explicit : BOOLEAN]
    BY DEF IInv, Types, CheckpointTypes
  <2>3. /\ checkpoint'.state = "WriteInFlight" /\ checkpoint'.retry = checkpoint.retry
        /\ checkpoint'.explicit = checkpoint.explicit
    BY <2>1, <2>2
  <2>4. QED BY <2>1, <2>3 DEF Tries, CheckpointLimit
<1>3. CASE DispatchCheckpoint /\ ~CheckpointDispatchable
  <2>1. UNCHANGED checkpoint BY <1>3 DEF DispatchCheckpoint
  <2>2. QED BY <2>1 DEF Tries, CheckpointLimit
<1>4. QED BY <1>1, <1>2, <1>3

LEMMA EndDrainShortens ==
    ASSUME IInv, EndDrain
    PROVE  pc' = "idle" \/ Shorter
<1>1. /\ pc = "dispatch" /\ UNCHANGED <<call, stage, attempts, last_checkpoint_outcome>>
      /\ pc' = CASE call = "process" -> "checkpoint" [] call = "drain" -> "idle" [] OTHER -> stage
  BY DEF EndDrain, Leaves
<1>2. UNCHANGED checkpoint \/ DispatchCheckpoint BY DEF EndDrain
<1>3. call \in {"process", "drain", "flush", "shutdown"}
  BY <1>1 DEF IInv, Types, OwnerTypes, OwnerOK
<1>4. CASE ~Flushing
  <2>1. Prelude = 1 BY <1>1, <1>4 DEF Prelude
  <2>2. call = "process" \/ call = "drain" BY <1>3, <1>4 DEF Flushing
  <2>3. pc' = "checkpoint" \/ pc' = "idle" BY <1>1, <2>2
  <2>4. ~Flushing' BY <1>1, <1>4 DEF Flushing
  <2>5. Prelude' = 0 BY <2>3, <2>4 DEF Prelude
  <2>6. QED BY <2>1, <2>5 DEF Shorter
<1>5. CASE Flushing
  <2>1. pc' = stage /\ Flushing' /\ Passing(stage) BY <1>1, <1>5 DEF Flushing, Passing
  <2>2. stage \in {"capture", "judge", "await"} BY DEF IInv, Types, OwnerTypes
  <2>3. CASE stage = "capture"
    <3>1. Prelude = 3 BY <1>1, <1>5, <2>1, <2>3 DEF Prelude
    <3>2. Prelude' = 2 BY <2>1, <2>3 DEF Prelude, Passing
    <3>3. QED BY <3>1, <3>2 DEF Shorter
  <2>4. CASE stage # "capture"
    <3>1. pc' = "judge" \/ pc' = "await" BY <2>1, <2>2, <2>4
    <3>2. Prelude = 0 /\ Prelude' = 0 BY <1>1, <1>5, <2>1, <2>4, <3>1 DEF Prelude, Passing
    <3>3. Awaiting' = Awaiting BY <1>1, <1>5, <2>1, <2>2, <2>4, <3>1 DEF Awaiting, Passing
    <3>4. Half' = Half BY <1>1, <3>1, <3>3 DEF Half
    <3>5. Answers' = Answers
      <4>1. Tries' = Tries BY <1>1, <1>2, DispatchTries
      <4>2. ~Expects /\ ~Expects' BY <1>1, <3>1 DEF Expects
      <4>3. QED BY <3>3, <4>1, <4>2 DEF Answers
    <3>6. Place = 1 /\ Place' = 0 BY <1>1, <3>1 DEF Place
    <3>7. QED BY <1>1, <3>2, <3>4, <3>5, <3>6, PlaceShortens
  <2>5. QED BY <2>3, <2>4
<1>6. QED BY <1>4, <1>5

LEMMA PlanShortens ==
    ASSUME IInv, NEW K \in SUBSET Keys, Plan(K)
    PROVE  Shorter
<1>1. pc = "plan" /\ pc' = "dispatch" /\ call = "process" /\ call' = call
  BY DEF Plan, Leaves, IInv, OwnerOK
<1>2. Prelude = 2 /\ Prelude' = 1 BY <1>1 DEF Prelude, Flushing
<1>3. QED BY <1>2 DEF Shorter

LEMMA CaptureShortens ==
    ASSUME IInv, Capture
    PROVE  Shorter
<1>1. pc = "capture" /\ pc' = "start" /\ Flushing /\ Flushing'
  BY DEF Capture, IInv, OwnerOK, Flushing
<1>2. Prelude = 2 /\ Prelude' = 1 BY <1>1 DEF Prelude, Passing
<1>3. QED BY <1>2 DEF Shorter

LEMMA StartFlushShortens ==
    ASSUME IInv, StartFlush
    PROVE  pc' = "idle" \/ Shorter
<1>1. pc = "start" /\ pc' \in {"idle", "attempt"} /\ Flushing /\ Flushing'
  BY DEF StartFlush, Return, IInv, OwnerOK, Flushing
<1>2. Prelude = 1 /\ Prelude' = 0 BY <1>1 DEF Prelude, Passing
<1>3. QED BY <1>2 DEF Shorter

LEMMA AttemptShortens ==
    ASSUME IInv, Attempt
    PROVE  Shorter
<1>1. /\ pc = "attempt" /\ pc' = "wait" /\ stage' = "judge" /\ attempts' = attempts
      /\ Flushing /\ Flushing'
  BY DEF Attempt, ThenWait, IInv, OwnerOK, Flushing
<1>2. Prelude = 0 /\ Prelude' = 0 BY <1>1 DEF Prelude, Passing
<1>3. ~Awaiting /\ ~Awaiting' BY <1>1 DEF Awaiting, Passing
<1>4. Half' = Half BY <1>1, <1>3 DEF Half
<1>5. Answers' = Answers BY <1>3 DEF Answers
<1>6. Place = 4 /\ Place' = 3 BY <1>1 DEF Place
<1>7. QED BY <1>1, <1>2, <1>4, <1>5, <1>6, PlaceShortens

\* A round that begins is one fewer that is left.
LEMMA RoundShortens ==
    ASSUME IInv, NextRound, Flushing, pc = "judge" \/ pc = "await"
    PROVE  Shorter
<1>1. pc' = "attempt" /\ attempts' = attempts + 1 /\ Flushing'
  BY DEF NextRound, Flushing
<1>2. Prelude = 0 /\ Prelude' = 0 BY <1>1 DEF Prelude, Passing
<1>3. MaxExplicitAttempts \in Nat /\ attempts \in Nat
  BY JournalAssumption DEF JournalAssumption, IInv, Types, OwnerTypes
<1>4. RoundsLeft' < RoundsLeft BY <1>1, <1>3 DEF RoundsLeft
<1>5. QED BY <1>2, <1>4 DEF Shorter

\* So is the first half of a round, or all of it, that ends.
LEMMA HalfShortens ==
    ASSUME Prelude = 0, Prelude' = 0, attempts' = attempts, Half' < Half
    PROVE  Shorter
BY DEF Shorter, RoundsLeft

LEMMA JudgeShortens ==
    ASSUME IInv, Judge
    PROVE  Shorter
<1>1. pc = "judge" /\ Flushing BY DEF Judge, IInv, OwnerOK
<1>2. CASE NextRound BY <1>1, <1>2, RoundShortens
<1>3. CASE Leaves("begin")
  <2>1. pc' = "begin" /\ attempts' = attempts /\ Flushing' BY <1>1, <1>3 DEF Leaves, Flushing
  <2>2. Prelude = 0 /\ Prelude' = 0 BY <1>1, <2>1 DEF Prelude, Passing
  <2>3. Half = 3 /\ Half' = 2 BY <1>1, <2>1 DEF Half, Awaiting, Passing
  <2>4. QED BY <2>1, <2>2, <2>3, HalfShortens
<1>4. QED BY <1>2, <1>3 DEF Judge

LEMMA LastRoundShortens ==
    ASSUME IInv, LastRound
    PROVE  Shorter
<1>1. pc = "attempt" /\ Flushing BY DEF LastRound, IInv, OwnerOK
<1>2. (pc' = "begin" \/ pc' = "finish") /\ attempts' = attempts /\ Flushing'
  BY <1>1 DEF LastRound, Leaves, Flushing
<1>3. Prelude = 0 /\ Prelude' = 0 BY <1>1, <1>2 DEF Prelude, Passing
<1>4. Half = 3 /\ Half' \in {0, 2} BY <1>1, <1>2 DEF Half, Awaiting, Passing
<1>5. QED BY <1>2, <1>3, <1>4, HalfShortens

LEMMA BeginFlushCheckpointShortens ==
    ASSUME IInv, BeginFlushCheckpoint
    PROVE  Shorter
<1>1. pc = "begin" /\ pc' = "await" /\ attempts' = attempts /\ Flushing /\ Flushing'
  BY DEF BeginFlushCheckpoint, Leaves, IInv, OwnerOK, Flushing
<1>2. Prelude = 0 /\ Prelude' = 0 BY <1>1 DEF Prelude, Passing
<1>3. Half = 2 /\ Half' = 1 BY <1>1 DEF Half, Awaiting, Passing
<1>4. QED BY <1>1, <1>2, <1>3, HalfShortens

LEMMA AwaitOutcomeShortens ==
    ASSUME IInv, AwaitOutcome
    PROVE  pc' = "idle" \/ Shorter
<1>1. pc = "await" /\ Flushing BY DEF AwaitOutcome, IInv, OwnerOK
<1>2. pc' = "idle" \/ Leaves("finish") \/ NextRound BY DEF AwaitOutcome, Return
<1>3. CASE NextRound BY <1>1, <1>3, RoundShortens
<1>4. CASE Leaves("finish")
  <2>1. pc' = "finish" /\ attempts' = attempts /\ Flushing' BY <1>1, <1>4 DEF Leaves, Flushing
  <2>2. Prelude = 0 /\ Prelude' = 0 BY <1>1, <2>1 DEF Prelude, Passing
  <2>3. Half = 1 /\ Half' = 0 BY <1>1, <2>1 DEF Half, Awaiting, Passing
  <2>4. QED BY <2>1, <2>2, <2>3, HalfShortens
<1>5. QED BY <1>2, <1>3, <1>4

\* A checkpoint that is waited for is one that will answer.
LEMMA AwaitCheckpointShortens ==
    ASSUME IInv, AwaitCheckpoint
    PROVE  pc' = "idle" \/ Shorter
<1>1. pc = "await" /\ Flushing /\ UNCHANGED last_checkpoint_outcome
  BY DEF AwaitCheckpoint, IInv, OwnerOK
<1>2. SUFFICES ASSUME pc' # "idle" PROVE Shorter OBVIOUS
<1>3. /\ checkpoint.state = "WriteInFlight" \/ (checkpoint.state = "Pending" /\ ~RetriesSpent)
      /\ DispatchCheckpoint /\ ThenWait("await")
  BY <1>2 DEF AwaitCheckpoint, Return
<1>4. pc' = "wait" /\ stage' = "await" /\ attempts' = attempts /\ Flushing'
  BY <1>1, <1>3 DEF ThenWait, Flushing
<1>5. checkpoint'.state = "WriteInFlight"
  <2>1. checkpoint \in [state : {"None", "Pending", "WriteInFlight", "Indeterminate"},
                        saves : [Keys -> Revisions], retry : Nat, explicit : BOOLEAN]
    BY DEF IInv, Types, CheckpointTypes
  <2>2. CASE CheckpointDispatchable BY <1>3, <2>1, <2>2 DEF DispatchCheckpoint
  <2>3. CASE ~CheckpointDispatchable
    <3>1. CheckpointLimit \in Nat /\ checkpoint.retry \in Nat
      BY <2>1, JournalAssumption DEF CheckpointLimit, JournalAssumption
    <3>2. checkpoint.state = "WriteInFlight"
      BY <1>3, <2>3, <3>1 DEF CheckpointDispatchable, RetriesSpent
    <3>3. QED BY <1>3, <2>3, <3>2 DEF DispatchCheckpoint
  <2>4. QED BY <2>2, <2>3
<1>6. Prelude = 0 /\ Prelude' = 0 BY <1>1, <1>4 DEF Prelude, Passing
<1>7. Awaiting /\ Awaiting' BY <1>1, <1>4 DEF Awaiting, Passing
<1>8. Half' = Half BY <1>7 DEF Half
<1>9. Answers' < Answers
  <2>1. Tries' = Tries BY <1>1, <1>3, DispatchTries
  <2>2. ~Expects /\ Expects' BY <1>1, <1>4, <1>5 DEF Expects
  <2>3. Answers = 2 * Tries + 1 /\ Answers' = 2 * Tries + 0 BY <1>7, <2>1, <2>2 DEF Answers
  <2>4. Tries \in Nat BY LeftIs
  <2>5. QED BY <2>3, <2>4
<1>10. UNCHANGED <<Prelude, RoundsLeft, Half>> BY <1>4, <1>6, <1>8 DEF RoundsLeft
<1>11. QED BY <1>9, <1>10 DEF Shorter

-----------------------------------------------------------------------------
(* What an awaiting flush waits for *)

\* A step that leaves the checkpoint and its outcome, and begins no waiting.
LEMMA AwaitQuiet ==
    ASSUME AwaitOK, UNCHANGED last_checkpoint_outcome,
           (checkpoint'.state = "None") <=> (checkpoint.state = "None"),
           checkpoint.explicit => checkpoint'.explicit,
           Awaiting' => Awaiting
    PROVE  AwaitOK'
BY DEF AwaitOK

LEMMA AwaitKept ==
    ASSUME AwaitOK, UNCHANGED <<checkpoint, last_checkpoint_outcome>>,
           UNCHANGED <<pc, call, stage>> \/ ~Awaiting'
    PROVE  AwaitOK'
<1>1. Awaiting' => Awaiting BY DEF Awaiting, Passing, Flushing
<1>2. QED BY <1>1, AwaitQuiet

LEMMA EndCheckpointAwaits ==
    ASSUME IInv, AwaitOK, NEW outcome, EndCheckpoint(outcome)
    PROVE  AwaitOK'
<1>1. /\ pc = "drain" /\ UNCHANGED <<pc, call, stage>> /\ outcome \in {"ok", "err"}
      /\ checkpoint.state = "WriteInFlight" /\ checkpoint' = NoCheckpoint
      /\ last_checkpoint_outcome' = IF checkpoint.explicit THEN outcome ELSE last_checkpoint_outcome
  BY DEF EndCheckpoint, Applies, CheckpointMatches, owner
<1>2. checkpoint'.state = "None" BY <1>1 DEF NoCheckpoint
<1>3. Awaiting' = Awaiting BY <1>1 DEF Awaiting, Passing, Flushing
<1>4. Awaiting => last_checkpoint_outcome' # "none" BY <1>1 DEF AwaitOK
<1>5. QED BY <1>2, <1>3, <1>4 DEF AwaitOK

LEMMA TriedAgainAwaits ==
    ASSUME IInv, AwaitOK, ReturnCheckpoint \/ MarkCheckpoint
    PROVE  AwaitOK'
<1>1. /\ UNCHANGED <<pc, call, stage, last_checkpoint_outcome>>
      /\ checkpoint.state = "WriteInFlight"
      /\ \/ checkpoint' = [checkpoint EXCEPT !.state = "Pending", !.retry = @ + 1]
         \/ checkpoint' = [checkpoint EXCEPT !.state = "Indeterminate"]
  BY DEF ReturnCheckpoint, MarkCheckpoint, Applies, CheckpointMatches, owner
<1>2. checkpoint \in [state : {"None", "Pending", "WriteInFlight", "Indeterminate"},
                      saves : [Keys -> Revisions], retry : Nat, explicit : BOOLEAN]
  BY DEF IInv, Types, CheckpointTypes
<1>3. checkpoint'.state # "None" /\ checkpoint'.explicit = checkpoint.explicit
  BY <1>1, <1>2
<1>4. Awaiting' => Awaiting BY <1>1 DEF Awaiting, Passing, Flushing
<1>5. QED BY <1>1, <1>3, <1>4, AwaitQuiet

LEMMA EndDrainAwaits ==
    ASSUME IInv, AwaitOK, EndDrain
    PROVE  AwaitOK'
<1>1. /\ pc = "dispatch" /\ UNCHANGED <<call, stage, last_checkpoint_outcome>>
      /\ pc' = CASE call = "process" -> "checkpoint" [] call = "drain" -> "idle" [] OTHER -> stage
  BY DEF EndDrain, Leaves
<1>2. UNCHANGED checkpoint \/ DispatchCheckpoint BY DEF EndDrain
<1>3. /\ checkpoint'.explicit = checkpoint.explicit
      /\ (checkpoint'.state = "None") <=> (checkpoint.state = "None")
  BY <1>1, <1>2, DispatchTries
<1>4. Awaiting' => Awaiting
  <2>1. call \in {"process", "drain", "flush", "shutdown"}
    BY <1>1 DEF IInv, Types, OwnerTypes, OwnerOK
  <2>2. CASE ~Flushing
    <3>1. call = "process" \/ call = "drain" BY <2>1, <2>2 DEF Flushing
    <3>2. pc' = "checkpoint" \/ pc' = "idle" BY <1>1, <3>1
    <3>3. ~Awaiting' BY <3>2 DEF Awaiting, Passing
    <3>4. QED BY <3>3
  <2>3. CASE Flushing
    <3>1. pc' = stage BY <1>1, <2>3 DEF Flushing
    <3>2. stage \in {"capture", "judge", "await"} BY DEF IInv, Types, OwnerTypes
    <3>3. QED BY <1>1, <2>3, <3>1, <3>2 DEF Awaiting, Passing
  <2>4. QED BY <2>2, <2>3
<1>5. QED BY <1>1, <1>3, <1>4, AwaitQuiet

LEMMA CheckpointIfNeededAwaits ==
    ASSUME IInv, AwaitOK, CheckpointIfNeeded
    PROVE  AwaitOK'
<1>1. pc' = "idle" BY DEF CheckpointIfNeeded, Leaves
<1>2. ~Awaiting' BY <1>1 DEF Awaiting, Passing
<1>3. CASE BeginCheckpoint(FALSE)
  <2>1. last_checkpoint_outcome' = "none" BY <1>3 DEF BeginCheckpoint
  <2>2. QED BY <1>2, <2>1 DEF AwaitOK
<1>4. CASE UNCHANGED <<checkpoint, last_checkpoint_outcome>> BY <1>2, <1>4, AwaitKept
<1>5. QED BY <1>3, <1>4 DEF CheckpointIfNeeded

LEMMA BeginFlushCheckpointAwaits ==
    ASSUME IInv, AwaitOK, BeginFlushCheckpoint
    PROVE  AwaitOK'
<1>1. CASE checkpoint = NoCheckpoint
  <2>1. BeginCheckpoint(TRUE) BY <1>1 DEF BeginFlushCheckpoint
  <2>2. /\ checkpoint'.state = "WriteInFlight" /\ checkpoint'.explicit = TRUE
        /\ last_checkpoint_outcome' = "none"
    BY <2>1 DEF BeginCheckpoint
  <2>3. QED BY <2>2 DEF AwaitOK
<1>2. CASE checkpoint # NoCheckpoint
  <2>1. /\ UNCHANGED last_checkpoint_outcome
        /\ checkpoint' = [checkpoint EXCEPT
                !.retry = IF checkpoint.state = "Pending" THEN 0 ELSE @, !.explicit = TRUE]
    BY <1>2 DEF BeginFlushCheckpoint
  <2>2. checkpoint \in [state : {"None", "Pending", "WriteInFlight", "Indeterminate"},
                        saves : [Keys -> Revisions], retry : Nat, explicit : BOOLEAN]
    BY DEF IInv, Types, CheckpointTypes
  <2>3. checkpoint'.state = checkpoint.state /\ checkpoint'.explicit = TRUE BY <2>1, <2>2
  <2>4. checkpoint.state # "None" BY <1>2 DEF IInv, CheckpointOK
  <2>5. QED BY <2>1, <2>3, <2>4 DEF AwaitOK
<1>3. QED BY <1>1, <1>2

LEMMA AwaitCheckpointAwaits ==
    ASSUME IInv, AwaitOK, AwaitCheckpoint
    PROVE  AwaitOK'
<1>1. pc = "await" /\ UNCHANGED last_checkpoint_outcome BY DEF AwaitCheckpoint
<1>2. UNCHANGED checkpoint \/ DispatchCheckpoint BY DEF AwaitCheckpoint
<1>3. /\ checkpoint'.explicit = checkpoint.explicit
      /\ (checkpoint'.state = "None") <=> (checkpoint.state = "None")
  BY <1>1, <1>2, DispatchTries
<1>4. Awaiting BY <1>1 DEF Awaiting
<1>5. QED BY <1>1, <1>3, <1>4, AwaitQuiet

\* What is resolved is resolved between the calls.
LEMMA ResolveAwaits ==
    ASSUME IInv, AwaitOK, Resolve
    PROVE  AwaitOK'
<1>1. pc = "idle" /\ pc' \in {"idle", "checkpoint"}
  BY DEF Resolve, RetrySave, AcceptSave, RetryCheckpoint, AcceptCheckpoint, MayResolve, owner
<1>2. ~Awaiting' BY <1>1 DEF Awaiting, Passing
<1>3. CASE \E k \in Keys : RetrySave(k) \/ AcceptSave(k)
  <2>1. UNCHANGED <<checkpoint, last_checkpoint_outcome>> BY <1>3 DEF RetrySave, AcceptSave
  <2>2. QED BY <1>2, <2>1, AwaitKept
<1>4. CASE RetryCheckpoint
  <2>1. checkpoint.state = "Indeterminate" /\ UNCHANGED last_checkpoint_outcome
    BY <1>4 DEF RetryCheckpoint
  <2>2. QED BY <1>2, <2>1 DEF AwaitOK
<1>5. CASE AcceptCheckpoint
  <2>1. checkpoint'.state = "None" BY <1>5 DEF AcceptCheckpoint, NoCheckpoint
  <2>2. QED BY <1>2, <2>1 DEF AwaitOK
<1>6. QED BY <1>3, <1>4, <1>5 DEF Resolve

LEMMA ApplyAwaits ==
    ASSUME IInv, AwaitOK, ApplyCompletion
    PROVE  AwaitOK'
<1>1. CASE \E k \in Keys : AcknowledgeSave(k) \/ ReturnSave(k) \/ MarkSave(k) \/ ApplyLoad(k)
  <2>1. UNCHANGED <<pc, call, stage, checkpoint, last_checkpoint_outcome>>
    BY <1>1 DEF AcknowledgeSave, ReturnSave, MarkSave, ApplyLoad, Applies, owner
  <2>2. QED BY <2>1, AwaitKept
<1>2. QED BY <1>1, EndCheckpointAwaits, TriedAgainAwaits DEF ApplyCompletion

LEMMA NextAwaits ==
    ASSUME IInv, IInv', AwaitOK, [Next]_vars
    PROVE  AwaitOK'
<1>1. ASSUME NEW k \in Keys, Edit(k) \/ RunLoad(k) PROVE AwaitOK'
  <2>1. UNCHANGED <<pc, call, stage, checkpoint, last_checkpoint_outcome>>
    BY <1>1 DEF Edit, RunLoad, owner
  <2>2. QED BY <2>1, AwaitKept
<1>2. ASSUME NEW c \in Calls, Call(c) \/ BeginFlush(c) PROVE AwaitOK'
  <2>1. UNCHANGED <<checkpoint, last_checkpoint_outcome>> BY <1>2 DEF Call, BeginFlush
  <2>2. ~Awaiting' BY <1>2 DEF Call, BeginFlush, Awaiting, Passing, Flushing
  <2>3. QED BY <2>1, <2>2, AwaitKept
<1>3. CASE EndPass \/ Wait
  <2>1. /\ UNCHANGED <<call, stage, checkpoint, last_checkpoint_outcome>>
        /\ pc \in {"wait", "drain"} /\ pc' \in {"drain", "plan", "dispatch"}
    BY <1>3 DEF EndPass, Wait, Leaves
  <2>2. Awaiting' => Awaiting BY <2>1 DEF Awaiting, Passing, Flushing
  <2>3. QED BY <2>1, <2>2, AwaitQuiet
<1>4. CASE \/ \E K \in SUBSET Keys : Plan(K)
           \/ Capture \/ StartFlush \/ Attempt \/ Judge \/ LastRound \/ Finish
  <2>1. UNCHANGED <<checkpoint, last_checkpoint_outcome>>
    BY <1>4 DEF Plan, Capture, StartFlush, Attempt, Judge, LastRound, Finish
  <2>2. \/ pc' \in {"start", "idle", "attempt", "begin", "finish"}
        \/ pc' = "wait" /\ stage' = "judge"
        \/ pc' = "dispatch" /\ ~Flushing'
    <3>1. ASSUME NEW K \in SUBSET Keys, Plan(K) PROVE pc' = "dispatch" /\ ~Flushing'
      BY <3>1 DEF Plan, Leaves, IInv, OwnerOK, Flushing
    <3>2. QED
      BY <1>4, <3>1 DEF Capture, StartFlush, Attempt, Judge, LastRound, Finish, Return, Leaves,
         NextRound, ThenWait
  <2>3. ~Awaiting' BY <2>2 DEF Awaiting, Passing
  <2>4. QED BY <2>1, <2>3, AwaitKept
<1>5. CASE AwaitOutcome
  <2>1. last_checkpoint_outcome' = "none" /\ pc' \in {"idle", "finish", "attempt"}
    BY <1>5 DEF AwaitOutcome, Return, Leaves, NextRound
  <2>2. ~Awaiting' BY <2>1 DEF Awaiting, Passing
  <2>3. QED BY <2>1, <2>2 DEF AwaitOK
<1>6. CASE RunPersistence
  <2>1. UNCHANGED <<pc, call, stage, checkpoint, last_checkpoint_outcome>>
    BY <1>6 DEF RunPersistence, RunSave, RunFlush, Complete, owner
  <2>2. QED BY <2>1, AwaitKept
<1>7. CASE UNCHANGED vars
  <2>1. UNCHANGED <<pc, call, stage, checkpoint, last_checkpoint_outcome>>
    BY <1>7 DEF vars, owner
  <2>2. QED BY <2>1, AwaitKept
<1>8. CASE Proceed
  BY <1>3, <1>4, <1>5, <1>8, ApplyAwaits, EndDrainAwaits, CheckpointIfNeededAwaits,
     BeginFlushCheckpointAwaits, AwaitCheckpointAwaits
  DEF Proceed
<1>9. QED BY <1>1, <1>2, <1>6, <1>7, <1>8, ResolveAwaits DEF Next

-----------------------------------------------------------------------------
(* Every call is finite *)

LEMMA ApplyShortens ==
    ASSUME IInv, AwaitOK, ApplyCompletion
    PROVE  Shorter
<1>1. ASSUME NEW k \in Keys, AcknowledgeSave(k) \/ ReturnSave(k) \/ MarkSave(k)
      PROVE  Shorter
  <2>1. UNCHANGED <<checkpoint, last_checkpoint_outcome>>
    BY <1>1 DEF AcknowledgeSave, ReturnSave, MarkSave
  <2>2. Applies("ok") \/ Applies("err") \/ Applies("before") \/ Applies("entered")
    BY <1>1 DEF AcknowledgeSave, ReturnSave, MarkSave
  <2>3. QED BY <2>1, <2>2, AnswerShortens
<1>2. ASSUME NEW outcome, EndCheckpoint(outcome) PROVE Shorter
  <2>1. Applies(outcome) BY <1>2 DEF EndCheckpoint
  <2>2. QED BY <1>2, <2>1, AnswerShortens
<1>3. CASE ReturnCheckpoint \/ MarkCheckpoint
  <2>1. Applies("before") \/ Applies("entered") BY <1>3 DEF ReturnCheckpoint, MarkCheckpoint
  <2>2. QED BY <1>3, <2>1, AnswerShortens
<1>4. QED BY <1>1, <1>2, <1>3, LoadShortens DEF ApplyCompletion

LEMMA NextShortens ==
    ASSUME IInv, AwaitOK, Next, pc # "idle"
    PROVE  pc' = "idle" \/ Shorter
<1>1. ASSUME NEW k \in Keys, Edit(k) \/ RunLoad(k) PROVE Shorter
  BY <1>1, LoadShortens DEF Edit
<1>2. ASSUME NEW c \in Calls, Call(c) \/ BeginFlush(c) PROVE FALSE
  BY <1>2 DEF Call, BeginFlush
<1>3. CASE Resolve
  <2>1. FALSE
    BY <1>3 DEF Resolve, RetrySave, AcceptSave, RetryCheckpoint, AcceptCheckpoint, MayResolve
  <2>2. QED BY <2>1
<1>4. CASE RunPersistence
  <2>1. PICK task \in tasks, outcome \in Outcomes : Complete(task, outcome)
    BY <1>4 DEF RunPersistence, RunSave, RunFlush
  <2>2. QED BY <2>1, TaskShortens
<1>5. CASE CheckpointIfNeeded \/ Finish
  BY <1>5 DEF CheckpointIfNeeded, Finish, Leaves, Return
<1>6. CASE Proceed
  BY <1>5, <1>6, ApplyShortens, EndPassShortens, EndDrainShortens, PlanShortens, WaitShortens,
     CaptureShortens, StartFlushShortens, AttemptShortens, JudgeShortens, LastRoundShortens,
     BeginFlushCheckpointShortens, AwaitOutcomeShortens, AwaitCheckpointShortens
  DEF Proceed
<1>7. QED BY <1>1, <1>2, <1>3, <1>4, <1>6 DEF Next

\* Whoever drains finds an attempt for every completion, and whoever awaits a
\* checkpoint finds its outcome or the checkpoint.
CallGoesOn ==
    /\ pc = "drain" /\ inbox # <<>> =>
          CheckpointMatches \/ \E k \in Keys : Matching(k) /\ written[k] = 0
    /\ pc = "await" => last_checkpoint_outcome # "none" \/ checkpoint.state # "None"

LEMMA GoesOn ==
    ASSUME IInv, AwaitOK
    PROVE  CallGoesOn
<1>1. ASSUME inbox # <<>>
      PROVE  CheckpointMatches \/ \E k \in Keys : Matching(k) /\ written[k] = 0
  <2> DEFINE t == Head(inbox).task
  <2>1. t \in Answered(inbox) BY <1>1, AnswerApplied DEF IInv, Types, RunnerTypes, TravelOK
  <2>2. t \in AttemptsInFlight BY <2>1 DEF IInv, TravelOK
  <2>3. CASE t = FlushTask /\ checkpoint.state = "WriteInFlight"
    BY <2>3 DEF CheckpointMatches, FlushTask
  <2>4. ASSUME NEW k \in Keys, InFlight(k), t = SaveTask(k)
        PROVE  Matching(k) /\ written[k] = 0
    <3>1. Matching(k) BY <2>4 DEF Matching, SaveTask
    <3>2. written[k] = 0 BY <2>4 DEF IInv, Entries, LineOK, EntryOK, InFlight
    <3>3. QED BY <3>1, <3>2
  <2>5. QED BY <2>2, <2>3, <2>4 DEF AttemptsInFlight
<1>2. pc = "await" => last_checkpoint_outcome # "none" \/ checkpoint.state # "None"
  BY DEF AwaitOK, Awaiting
<1>3. QED BY <1>1, <1>2 DEF CallGoesOn

(* Every step of the owner, of a worker or of a load leaves less of the call   *)
(* that is under way, or ends it, and what is left is counted in natural       *)
(* numbers: no call takes for ever, for any faults, limits and number of       *)
(* blocks, and none meets an answer it has no use for or a checkpoint that     *)
(* went without an outcome (flush_save_journal_with_attempts and its loops).   *)
(* This is what CallsReturn asks for apart from the fairness of its steps.     *)
THEOREM CallsAreFinite ==
    Spec => [](Left /\ CallGoesOn) /\ [][pc # "idle" => pc' = "idle" \/ Shorter]_vars
<1>1. Init => AwaitOK BY DEF Init, AwaitOK, NoCheckpoint, Awaiting, Passing
<1>2. IInv /\ IInv' /\ AwaitOK /\ [Next]_vars => AwaitOK' BY NextAwaits
<1>3. IInv /\ AwaitOK => Left /\ CallGoesOn BY LeftIs, GoesOn
<1>4. IInv /\ AwaitOK /\ [Next]_vars => [pc # "idle" => pc' = "idle" \/ Shorter]_vars
  BY NextShortens
<1>5. QED BY <1>1, <1>2, <1>3, <1>4, JournalInvariant, PTL DEF Spec

-----------------------------------------------------------------------------
(* No save is forgotten *)

\* Of what has not failed, nothing is marked as failed: each completion says
\* ok, each save is tried for the first time, no checkpoint waits for a retry,
\* and what a pass defers is for that pass alone.
FirstTry(a, q) ==
    a.state # "Indeterminate" /\ a.retry = 0 /\ \A i \in 1..Len(q) : q[i].retry = 0
AllOk(s) == \A i \in 1..Len(s) : s[i].outcome = "ok"
InPass   == pc \in {"drain", "plan", "dispatch"}

Faultless ==
    /\ AllOk(completed) /\ AllOk(inbox)
    /\ \A k \in Keys : FirstTry(active[k], queued[k])
    /\ ~blocked /\ checkpoint.state \in {"None", "WriteInFlight"}
    /\ ~InPass => deferred = {}

FaultlessOK == faults = 0 => Faultless

LEMMA InitFaultless == Init => FaultlessOK
<1> SUFFICES ASSUME Init PROVE Faultless BY DEF FaultlessOK
<1>1. AllOk(completed) /\ AllOk(inbox)
  <2>1. completed = <<>> /\ inbox = <<>> BY DEF Init
  <2>2. Len(completed) = 0 /\ Len(inbox) = 0 BY <2>1
  <2>3. QED BY <2>2 DEF AllOk
<1>2. ASSUME NEW k \in Keys PROVE FirstTry(active[k], queued[k])
  <2>1. active[k] = NoAttempt /\ queued[k] = <<>> BY DEF Init
  <2>2. Len(queued[k]) = 0 BY <2>1
  <2>3. QED BY <2>1, <2>2 DEF FirstTry, NoAttempt
<1>3. QED BY <1>1, <1>2 DEF Init, Faultless, NoCheckpoint

\* The parts of it that a step leaves alone.
LEMMA SameAnswers ==
    ASSUME Faultless, UNCHANGED <<completed, inbox>>
    PROVE  AllOk(completed)' /\ AllOk(inbox)'
BY DEF Faultless

LEMMA SameSaves ==
    ASSUME Faultless, UNCHANGED <<active, queued>>
    PROVE  \A k \in Keys : FirstTry(active'[k], queued'[k])
BY DEF Faultless

LEMMA SameFlags ==
    ASSUME Faultless, UNCHANGED <<blocked, checkpoint, deferred>>, InPass => InPass'
    PROVE  ~blocked' /\ checkpoint'.state \in {"None", "WriteInFlight"} /\ (~InPass' => deferred' = {})
BY DEF Faultless

LEMMA FaultlessSame ==
    ASSUME Faultless, UNCHANGED <<completed, inbox, active, queued, blocked, checkpoint, deferred>>,
           InPass => InPass'
    PROVE  Faultless'
BY SameAnswers, SameSaves, SameFlags DEF Faultless

\* What is taken, applied or answered well is answered well.
LEMMA TakenIsOk ==
    ASSUME IInv, Faultless, TakeCompletions
    PROVE  AllOk(completed)' /\ AllOk(inbox)'
<1>1. /\ completed \in Seq(Completions) /\ inbox \in Seq(Completions)
      /\ EachOnce(completed) /\ EachOnce(inbox) /\ Answered(inbox) \cap Answered(completed) = {}
      /\ inbox' = inbox \o completed /\ completed' = <<>>
  BY DEF IInv, Types, RunnerTypes, TravelOK, TakeCompletions
<1>2. \A i \in 1..Len(inbox') : \/ \E j \in 1..Len(inbox) : inbox'[i] = inbox[j]
                                \/ \E j \in 1..Len(completed) : inbox'[i] = completed[j]
  BY <1>1, AnswersTaken
<1>3. AllOk(inbox') BY <1>2 DEF Faultless, AllOk
<1>4. Len(completed') = 0 BY <1>1
<1>5. AllOk(completed') BY <1>4 DEF AllOk
<1>6. QED BY <1>3, <1>5

LEMMA AppliedIsOk ==
    ASSUME IInv, Faultless, NEW outcome, Applies(outcome)
    PROVE  outcome = "ok" /\ AllOk(completed)' /\ AllOk(inbox)' /\ UNCHANGED <<faults, pc>>
<1>1. /\ inbox # <<>> /\ Head(inbox).outcome = outcome /\ inbox' = Tail(inbox)
      /\ UNCHANGED <<completed, faults, pc>>
  BY DEF Applies, stream, owner
<1>2. inbox \in Seq(Completions) /\ EachOnce(inbox) BY DEF IInv, Types, RunnerTypes, TravelOK
<1>3. /\ Head(inbox) = inbox[1] /\ 1 \in 1..Len(inbox)
      /\ \A i \in 1..Len(Tail(inbox)) : \E j \in 1..Len(inbox) : Tail(inbox)[i] = inbox[j]
  BY <1>1, <1>2, AnswerApplied
<1>4. outcome = "ok" BY <1>1, <1>3 DEF Faultless, AllOk
<1>5. AllOk(inbox') BY <1>1, <1>3 DEF Faultless, AllOk
<1>6. AllOk(completed') BY <1>1 DEF Faultless
<1>7. QED BY <1>1, <1>4, <1>5, <1>6

LEMMA CompletedIsOk ==
    ASSUME IInv, FaultlessOK, NEW task \in tasks, NEW outcome \in Outcomes, Complete(task, outcome)
    PROVE  FaultlessOK'
<1>1. /\ faults' = faults + IF outcome = "ok" THEN 0 ELSE 1
      /\ UNCHANGED <<inbox, active, queued, blocked, checkpoint, deferred, pc>>
  BY DEF Complete, journal, flags, deferrals, owner
<1>2. faults \in Nat BY JournalAssumption DEF IInv, Types, StreamTypes, JournalAssumption
<1>3. SUFFICES ASSUME faults' = 0 PROVE Faultless' BY DEF FaultlessOK
<1>4. outcome = "ok" /\ faults = 0 BY <1>1, <1>2, <1>3
<1>5. Faultless BY <1>4 DEF FaultlessOK
<1>6. \A i \in 1..Len(completed') :
         \/ completed'[i] = [task |-> task, outcome |-> outcome]
         \/ \E j \in 1..Len(completed) : completed'[i] = completed[j]
  BY TaskCompleted
<1>7. AllOk(completed') BY <1>4, <1>5, <1>6 DEF Faultless, AllOk
<1>8. AllOk(inbox') BY <1>1, <1>5 DEF Faultless
<1>9. InPass => InPass' BY <1>1 DEF InPass
<1>10. QED BY <1>1, <1>5, <1>7, <1>8, <1>9, SameSaves, SameFlags DEF Faultless

\* A save that enters the journal, or is sent, is tried for the first time.
LEMMA EnqueuedIsFirst ==
    ASSUME IInv, Faultless, NEW K \in SUBSET Keys, Enqueue(K)
    PROVE  \A k \in Keys : FirstTry(active'[k], queued'[k])
<1>1. ASSUME NEW k \in Keys PROVE FirstTry(active'[k], queued'[k])
  <2>1. FirstTry(active[k], queued[k]) /\ queued[k] \in Seq(Saves) /\ revision[k] \in Revisions
    BY RevisionsInRange DEF Faultless, IInv, Types, JournalTypes
  <2> DEFINE p == Pending(revision[k], 0)
  <2>2. p.state = "Pending" /\ p.retry = 0 /\ p \in Saves
    BY <2>1, PendingIsSave DEF Pending
  <2>3. /\ active'[k] = IF k \in K /\ Idle(k) THEN p ELSE active[k]
        /\ queued'[k] = IF k \in K /\ ~Idle(k) THEN Append(queued[k], p) ELSE queued[k]
    BY DEF Enqueue
  <2> HIDE DEF p
  <2>4. active'[k].state # "Indeterminate" /\ active'[k].retry = 0
    BY <2>1, <2>2, <2>3 DEF FirstTry
  <2>5. \A i \in 1..Len(queued'[k]) : queued'[k][i].retry = 0
    <3>1. CASE k \in K /\ ~Idle(k)
      <4> DEFINE t == Append(queued[k], p)
      <4>1. /\ Len(queued[k]) \in Nat /\ Len(t) = Len(queued[k]) + 1
            /\ t[Len(queued[k]) + 1] = p /\ \A i \in 1..Len(queued[k]) : t[i] = queued[k][i]
        BY <2>1, <2>2, AppendProperties, LenProperties
      <4>2. queued'[k] = t BY <2>3, <3>1
      <4> HIDE DEF t
      <4>3. \A i \in 1..Len(t) : i \in 1..Len(queued[k]) \/ i = Len(queued[k]) + 1 BY <4>1
      <4>4. QED BY <2>1, <2>2, <4>1, <4>2, <4>3 DEF FirstTry
    <3>2. CASE ~(k \in K /\ ~Idle(k)) BY <2>1, <2>3, <3>2 DEF FirstTry
    <3>3. QED BY <3>1, <3>2
  <2>6. QED BY <2>4, <2>5 DEF FirstTry
<1>2. QED BY <1>1

\* An attempt whose state moves on, at no higher retry, is as before.
LEMMA MovedIsFirst ==
    ASSUME IInv, Faultless, UNCHANGED queued,
           \A k \in Keys : /\ active'[k].state # "Indeterminate" \/ active'[k] = active[k]
                           /\ active'[k].retry \in {0, active[k].retry}
    PROVE  \A k \in Keys : FirstTry(active'[k], queued'[k])
BY DEF Faultless, FirstTry

LEMMA SentIsFirst ==
    ASSUME IInv, Faultless, NEW K \in SUBSET Keys, Dispatch(K), UNCHANGED queued
    PROVE  \A k \in Keys : FirstTry(active'[k], queued'[k])
<1>1. ASSUME NEW k \in Keys
      PROVE  /\ active'[k].state # "Indeterminate" \/ active'[k] = active[k]
             /\ active'[k].retry \in {0, active[k].retry}
  <2>1. active[k] \in Saves BY DEF IInv, Types, JournalTypes
  <2>2. active'[k] = IF k \in K THEN [active[k] EXCEPT !.state = "WriteInFlight"] ELSE active[k]
    BY DEF Dispatch
  <2>3. QED BY <2>1, <2>2 DEF Saves
<1>2. QED BY <1>1, MovedIsFirst

\* No checkpoint waits to be dispatched.
LEMMA NothingToDispatch ==
    ASSUME IInv, Faultless, DispatchCheckpoint
    PROVE  UNCHANGED <<checkpoint, tasks>>
BY DEF Faultless, DispatchCheckpoint, CheckpointDispatchable

LEMMA AcknowledgeSaveFaultless ==
    ASSUME IInv, Faultless, NEW k \in Keys, AcknowledgeSave(k)
    PROVE  Faultless'
<1>1. Applies("ok") /\ UNCHANGED <<queued, checkpoint, blocked, deferred>>
      /\ active' = [active EXCEPT ![k] = NoAttempt]
  BY DEF AcknowledgeSave, flags, deferrals
<1>2. \A j \in Keys : /\ active'[j].state # "Indeterminate" \/ active'[j] = active[j]
                      /\ active'[j].retry \in {0, active[j].retry}
  BY <1>1 DEF IInv, Types, JournalTypes, NoAttempt
<1>3. \A j \in Keys : FirstTry(active'[j], queued'[j]) BY <1>1, <1>2, MovedIsFirst
<1>4. AllOk(completed)' /\ AllOk(inbox)' /\ pc' = pc BY <1>1, AppliedIsOk
<1>5. InPass => InPass' BY <1>4 DEF InPass
<1>6. QED BY <1>1, <1>3, <1>4, <1>5, SameFlags DEF Faultless

LEMMA EndCheckpointFaultless ==
    ASSUME IInv, Faultless, NEW outcome, EndCheckpoint(outcome)
    PROVE  Faultless'
<1>1. Applies(outcome) /\ pc = "drain" BY DEF EndCheckpoint, Applies
<1>2. outcome = "ok" /\ AllOk(completed)' /\ AllOk(inbox)' /\ pc' = pc BY <1>1, AppliedIsOk
<1>3. SettleCheckpoint /\ checkpoint' = NoCheckpoint BY <1>2 DEF EndCheckpoint
<1>4. ~blocked' /\ checkpoint'.state = "None" BY <1>3 DEF SettleCheckpoint, NoCheckpoint
<1>5. PICK promoted \in SUBSET Keys :
        /\ promoted = {k \in Acknowledged : active[k] = NoAttempt /\ queued[k] # <<>>}
        /\ active' = [k \in Keys |-> IF k \in promoted THEN Head(queued[k]) ELSE active[k]]
        /\ queued' = [k \in Keys |-> IF k \in promoted THEN Tail(queued[k]) ELSE queued[k]]
  BY <1>3 DEF SettleCheckpoint, Acknowledged
<1>6. ASSUME NEW k \in Keys PROVE FirstTry(active'[k], queued'[k])
  <2>1. /\ FirstTry(active[k], queued[k]) /\ queued[k] \in Seq(Saves)
        /\ EntryOK(written[k], active[k], queued[k], revision[k])
    BY DEF Faultless, IInv, Types, JournalTypes, Entries, LineOK
  <2>2. CASE k \notin promoted BY <1>5, <2>1, <2>2
  <2>3. CASE k \in promoted
    <3> DEFINE q == queued[k]
    <3>1. active'[k] = Head(q) /\ queued'[k] = Tail(q) /\ q # <<>> BY <1>5, <2>3
    <3>2. /\ Head(q) = q[1] /\ Len(q) \in Nat \ {0} /\ Len(Tail(q)) = Len(q) - 1
          /\ \A i \in 1..Len(Tail(q)) : Tail(q)[i] = q[i + 1]
      BY <2>1, <3>1, HeadTailProperties, LenProperties, EmptySeq
    <3>3. /\ \A i \in 1..Len(q) : q[i].retry = 0
          /\ \A i \in 1..Len(q) : q[i].state = "Pending"
      BY <2>1 DEF FirstTry, EntryOK
    <3> HIDE DEF q
    <3>4. 1 \in 1..Len(q) /\ \A i \in 1..Len(Tail(q)) : i + 1 \in 1..Len(q) BY <3>2
    <3>5. QED BY <3>1, <3>2, <3>3, <3>4 DEF FirstTry
  <2>4. QED BY <2>2, <2>3
<1>7. InPass' BY <1>1, <1>2 DEF InPass
<1>8. QED BY <1>2, <1>4, <1>6, <1>7 DEF Faultless

\* What fails is not applied, and nobody resolves what is not in doubt.
LEMMA NothingFails ==
    ASSUME IInv, Faultless
    PROVE  /\ ~Resolve /\ ~ReturnCheckpoint /\ ~MarkCheckpoint
           /\ \A k \in Keys : ~ReturnSave(k) /\ ~MarkSave(k)
<1>1. ~Applies("err") /\ ~Applies("before") /\ ~Applies("entered") BY AppliedIsOk
<1>2. ~Resolve
  BY DEF Resolve, RetrySave, AcceptSave, RetryCheckpoint, AcceptCheckpoint, InDoubt, Faultless, FirstTry
<1>3. QED BY <1>1, <1>2 DEF ReturnCheckpoint, MarkCheckpoint, ReturnSave, MarkSave

\* The passes and calls of the owner.
LEMMA OwnerFaultless ==
    ASSUME IInv, Faultless, Proceed
    PROVE  Faultless'
<1>1. CASE ApplyCompletion
  <2>1. ASSUME NEW k \in Keys, ApplyLoad(k) PROVE Faultless'
    <3>1. UNCHANGED <<completed, inbox, active, queued, blocked, checkpoint, deferred, pc>>
      BY <2>1 DEF ApplyLoad, runner, journal, flags, deferrals, owner
    <3>2. InPass => InPass' BY <3>1 DEF InPass
    <3>3. QED BY <3>1, <3>2, FaultlessSame
  <2>2. QED
    BY <1>1, <2>1, AcknowledgeSaveFaultless, EndCheckpointFaultless, NothingFails DEF ApplyCompletion
<1>2. CASE EndPass \/ Judge \/ LastRound \/ AwaitOutcome \/ Finish
  <2>1. UNCHANGED <<completed, inbox, active, queued, blocked, checkpoint, deferred>>
    BY <1>2 DEF EndPass, Judge, LastRound, AwaitOutcome, Finish, runner, journal, flags, deferrals
  <2>2. InPass => InPass'
    BY <1>2 DEF EndPass, Judge, LastRound, AwaitOutcome, Finish, Leaves, InPass
  <2>3. QED BY <2>1, <2>2, FaultlessSame
<1>3. CASE EndDrain
  <2>1. UNCHANGED <<queued, completed, inbox, blocked>> /\ deferred' = {}
    BY <1>3 DEF EndDrain, flags
  <2>2. PICK K \in SUBSET Keys :
          IF checkpoint = NoCheckpoint \/ deferred_checkpoint_dispatch
          THEN Dispatch(K) /\ UNCHANGED checkpoint
          ELSE DispatchCheckpoint /\ UNCHANGED active
    <3> DEFINE K == IF Flushing \/ ~MayDispatch THEN {}
                    ELSE {k \in Keys : Dispatchable(k, MaxAutomaticAttempts)} \ deferred
    <3>1. K \in SUBSET Keys OBVIOUS
    <3>2. IF checkpoint = NoCheckpoint \/ deferred_checkpoint_dispatch
          THEN Dispatch(K) /\ UNCHANGED checkpoint
          ELSE DispatchCheckpoint /\ UNCHANGED active
      BY <1>3 DEF EndDrain
    <3> HIDE DEF K
    <3>3. QED BY <3>1, <3>2
  <2>3. UNCHANGED checkpoint BY <2>2, NothingToDispatch
  <2>4. \A k \in Keys : FirstTry(active'[k], queued'[k])
    BY <2>1, <2>2, SentIsFirst, SameSaves
  <2>5. AllOk(completed)' /\ AllOk(inbox)' BY <2>1, SameAnswers
  <2>6. QED BY <2>1, <2>3, <2>4, <2>5 DEF Faultless
<1>4. CASE CheckpointIfNeeded \/ BeginFlushCheckpoint
  <2>1. /\ UNCHANGED <<completed, inbox, active, queued, blocked, deferred>>
        /\ ~InPass /\ ~InPass'
    BY <1>4 DEF CheckpointIfNeeded, BeginFlushCheckpoint, Leaves, journal, flags, deferrals, InPass
  <2>2. checkpoint'.state = "WriteInFlight" \/ checkpoint'.state = checkpoint.state
    <3>1. ASSUME NEW explicit, BeginCheckpoint(explicit) PROVE checkpoint'.state = "WriteInFlight"
      BY <3>1 DEF BeginCheckpoint
    <3>2. CASE CheckpointIfNeeded
      <4>1. BeginCheckpoint(FALSE) \/ UNCHANGED checkpoint BY <3>2 DEF CheckpointIfNeeded
      <4>2. QED BY <3>1, <4>1
    <3>3. CASE BeginFlushCheckpoint /\ checkpoint = NoCheckpoint
      <4>1. BeginCheckpoint(TRUE) BY <3>3 DEF BeginFlushCheckpoint
      <4>2. QED BY <3>1, <4>1
    <3>4. CASE BeginFlushCheckpoint /\ checkpoint # NoCheckpoint
      <4>1. checkpoint' = [checkpoint EXCEPT
                 !.retry = IF checkpoint.state = "Pending" THEN 0 ELSE @, !.explicit = TRUE]
        BY <3>4 DEF BeginFlushCheckpoint
      <4>2. checkpoint \in [state : {"None", "Pending", "WriteInFlight", "Indeterminate"},
                            saves : [Keys -> Revisions], retry : Nat, explicit : BOOLEAN]
        BY DEF IInv, Types, CheckpointTypes
      <4>3. QED BY <4>1, <4>2
    <3>5. QED BY <1>4, <3>2, <3>3, <3>4
  <2>3. AllOk(completed)' /\ AllOk(inbox)' BY <2>1, SameAnswers
  <2>4. \A k \in Keys : FirstTry(active'[k], queued'[k]) BY <2>1, SameSaves
  <2>5. QED BY <2>1, <2>2, <2>3, <2>4 DEF Faultless
<1>5. ASSUME NEW K \in SUBSET Keys, Plan(K) PROVE Faultless'
  <2>1. /\ UNCHANGED <<completed, inbox, blocked, checkpoint, deferred>> /\ InPass /\ InPass'
        /\ Enqueue({k \in K : block[k].dirty})
    BY <1>5 DEF Plan, Leaves, runner, deferrals, InPass
  <2>2. \A k \in Keys : FirstTry(active'[k], queued'[k]) BY <2>1, EnqueuedIsFirst
  <2>3. AllOk(completed)' /\ AllOk(inbox)' BY <2>1, SameAnswers
  <2>4. QED BY <2>1, <2>2, <2>3, SameFlags DEF Faultless
<1>6. CASE Capture
  <2>1. /\ UNCHANGED <<completed, inbox, blocked, checkpoint, deferred>> /\ ~InPass
        /\ Enqueue({k \in Keys : block[k].dirty})
    BY <1>6 DEF Capture, runner, deferrals, InPass
  <2>2. \A k \in Keys : FirstTry(active'[k], queued'[k]) BY <2>1, EnqueuedIsFirst
  <2>3. AllOk(completed)' /\ AllOk(inbox)' BY <2>1, SameAnswers
  <2>4. QED BY <2>1, <2>2, <2>3, SameFlags DEF Faultless
<1>7. CASE Wait
  <2>1. /\ UNCHANGED <<active, queued, blocked, checkpoint, deferred>> /\ InPass'
        /\ TakeCompletions
    BY <1>7 DEF Wait, Leaves, journal, flags, deferrals, InPass
  <2>2. QED BY <2>1, TakenIsOk, SameSaves, SameFlags DEF Faultless
<1>8. CASE StartFlush
  <2>1. UNCHANGED <<completed, inbox, queued, checkpoint, deferred>> /\ ~InPass
    BY <1>8 DEF StartFlush, runner, deferrals, InPass
  <2>2. blocked' = blocked \/ blocked' = FALSE BY <1>8 DEF StartFlush
  <2>3. ASSUME NEW k \in Keys
        PROVE  /\ active'[k].state # "Indeterminate" \/ active'[k] = active[k]
               /\ active'[k].retry \in {0, active[k].retry}
    <3>1. active[k] \in Saves BY DEF IInv, Types, JournalTypes
    <3>2. active'[k] = active[k] \/ (IsPending(k) /\ active'[k] = [active[k] EXCEPT !.retry = 0])
      BY <1>8 DEF StartFlush
    <3>3. QED BY <3>1, <3>2 DEF IsPending, Saves
  <2>4. \A k \in Keys : FirstTry(active'[k], queued'[k]) BY <2>1, <2>3, MovedIsFirst
  <2>5. AllOk(completed)' /\ AllOk(inbox)' BY <2>1, SameAnswers
  <2>6. ~blocked' BY <2>2 DEF Faultless
  <2>7. checkpoint'.state \in {"None", "WriteInFlight"} /\ deferred' = {}
    BY <2>1 DEF Faultless
  <2>8. QED BY <2>4, <2>5, <2>6, <2>7 DEF Faultless
<1>9. CASE Attempt
  <2>1. /\ UNCHANGED <<completed, inbox, queued, blocked, checkpoint, deferred>> /\ ~InPass
    BY <1>9 DEF Attempt, flags, deferrals, InPass
  <2>2. \A k \in Keys : FirstTry(active'[k], queued'[k])
    BY <1>9, <2>1, SentIsFirst DEF Attempt
  <2>3. AllOk(completed)' /\ AllOk(inbox)' BY <2>1, SameAnswers
  <2>4. QED BY <2>1, <2>2, <2>3, SameFlags DEF Faultless
<1>10. CASE AwaitCheckpoint
  <2>1. UNCHANGED <<completed, inbox, active, queued, blocked, deferred>> /\ ~InPass
    BY <1>10 DEF AwaitCheckpoint, journal, flags, deferrals, InPass
  <2>2. UNCHANGED checkpoint BY <1>10, NothingToDispatch DEF AwaitCheckpoint
  <2>3. QED BY <2>1, <2>2, FaultlessSame
<1>11. QED BY <1>1, <1>2, <1>3, <1>4, <1>5, <1>6, <1>7, <1>8, <1>9, <1>10 DEF Proceed

LEMMA NextFaultless ==
    ASSUME IInv, FaultlessOK, [Next]_vars
    PROVE  FaultlessOK'
<1>1. CASE RunPersistence
  <2>1. PICK task \in tasks, outcome \in Outcomes : Complete(task, outcome)
    BY <1>1 DEF RunPersistence, RunSave, RunFlush
  <2>2. QED BY <2>1, CompletedIsOk
<1>2. SUFFICES ASSUME Faultless, ~RunPersistence, faults' = faults PROVE Faultless'
  <2>1. CASE ~RunPersistence
    <3>1. faults' = faults
      <4>1. CASE UNCHANGED vars BY <4>1 DEF vars, stream
      <4>2. CASE Proceed
        <5>1. CASE ApplyCompletion
          <6>1. ASSUME NEW outcome, Applies(outcome) PROVE faults' = faults
            BY <6>1 DEF Applies, stream
          <6>2. ASSUME NEW k \in Keys, ApplyLoad(k) PROVE faults' = faults
            BY <6>2 DEF ApplyLoad, stream
          <6>3. QED
            BY <5>1, <6>1, <6>2 DEF ApplyCompletion, AcknowledgeSave, ReturnSave, MarkSave,
               EndCheckpoint, ReturnCheckpoint, MarkCheckpoint
        <5>2. ASSUME NEW K \in SUBSET Keys, Plan(K) PROVE faults' = faults
          BY <5>2 DEF Plan, stream
        <5>3. CASE EndPass \/ EndDrain \/ CheckpointIfNeeded \/ Wait \/ Capture \/ StartFlush
          BY <5>3 DEF EndPass, EndDrain, CheckpointIfNeeded, Wait, Capture, StartFlush, stream
        <5>4. CASE \/ Attempt \/ Judge \/ LastRound \/ BeginFlushCheckpoint
                   \/ AwaitOutcome \/ AwaitCheckpoint \/ Finish
          BY <5>4 DEF Attempt, Judge, LastRound, BeginFlushCheckpoint, AwaitOutcome,
             AwaitCheckpoint, Finish, stream
        <5>5. QED BY <4>2, <5>1, <5>2, <5>3, <5>4 DEF Proceed
      <4>3. CASE Resolve
        BY <4>3 DEF Resolve, RetrySave, AcceptSave, RetryCheckpoint, AcceptCheckpoint, stream
      <4>4. ASSUME NEW k \in Keys, Edit(k) \/ RunLoad(k) PROVE faults' = faults
        BY <4>4 DEF Edit, RunLoad, stream
      <4>5. ASSUME NEW c \in Calls, Call(c) \/ BeginFlush(c) PROVE faults' = faults
        BY <4>5 DEF Call, BeginFlush, stream
      <4>6. QED BY <2>1, <4>1, <4>2, <4>3, <4>4, <4>5 DEF Next
    <3>2. QED BY <1>2, <2>1, <3>1 DEF FaultlessOK
  <2>2. QED BY <1>1, <2>1
<1>3. ASSUME NEW k \in Keys, Edit(k) \/ RunLoad(k) PROVE Faultless'
  <2>1. UNCHANGED <<completed, inbox, active, queued, blocked, checkpoint, deferred, pc>>
    BY <1>3 DEF Edit, RunLoad, runner, journal, flags, deferrals, owner
  <2>2. InPass => InPass' BY <2>1 DEF InPass
  <2>3. QED BY <1>2, <2>1, <2>2, FaultlessSame
<1>4. ASSUME NEW c \in Calls, Call(c) PROVE Faultless'
  <2>1. UNCHANGED <<active, queued, blocked, checkpoint, deferred>> /\ InPass' /\ TakeCompletions
    BY <1>4 DEF Call, journal, flags, deferrals, InPass
  <2>2. QED BY <1>2, <2>1, TakenIsOk, SameSaves, SameFlags DEF Faultless
<1>5. ASSUME NEW c \in Calls, BeginFlush(c) PROVE Faultless'
  <2>1. UNCHANGED <<completed, inbox, active, queued, blocked, checkpoint, deferred>> /\ ~InPass
    BY <1>5 DEF BeginFlush, runner, journal, flags, deferrals, InPass
  <2>2. QED BY <1>2, <2>1, FaultlessSame
<1>6. CASE UNCHANGED vars
  <2>1. UNCHANGED <<completed, inbox, active, queued, blocked, checkpoint, deferred, pc>>
    BY <1>6 DEF vars, runner, journal, flags, deferrals, owner
  <2>2. InPass => InPass' BY <2>1 DEF InPass
  <2>3. QED BY <1>2, <2>1, <2>2, FaultlessSame
<1>7. QED BY <1>2, <1>3, <1>4, <1>5, <1>6, OwnerFaultless, NothingFails DEF Next

\* Between two calls, with nothing under way and no failure so far, the next
\* process call writes or flushes for every captured edit that the stream has
\* not got: its save is one that the pass dispatches, or a checkpoint begins.
NothingForgotten ==
    pc = "idle" /\ tasks = {} /\ completed = <<>> /\ inbox = <<>> /\ faults = 0 =>
        \A k \in Keys : \A v \in Owed(k) :
            \/ stored[k] >= v
            \/ MayDispatch /\ Dispatchable(k, MaxAutomaticAttempts) /\ k \notin deferred
            \/ CheckpointNeeded

(* No save is forgotten behind another that is written but not flushed, behind *)
(* a checkpoint that is over, or among those a pass has deferred               *)
(* (checkpoint_acknowledged_saves_if_needed, dispatch_queued_saves_except).    *)
(* This is what EverySaveWritten asks for apart from the fairness of its steps.*)
THEOREM NoSaveForgotten == Spec => []NothingForgotten
<1>1. ASSUME IInv, FaultlessOK PROVE NothingForgotten
  <2>1. SUFFICES ASSUME pc = "idle", tasks = {}, completed = <<>>, inbox = <<>>, faults = 0,
                        NEW k \in Keys, NEW v \in Owed(k), ~(stored[k] >= v)
                 PROVE  \/ MayDispatch /\ Dispatchable(k, MaxAutomaticAttempts) /\ k \notin deferred
                        \/ CheckpointNeeded
    BY DEF NothingForgotten
  <2>2. Faultless BY <1>1, <2>1 DEF FaultlessOK
  <2>3. AttemptsInFlight = {} /\ \A j \in Keys : ~InFlight(j) BY <1>1, <2>1, NothingInFlight
  <2>4. MayDispatch
    <3>1. checkpoint.state # "WriteInFlight" BY <2>3 DEF AttemptsInFlight, FlushTask
    <3>2. checkpoint = NoCheckpoint BY <1>1, <2>2, <3>1 DEF Faultless, IInv, CheckpointOK
    <3>3. QED BY <2>2, <3>2 DEF MayDispatch, Faultless
  <2>5. /\ EntryOK(written[k], active[k], queued[k], revision[k])
        /\ written[k] # 0 => stored[k] = written[k]
        /\ active[k] \in Saves /\ active[k].state \in {"None", "Pending"} /\ active[k].retry = 0
        /\ stored[k] \in Nat
    BY <1>1, <2>2, <2>3, RevisionsAreNumbers
    DEF IInv, Entries, LineOK, StreamOK, Types, JournalTypes, StreamTypes, Faultless, FirstTry, Saves,
        InFlight
  <2>6. v \in Owes(written[k], active[k], queued[k]) BY <1>1, LineIs DEF Open
  <2>7. CASE active[k] # NoAttempt
    <3>1. active[k].state = "Pending" /\ written[k] = 0 BY <2>5, <2>7 DEF EntryOK
    <3>2. MaxAutomaticAttempts \in Nat \ {0} BY JournalAssumption DEF JournalAssumption
    <3>3. Dispatchable(k, MaxAutomaticAttempts)
      BY <2>5, <3>1, <3>2 DEF Dispatchable, IsPending
    <3>4. deferred = {} BY <2>1, <2>2 DEF Faultless, InPass
    <3>5. QED BY <2>4, <3>3, <3>4
  <2>8. CASE active[k] = NoAttempt
    <3>1. queued[k] # <<>>
      <4>1. ASSUME queued[k] = <<>> PROVE FALSE
        <5>1. Len(queued[k]) = 0 BY <4>1
        <5>2. written[k] # 0 /\ v = written[k] BY <2>6, <2>8, <5>1 DEF Owes
        <5>3. QED BY <2>1, <2>5, <5>2
      <4>2. QED BY <4>1
    <3>2. written[k] # 0 BY <2>5, <2>8, <3>1 DEF EntryOK
    <3>3. SuccessorBlocked BY <3>1, <3>2 DEF SuccessorBlocked
    <3>4. \A j \in Keys : ~InDoubt(j) BY <2>2 DEF Faultless, FirstTry, InDoubt
    <3>5. QED BY <2>3, <2>4, <3>3, <3>4 DEF CheckpointNeeded
  <2>9. QED BY <2>7, <2>8
<1>2. Init => FaultlessOK BY InitFaultless
<1>3. IInv /\ FaultlessOK /\ [Next]_vars => FaultlessOK' BY NextFaultless
<1>4. QED BY <1>1, <1>2, <1>3, JournalInvariant, PTL DEF Spec
=============================================================================
