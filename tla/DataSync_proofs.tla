--------------------------- MODULE DataSync_proofs ---------------------------
(***************************************************************************)
(* Safety of DataSync for every set of knowledge bases, any number of      *)
(* updates, failures and requests: one scheduled log, and a watermark that *)
(* leaves nothing behind.                                                  *)
(***************************************************************************)
EXTENDS DataSync, FiniteSetTheorems, SequenceTheorems, WellFoundedInduction, TLAPS

-----------------------------------------------------------------------------
(* Induction, by the least counterexample, and recursion over a sequence.  *)

LEMMA LeastOf ==
  ASSUME NEW T \in SUBSET Nat, T # {}
  PROVE  \E x \in T : \A y \in T : x <= y
<1>1. PICK R : R = {p \in Nat \X Nat : p[1] < p[2]} /\ IsWellFoundedOn(R, Nat)
  BY NatLessThanWellFounded DEF OpToRel
<1>2. PICK x \in T : \A y \in T : ~ (<<y, x>> \in R)
  BY <1>1, WFMin
<1>3. \A y \in T : y < x => <<y, x>> \in R
  BY <1>1
<1>4. ASSUME NEW y \in T PROVE x <= y
  <2>1. x \in Nat /\ y \in Nat
    OBVIOUS
  <2>2. ~ (y < x)
    BY <1>2, <1>3
  <2> QED BY <2>1, <2>2
<1> QED BY <1>4

LEMMA Induction ==
  ASSUME NEW m \in Nat, NEW T, 0 \in T, \A n \in 1..m : n - 1 \in T => n \in T
  PROVE  0..m \subseteq T
<1> DEFINE C == (0..m) \ T
<1> SUFFICES ASSUME C # {} PROVE FALSE
  OBVIOUS
<1>1. C \in SUBSET Nat
  OBVIOUS
<1>2. PICK n \in C : \A k \in C : n <= k
  BY <1>1, LeastOf
<1>3. n \in 1..m /\ n - 1 \in 0..m
  BY <1>2
<1>4. n - 1 \notin C
  BY <1>2, <1>3
<1> QED BY <1>2, <1>3, <1>4

(* A function given step by step exists.                                   *)
Iterates(f, m, x, step) ==
  /\ f = [n \in 0..m |-> f[n]] /\ f[0] = x
  /\ \A n \in 1..m : f[n] = step[<<f[n - 1], n>>]

LEMMA IterationExists ==
  ASSUME NEW m \in Nat, NEW x, NEW step
  PROVE  \E f : Iterates(f, m, x, step)
<1> DEFINE T == {n \in 0..m : \E f : Iterates(f, n, x, step)}
<1>1. 0 \in T
  <2>1. Iterates([n \in 0..0 |-> x], 0, x, step)
    BY DEF Iterates
  <2> QED BY <2>1
<1>2. ASSUME NEW n \in 1..m, n - 1 \in T PROVE n \in T
  <2>1. PICK f : Iterates(f, n - 1, x, step)
    BY <1>2
  <2> DEFINE h == [i \in 0..n |-> IF i < n THEN f[i] ELSE step[<<f[n - 1], n>>]]
  <2>2. h = [i \in 0..n |-> h[i]] /\ h[0] = x
    BY <2>1 DEF Iterates
  <2>3. ASSUME NEW i \in 1..n PROVE h[i] = step[<<h[i - 1], i>>]
    <3>1. h[i - 1] = f[i - 1]
      OBVIOUS
    <3>2. CASE i < n
      <4>1. i \in 1..(n - 1) /\ h[i] = f[i]
        BY <3>2
      <4> QED BY <2>1, <3>1, <4>1 DEF Iterates
    <3>3. CASE i = n
      <4>1. h[n] = step[<<f[n - 1], n>>]
        OBVIOUS
      <4> HIDE DEF h
      <4> QED BY <3>1, <3>3, <4>1
    <3> QED BY <3>2, <3>3
  <2>4. Iterates(h, n, x, step)
    BY <2>2, <2>3 DEF Iterates
  <2> QED BY <2>4
<1> HIDE DEF T
<1>3. 0..m \subseteq T
  BY <1>1, <1>2, Induction
<1> USE DEF T
<1> QED BY <1>3

LEMMA LargestIs ==
  ASSUME NEW a \in Int, NEW b \in Int, NEW S \in SUBSET (a..b), S # {}
  PROVE  Largest(S) \in S /\ \A y \in S : y <= Largest(S)
<1> DEFINE T == {b - y : y \in S}
<1>1. T \in SUBSET Nat /\ T # {}
  <2>1. \A y \in S : b - y \in Nat
    OBVIOUS
  <2> QED BY <2>1
<1>2. PICK x \in T : \A y \in T : x <= y
  BY <1>1, LeastOf
<1>3. PICK z \in S : x = b - z
  BY <1>2
<1>4. ASSUME NEW y \in S PROVE y <= z
  <2>1. b - z <= b - y
    BY <1>2, <1>3
  <2> QED BY <2>1
<1> QED BY <1>3, <1>4 DEF Largest

LEMMA SmallestIs ==
  ASSUME NEW a \in Int, NEW b \in Int, NEW S \in SUBSET (a..b), S # {}
  PROVE  Smallest(S) \in S /\ \A y \in S : Smallest(S) <= y
<1> DEFINE T == {y - a : y \in S}
<1>1. T \in SUBSET Nat /\ T # {}
  OBVIOUS
<1>2. PICK x \in T : \A y \in T : x <= y
  BY <1>1, LeastOf
<1>3. PICK z \in S : x = z - a
  BY <1>2
<1>4. ASSUME NEW y \in S PROVE z <= y
  <2>1. z - a <= y - a
    BY <1>2, <1>3
  <2> QED BY <2>1
<1> QED BY <1>3, <1>4 DEF Smallest

-----------------------------------------------------------------------------
(* The sequences of logs.                                                  *)

KeptBy(f, s, S) ==
  f = [n \in 0..Len(s) |->
         IF n = 0 THEN <<>> ELSE IF n \in S THEN Append(f[n - 1], s[n]) ELSE f[n - 1]]

(* Kept, position by position.                                             *)
KeptVia(f, s, S) ==
  /\ f[0] = <<>> /\ Kept(s, S) = f[Len(s)]
  /\ \A n \in 1..Len(s) : f[n] = IF n \in S THEN Append(f[n - 1], s[n]) ELSE f[n - 1]
  /\ \A n \in 0..Len(s) : f[n] \in Seq(Log)

LEMMA KeptSteps ==
  ASSUME NEW s \in Seq(Log), NEW S
  PROVE  \E f : KeptVia(f, s, S)
<1> DEFINE m == Len(s)
           step == [z \in Seq(Log) \X (1..m) |-> IF z[2] \in S THEN Append(z[1], s[z[2]]) ELSE z[1]]
<1>1. m \in Nat /\ \A n \in 1..m : s[n] \in Log
  OBVIOUS
<1>2. PICK h : Iterates(h, m, <<>>, step)
  BY <1>1, IterationExists
<1>3. ASSUME NEW n \in 1..m, h[n - 1] \in Seq(Log)
      PROVE  /\ h[n] = IF n \in S THEN Append(h[n - 1], s[n]) ELSE h[n - 1]
             /\ h[n] \in Seq(Log)
  <2>1. h[n] = step[<<h[n - 1], n>>]
    BY <1>2 DEF Iterates
  <2>2. <<h[n - 1], n>> \in Seq(Log) \X (1..m)
    BY <1>3
  <2>3. step[<<h[n - 1], n>>] = IF n \in S THEN Append(h[n - 1], s[n]) ELSE h[n - 1]
    BY <2>2
  <2> QED BY <1>1, <1>3, <2>1, <2>3
<1> HIDE DEF step
<1>4. 0..m \subseteq {n \in 0..m : h[n] \in Seq(Log)}
  <2> DEFINE T == {n \in 0..m : h[n] \in Seq(Log)}
  <2>1. 0 \in T
    BY <1>1, <1>2, EmptySeq DEF Iterates
  <2>2. ASSUME NEW n \in 1..m, n - 1 \in T PROVE n \in T
    BY <1>1, <1>3, <2>2
  <2> HIDE DEF T
  <2>3. 0..m \subseteq T
    BY <1>1, <2>1, <2>2, Induction
  <2> QED BY <2>3 DEF T
<1>5. KeptBy(h, s, S)
  <2>1. h = [n \in 0..m |-> h[n]] /\ h[0] = <<>>
    BY <1>2 DEF Iterates
  <2>2. ASSUME NEW n \in 0..m
        PROVE  h[n] = IF n = 0 THEN <<>> ELSE IF n \in S THEN Append(h[n - 1], s[n]) ELSE h[n - 1]
    <3>1. CASE n = 0
      BY <2>1, <3>1
    <3>2. CASE n # 0
      <4>1. n \in 1..m /\ n - 1 \in 0..m
        BY <1>1, <3>2
      <4> QED BY <1>3, <1>4, <3>2, <4>1
    <3> QED BY <3>1, <3>2
  <2> QED BY <2>1, <2>2 DEF KeptBy
<1> DEFINE f == CHOOSE f : KeptBy(f, s, S)
<1>6. KeptBy(f, s, S)
  BY <1>5
<1>7. Kept(s, S) = f[m]
  BY DEF Kept, KeptBy
<1> HIDE DEF f
<1>8. f[0] = <<>>
  BY <1>1, <1>6 DEF KeptBy
<1>9. ASSUME NEW n \in 1..m
      PROVE  f[n] = IF n \in S THEN Append(f[n - 1], s[n]) ELSE f[n - 1]
  <2>1. n \in 0..m /\ n # 0
    BY <1>1
  <2> HIDE DEF m
  <2>2. f = [k \in 0..m |-> IF k = 0 THEN <<>> ELSE IF k \in S THEN Append(f[k - 1], s[k]) ELSE f[k - 1]]
    BY <1>6 DEF KeptBy, m
  <2> QED BY <2>1, <2>2, Zenon
<1>10. 0..m \subseteq {n \in 0..m : f[n] \in Seq(Log)}
  <2> DEFINE T == {n \in 0..m : f[n] \in Seq(Log)}
  <2>1. 0 \in T
    <3>1. <<>> \in Seq(Log) /\ 0 \in 0..m
      BY <1>1
    <3> HIDE DEF m
    <3> QED BY <1>8, <3>1
  <2>2. ASSUME NEW n \in 1..m, n - 1 \in T PROVE n \in T
    <3>1. f[n - 1] \in Seq(Log) /\ s[n] \in Log /\ n \in 0..m
      BY <1>1, <2>2
    <3>2. Append(f[n - 1], s[n]) \in Seq(Log)
      BY <3>1, AppendProperties
    <3> QED BY <1>9, <3>1, <3>2
  <2> HIDE DEF T
  <2>3. 0..m \subseteq T
    BY <1>1, <2>1, <2>2, Induction
  <2> QED BY <2>3 DEF T
<1>11. KeptVia(f, s, S)
  BY <1>7, <1>8, <1>9, <1>10 DEF KeptVia
<1> QED BY <1>11

LEMMA KeptType ==
  ASSUME NEW s \in Seq(Log), NEW S
  PROVE  Kept(s, S) \in Seq(Log)
<1>1. Len(s) \in 0..Len(s)
  OBVIOUS
<1> QED BY <1>1, KeptSteps DEF KeptVia

(* Sequences of one and two logs.                                          *)
LEMMA KeptOne ==
  ASSUME NEW s \in Seq(Log), NEW S
  PROVE  Len(s) = 1 => Kept(s, S) = IF 1 \in S THEN <<s[1]>> ELSE <<>>
<1>1. PICK f : KeptVia(f, s, S)
  BY KeptSteps
<1> HAVE Len(s) = 1
<1>2. f[1] = IF 1 \in S THEN Append(f[0], s[1]) ELSE f[0]
  <2>1. 1 \in 1..Len(s) /\ 1 - 1 = 0
    OBVIOUS
  <2> QED BY <1>1, <2>1, Zenon DEF KeptVia
<1> QED BY <1>1, <1>2 DEF KeptVia

LEMMA KeptTwo ==
  ASSUME NEW s \in Seq(Log), Len(s) = 2, NEW S, 1 \notin S, 2 \in S
  PROVE  Kept(s, S) = <<s[2]>>
<1>1. PICK f : KeptVia(f, s, S)
  BY KeptSteps
<1>2. 1 \in 1..Len(s) /\ 2 \in 1..Len(s) /\ 1 - 1 = 0 /\ 2 - 1 = 1
  OBVIOUS
<1>3. f[1] = f[0] /\ f[2] = Append(f[1], s[2])
  BY <1>1, <1>2, Zenon DEF KeptVia
<1> QED BY <1>1, <1>2, <1>3 DEF KeptVia

LEMMA ZeroOrOne == \A n \in Nat : n <= 1 => n = 0 \/ n = 1
OBVIOUS

LEMMA SeenType ==
  ASSUME NEW s \in Seq(Log)
  PROVE  Seen(s) \in Seq(Log)
BY KeptType DEF Seen

LEMMA SeenAdded ==
  ASSUME NEW s \in Seq(Log), Len(s) <= 1, \A i \in DOMAIN s : s[i].status \notin Open, NEW l \in Log
  PROVE  Seen(Append(s, l)) = <<l>>
<1> DEFINE t == Append(s, l)
           S == {i \in DOMAIN t : t[i].status \in Open \/ i = Len(t)}
<1>1. t \in Seq(Log) /\ Len(t) = Len(s) + 1 /\ t[Len(t)] = l /\ DOMAIN t = 1..Len(t)
  BY AppendProperties
<1>2. CASE Len(s) = 0
  <2>1. Len(t) = 1 /\ 1 \in S /\ t[1] = l
    BY <1>1, <1>2
  <2> HIDE DEF t
  <2> QED BY <1>1, <2>1, KeptOne DEF Seen, t
<1>3. CASE Len(s) = 1
  <2>1. t[1] = s[1] /\ 1 \in DOMAIN s
    BY <1>3, AppendProperties
  <2>2. Len(t) = 2 /\ 2 \in S /\ t[2] = l /\ 1 \notin S
    BY <1>1, <1>3, <2>1
  <2> HIDE DEF t
  <2> QED BY <1>1, <2>2, KeptTwo DEF Seen, t
<1>4. Len(s) = 0 \/ Len(s) = 1
  <2>1. Len(s) \in Nat
    BY LenProperties
  <2> QED BY <2>1, ZeroOrOne
<1> QED BY <1>2, <1>3, <1>4

LEMMA UpdatedType ==
  ASSUME NEW s \in Seq(Log), NEW id, NEW l, id \in Held(s) => l \in Log
  PROVE  Updated(s, id, l) \in Seq(Log)
<1> DEFINE u == Kept(s, {i \in DOMAIN s : s[i].id # id})
<1>1. u \in Seq(Log)
  BY KeptType
<1> HIDE DEF u
<1>2. CASE id \in Held(s)
  <2>1. Append(u, l) \in Seq(Log)
    BY <1>1, <1>2, AppendProperties
  <2> QED BY <1>2, <2>1, SeenType DEF Updated, u
<1> QED BY <1>2 DEF Updated

LEMMA FoundLog ==
  ASSUME NEW s \in Seq(Log), NEW id, id \in Held(s)
  PROVE  LogOf(s, id) \in Log /\ LogOf(s, id).id = id
BY DEF LogOf, Held

LEMMA WithStatusType ==
  ASSUME NEW s \in Seq(Log), NEW id, NEW status \in Statuses
  PROVE  WithStatus(s, id, status) \in Seq(Log)
<1>1. ASSUME id \in Held(s) PROVE [LogOf(s, id) EXCEPT !.status = status] \in Log
  BY <1>1, FoundLog DEF Log
<1> QED BY <1>1, UpdatedType DEF WithStatus

(* The only log of a knowledge base.                                       *)
LEMMA UpdatedOnly ==
  ASSUME NEW s \in Seq(Log), Len(s) <= 1, NEW id, NEW l, id \in Held(s) => l \in Log
  PROVE  /\ Updated(s, id, l) = IF id \in Held(s) THEN <<l>> ELSE s
         /\ id \in Held(s) => Len(s) = 1 /\ s[1].id = id /\ LogOf(s, id) = s[1]
<1>1. CASE id \notin Held(s)
  BY <1>1 DEF Updated
<1>2. CASE id \in Held(s)
  <2>1. Len(s) = 1 /\ s[1].id = id /\ DOMAIN s = 1..1
    <3>1. Len(s) \in Nat /\ DOMAIN s = 1..Len(s)
      BY LenProperties
    <3> QED BY <1>2, <3>1 DEF Held
  <2>2. LogOf(s, id) = s[1]
    BY <2>1 DEF LogOf
  <2>3. Kept(s, {i \in DOMAIN s : s[i].id # id}) = <<>>
    BY <2>1, KeptOne
  <2>4. <<>> \in Seq(Log) /\ Len(<<>>) = 0 /\ DOMAIN <<>> = {}
    OBVIOUS
  <2>5. Seen(Append(<<>>, l)) = <<l>>
    <3>1. l \in Log /\ Len(<<>>) <= 1 /\ \A i \in DOMAIN <<>> : <<>>[i].status \notin Open
      BY <1>2, <2>4
    <3> QED BY <2>4, <3>1, SeenAdded
  <2> QED BY <1>2, <2>1, <2>2, <2>3, <2>5 DEF Updated
<1> QED BY <1>1, <1>2

(* A change of status leaves everything else of it.                        *)
Same(l, m) == l.id = m.id /\ l.start = m.start /\ l.end = m.end /\ l.reindex = m.reindex

LEMMA WithStatusOnly ==
  ASSUME NEW s \in Seq(Log), Len(s) <= 1, NEW id, NEW status \in Statuses
  PROVE  /\ Len(WithStatus(s, id, status)) = Len(s)
         /\ \A i \in DOMAIN s :
              /\ Same(WithStatus(s, id, status)[i], s[i])
              /\ WithStatus(s, id, status)[i].status = IF s[i].id = id THEN status ELSE s[i].status
<1> DEFINE l == [LogOf(s, id) EXCEPT !.status = status]
<1>1. id \in Held(s) => l \in Log
  BY FoundLog DEF Log
<1>2. WithStatus(s, id, status) = IF id \in Held(s) THEN <<l>> ELSE s
  BY <1>1, UpdatedOnly DEF WithStatus
<1>3. CASE id \notin Held(s)
  BY <1>2, <1>3 DEF Held, Same
<1>4. CASE id \in Held(s)
  <2>1. Len(s) = 1 /\ s[1].id = id /\ LogOf(s, id) = s[1] /\ s[1] \in Log /\ DOMAIN s = 1..1
    <3>1. Len(s) = 1 /\ s[1].id = id /\ LogOf(s, id) = s[1]
      BY <1>1, <1>4, UpdatedOnly
    <3>2. s[1] \in Log /\ DOMAIN s = 1..Len(s)
      BY <3>1
    <3> QED BY <3>1, <3>2
  <2>2. Same(l, s[1]) /\ l.status = status
    BY <2>1 DEF Same, Log
  <2> QED BY <1>2, <1>4, <2>1, <2>2
<1> QED BY <1>3, <1>4

-----------------------------------------------------------------------------
(* The inductive invariant.                                                *)

Covered(k, n) == 1..n \subseteq offered[k] \cup dropped[k]

(* A task that waits for its turn is the only log of its knowledge base.   *)
Waits(k, t) ==
  /\ task # NoTask => task.kb # k
  /\ Len(logs[k]) = 1 /\ logs[k][1].status # "DONE"
  /\ logs[k][1].id = t.id /\ logs[k][1].start = t.start /\ logs[k][1].reindex = t.reindex

(* So is the one that runs, whatever users did to its status.              *)
Runs(k) ==
  /\ Len(logs[k]) = 1 /\ logs[k][1].status # "DONE"
  /\ logs[k][1].id = task.id /\ logs[k][1].reindex = task.reindex
  /\ logs[k][1].start = Null => task.start = Null

(* Its watermarks may be ahead of what was offered, but not of that and    *)
(* what it still has to offer.                                             *)
Marks(l) == todo \cup {next_update, l.start, l.end}
Reach(k) == offered[k] \cup dropped[k] \cup todo
Polls(k) == \A n \in Marks(logs[k][1]) : 1..n \subseteq Reach(k)

(* What the log of a knowledge base says was offered, was.                 *)
Truthful(k, l) ==
  /\ ~ Full(l) => Covered(k, l.start)
  /\ l.status = "DONE" => Covered(k, l.end)

(* A knowledge base nobody meddled with.                                   *)
KbInv(k) ==
  /\ Len(logs[k]) <= 1
  /\ \A i \in DOMAIN logs[k] : logs[k][i].start <= now /\ logs[k][i].end <= now
  /\ at # "idle" /\ task.kb = k => next_update <= now
  /\ k \notin linked => ~ Busy(k) /\ \A i \in DOMAIN logs[k] : logs[k][i].status \notin Open
  /\ \A t \in round : t.kb = k => Waits(k, t)
  /\ at = "batches" /\ task.kb = k => Runs(k)
  /\ at = "schedule" /\ task.kb = k => \A i \in DOMAIN logs[k] : logs[k][i].status # "RUNNING"
  /\ k \notin half => \A i \in DOMAIN logs[k] : Truthful(k, logs[k][i])
  /\ at = "schedule" /\ task.kb = k /\ k \notin half => Covered(k, next_update)
  /\ at = "batches" /\ task.kb = k /\ (k \notin half \/ task.start = Null) => Polls(k)

ServiceInv ==
  /\ todo \subseteq 1..now
  /\ at = "batches" /\ task.start = Null /\ ~ task.reindex => task.kb \in half

SyncInv == TypeOK /\ ServiceInv /\ \A k \in KBs \ meddled : KbInv(k)

LEMMA SyncInit == Init => SyncInv
<1> SUFFICES ASSUME Init PROVE SyncInv
  OBVIOUS
<1> USE SyncAssumption
<1>1. TypeOK
  <2>1. logs \in [KBs -> Seq(Log)]
    BY DEF Init
  <2>2. 0 \in 0..MaxTime /\ 0 \in 0..MaxFaults /\ 0 \in 0..MaxRequests
    OBVIOUS
  <2> QED BY <2>1, <2>2 DEF Init, TypeOK, Statuses, Epoch
<1>2. ServiceInv
  BY DEF Init, ServiceInv, Epoch
<1>3. ASSUME NEW k \in KBs PROVE KbInv(k)
  <2>1. logs[k] = <<>> /\ DOMAIN logs[k] = {} /\ Len(logs[k]) = 0
    BY DEF Init
  <2> QED BY <2>1 DEF Init, KbInv, Busy
<1> QED BY <1>1, <1>2, <1>3 DEF SyncInv

(* A task is none or has a knowledge base.                                 *)
LEMMA TaskKb ==
  ASSUME TypeOK
  PROVE  /\ \A t \in round : t \in Task /\ t.kb \in KBs /\ t # NoTask
         /\ at # "idle" => task \in Task /\ task.kb \in KBs /\ task # NoTask
         /\ \A k \in KBs : logs[k] \in Seq(Log) /\ DOMAIN logs[k] = 1..Len(logs[k]) /\ Len(logs[k]) \in Nat
<1>1. \A t \in Task : t.kb \in KBs /\ t # NoTask
  BY SyncAssumption DEF Task, NoTask
<1>2. \A k \in KBs : logs[k] \in Seq(Log)
  BY DEF TypeOK
<1> QED BY <1>1, <1>2, LenProperties DEF TypeOK

(* A knowledge base whose log changes its status at most.                  *)
Still(k) ==
  /\ Len(logs'[k]) = Len(logs[k])
  /\ \A i \in DOMAIN logs[k] :
       /\ Same(logs'[k][i], logs[k][i])
       /\ logs'[k][i].status = logs[k][i].status \/ logs'[k][i].status # "DONE"

LEMMA Frame ==
  ASSUME TypeOK, TypeOK', NEW k \in KBs, KbInv(k), Still(k), now <= now',
         k \notin linked' => ~ Busy(k)' /\ \A i \in DOMAIN logs[k] : logs'[k][i].status \notin Open,
         \A t \in round' : t.kb = k => t \in round /\ (task' # NoTask => task'.kb # k),
         at' = "batches" /\ task'.kb = k =>
           at = "batches" /\ UNCHANGED <<task, todo, next_update>>,
         at' = "schedule" /\ task'.kb = k =>
           /\ at = "schedule" /\ UNCHANGED <<task, next_update>>
           /\ \A i \in DOMAIN logs[k] : logs'[k][i].status # "RUNNING",
         offered[k] \subseteq offered'[k], dropped[k] \subseteq dropped'[k], k \in half => k \in half'
  PROVE  KbInv(k)'
<1>1. DOMAIN logs[k] = 1..Len(logs[k]) /\ Len(logs[k]) \in Nat /\ DOMAIN logs'[k] = DOMAIN logs[k]
  <2>1. logs[k] \in Seq(Log) /\ logs'[k] \in Seq(Log)
    BY DEF TypeOK
  <2> QED BY <2>1, LenProperties DEF Still
<1>2. \A i \in DOMAIN logs[k] : logs[k][i] \in Log
  BY <1>1 DEF TypeOK
<1>3. Len(logs'[k]) <= 1
  BY DEF KbInv, Still
<1>4. \A i \in DOMAIN logs'[k] : logs'[k][i].start <= now' /\ logs'[k][i].end <= now'
  BY <1>1, <1>2 DEF KbInv, Still, Same, Log, TypeOK
<1>5. k \notin linked' => ~ Busy(k)' /\ \A i \in DOMAIN logs'[k] : logs'[k][i].status \notin Open
  BY <1>1
<1>6. ASSUME NEW t \in round', t.kb = k PROVE Waits(k, t)'
  <2>1. Waits(k, t) /\ (task' # NoTask => task'.kb # k)
    BY <1>6 DEF KbInv
  <2>2. 1 \in DOMAIN logs[k] /\ Len(logs'[k]) = 1
    BY <1>1, <2>1 DEF Waits, Still
  <2> QED BY <2>1, <2>2 DEF Waits, Still, Same
<1>7. ASSUME at' = "batches", task'.kb = k PROVE Runs(k)'
  <2>1. Runs(k) /\ task' = task
    BY <1>7 DEF KbInv
  <2>2. 1 \in DOMAIN logs[k] /\ Len(logs'[k]) = 1
    BY <1>1, <2>1 DEF Runs, Still
  <2> QED BY <2>1, <2>2 DEF Runs, Still, Same
<1>8. at' = "schedule" /\ task'.kb = k => \A i \in DOMAIN logs'[k] : logs'[k][i].status # "RUNNING"
  BY <1>1
<1>9. ASSUME k \notin half', NEW i \in DOMAIN logs'[k] PROVE Truthful(k, logs[k][i])'
  <2>1. Truthful(k, logs[k][i])
    BY <1>1, <1>9 DEF KbInv
  <2>2. Same(logs'[k][i], logs[k][i]) /\ (logs'[k][i].status = "DONE" => logs[k][i].status = "DONE")
    BY <1>1 DEF Still
  <2> QED BY <2>1, <2>2 DEF Truthful, Full, Covered, Same
<1>10. at' = "schedule" /\ task'.kb = k /\ k \notin half' => Covered(k, next_update)'
  BY DEF KbInv, Covered
<1>11. ASSUME at' = "batches", task'.kb = k, k \notin half' \/ task'.start = Null PROVE Polls(k)'
  <2>1. Polls(k) /\ Runs(k) /\ UNCHANGED <<task, todo, next_update>>
    BY <1>11 DEF KbInv
  <2>2. Same(logs'[k][1], logs[k][1])
    BY <1>1, <2>1 DEF Runs, Still
  <2>3. Marks(logs[k][1])' = Marks(logs[k][1])
    BY <2>1, <2>2 DEF Marks, Same
  <2>4. Reach(k) \subseteq Reach(k)'
    BY <2>1 DEF Reach
  <2> QED BY <2>1, <2>3, <2>4 DEF Polls
<1>12. at' # "idle" /\ task'.kb = k => next_update' <= now'
  BY DEF TypeOK, KbInv
<1> QED BY <1>3, <1>4, <1>5, <1>6, <1>7, <1>8, <1>9, <1>10, <1>11, <1>12 DEF KbInv

(* A knowledge base that gets a new log in place of its old one.           *)
LEMMA Fresh ==
  ASSUME TypeOK', NEW k \in KBs, k \in linked', NEW l \in Log, logs'[k] = <<l>>,
         l.status = "SCHEDULE", l.end = Null, l.start <= now',
         k \notin half' /\ ~ Full(l) => Covered(k, l.start)',
         \A t \in round' : t.kb # k, at' = "batches" => task'.kb # k,
         at' = "schedule" /\ task'.kb = k =>
           next_update' <= now' /\ (k \notin half' => Covered(k, next_update)')
  PROVE  KbInv(k)'
<1>1. Len(logs'[k]) = 1 /\ DOMAIN logs'[k] = 1..1 /\ logs'[k][1] = l
  OBVIOUS
<1>2. l.end <= now'
  BY SyncAssumption DEF TypeOK, Null
<1>3. ASSUME k \notin half', NEW i \in DOMAIN logs'[k] PROVE Truthful(k, logs[k][i])'
  <2>1. logs'[k][i] = l /\ l.status # "DONE"
    BY <1>1
  <2> QED BY <1>3, <2>1 DEF Truthful
<1>4. at' # "idle" /\ task'.kb = k => next_update' <= now'
  BY DEF TypeOK
<1> QED BY <1>1, <1>2, <1>3, <1>4 DEF KbInv

-----------------------------------------------------------------------------
(* The types.                                                              *)

LEMMA NewLogType ==
  ASSUME NEW k \in KBs, NEW from \in -1..MaxTime, NEW reindex \in BOOLEAN, FreeIds(k) # {}
  PROVE  /\ NewLog(k, from, reindex) \in Log
         /\ NewLog(k, from, reindex).status = "SCHEDULE" /\ NewLog(k, from, reindex).end = Null
         /\ NewLog(k, from, reindex).start = from /\ NewLog(k, from, reindex).reindex = reindex
<1>1. (CHOOSE i \in FreeIds(k) : TRUE) \in Ids
  BY DEF FreeIds
<1>2. Null \in -1..MaxTime /\ "SCHEDULE" \in Statuses
  BY SyncAssumption DEF Null, Statuses
<1> QED BY <1>1, <1>2 DEF NewLog, Log

LEMMA AddedType ==
  ASSUME NEW s \in Seq(Log), NEW l \in Log
  PROVE  Seen(Append(s, l)) \in Seq(Log)
<1>1. Append(s, l) \in Seq(Log)
  BY AppendProperties
<1> QED BY <1>1, SeenType

Adds(k, from, reindex) ==
  \E l \in Log : /\ l.status = "SCHEDULE" /\ l.end = Null /\ l.start = from /\ l.reindex = reindex
                 /\ logs'[k] = Seen(Append(logs[k], l))

(* SyncLogsService.schedule leaves the logs alone or adds one.             *)
LEMMA ScheduleFacts ==
  ASSUME TypeOK, NEW k \in KBs, NEW from \in -1..MaxTime, NEW reindex \in BOOLEAN,
         schedule(k, from, reindex)
  PROVE  /\ logs' \in [KBs -> Seq(Log)] /\ conn' \in Statuses \cup {"removed"}
         /\ \A j \in KBs : j # k => logs'[j] = logs[j]
         /\ \/ Scheduled(logs[k]) # {} /\ logs'[k] = logs[k]
            \/ /\ Scheduled(logs[k]) = {}
               /\ Adds(k, from, reindex)
<1>1. CASE Scheduled(logs[k]) # {}
  BY <1>1 DEF schedule, TypeOK
<1>2. CASE Scheduled(logs[k]) = {}
  <2> DEFINE l == NewLog(k, from, reindex)
  <2>1. FreeIds(k) # {} /\ logs' = [logs EXCEPT ![k] = Seen(Append(@, l))] /\ SetConn("SCHEDULE")
    BY <1>2 DEF schedule
  <2>2. /\ l \in Log /\ l.status = "SCHEDULE" /\ l.end = Null /\ l.start = from
        /\ l.reindex = reindex
    BY <2>1, NewLogType
  <2> HIDE DEF l
  <2>3. logs[k] \in Seq(Log) /\ logs \in [KBs -> Seq(Log)]
    BY DEF TypeOK
  <2>4. Seen(Append(logs[k], l)) \in Seq(Log)
    BY <2>2, <2>3, AddedType
  <2>5. conn' \in Statuses \cup {"removed"}
    BY <2>1 DEF SetConn, TypeOK, Statuses
  <2>6. /\ logs' \in [KBs -> Seq(Log)] /\ \A j \in KBs : j # k => logs'[j] = logs[j]
        /\ logs'[k] = Seen(Append(logs[k], l))
    BY <2>1, <2>3, <2>4
  <2>7. Adds(k, from, reindex)
    BY <2>2, <2>6 DEF Adds
  <2> QED BY <1>2, <2>5, <2>6, <2>7
<1> QED BY <1>1, <1>2

LEMMA StatusType ==
  ASSUME TypeOK, NEW k \in KBs, NEW id, NEW status \in Statuses,
         logs' = [logs EXCEPT ![k] = WithStatus(@, id, status)]
  PROVE  /\ logs' \in [KBs -> Seq(Log)] /\ logs'[k] = WithStatus(logs[k], id, status)
         /\ \A j \in KBs : j # k => logs'[j] = logs[j]
<1>1. logs \in [KBs -> Seq(Log)]
  BY DEF TypeOK
<1>2. WithStatus(logs[k], id, status) \in Seq(Log)
  BY <1>1, WithStatusType
<1> QED BY <1>1, <1>2

Again(K) == [k \in KBs |-> IF k \in K
                           THEN WithStatus(logs[k], get_latest_task(k).id, "SCHEDULE") ELSE logs[k]]

Idle == {k \in linked : logs[k] = <<>> \/ get_latest_task(k).status = "DONE"}

LEMMA AgainType ==
  ASSUME TypeOK, NEW K
  PROVE  Again(K) \in [KBs -> Seq(Log)]
<1>1. \A k \in KBs : logs[k] \in Seq(Log)
  BY DEF TypeOK
<1>2. ASSUME NEW k \in KBs PROVE WithStatus(logs[k], get_latest_task(k).id, "SCHEDULE") \in Seq(Log)
  <2>1. "SCHEDULE" \in Statuses
    BY DEF Statuses
  <2> QED BY <1>1, <2>1, WithStatusType
<1> QED BY <1>1, <1>2 DEF Again

LEMMA CanceledType ==
  ASSUME TypeOK, Canceled
  PROVE  logs' \in [KBs -> Seq(Log)]
<1>1. \A k \in KBs : logs[k] \in Seq(Log)
  BY DEF TypeOK
<1>2. ASSUME NEW k \in KBs PROVE WithStatus(logs[k], get_latest_task(k).id, "CANCEL") \in Seq(Log)
  <2>1. "CANCEL" \in Statuses
    BY DEF Statuses
  <2> QED BY <1>1, <2>1, WithStatusType
<1> QED BY <1>1, <1>2 DEF Canceled

(* resume: each knowledge base keeps its log, has it scheduled once more,  *)
(* or gets a new one.                                                      *)
LEMMA ResumeFacts ==
  ASSUME TypeOK, resume
  PROVE  /\ logs' \in [KBs -> Seq(Log)]
         /\ \A k \in KBs :
              \/ logs'[k] = logs[k]
              \/ k \in linked /\ logs[k] # <<>> /\ get_latest_task(k).status # "DONE"
                 /\ logs'[k] = WithStatus(logs[k], get_latest_task(k).id, "SCHEDULE")
              \/ k \in Idle /\ Scheduled(logs[k]) = {}
                 /\ \E l \in Log : /\ l.status = "SCHEDULE" /\ l.end = Null /\ ~ l.reindex
                                   /\ l.start = IF logs[k] = <<>> THEN Null ELSE get_latest_task(k).end
                                   /\ logs'[k] = Seen(Append(logs[k], l))
<1>1. \A k \in KBs : logs[k] \in Seq(Log)
  BY DEF TypeOK
<1>2. linked \subseteq KBs /\ Idle \subseteq linked
  BY DEF TypeOK, Idle
<1>3. \/ Idle = {} /\ logs' = Again(linked)
      \/ \E k \in Idle, K \in SUBSET (linked \ Idle) :
           /\ FreeIds(k) # {}
           /\ logs' = [Again(K) EXCEPT ![k] =
                 IF Scheduled(@) # {} THEN @
                 ELSE Seen(Append(@, NewLog(k, IF logs[k] = <<>> THEN Null ELSE get_latest_task(k).end,
                                            FALSE)))]
  BY DEF resume, Idle, Again
<1>4. CASE Idle = {} /\ logs' = Again(linked)
  <2>1. logs' \in [KBs -> Seq(Log)]
    BY <1>4, AgainType
  <2>2. \A k \in KBs : \/ logs'[k] = logs[k]
                       \/ /\ k \in linked /\ k \notin Idle
                          /\ logs'[k] = WithStatus(logs[k], get_latest_task(k).id, "SCHEDULE")
    BY <1>4 DEF Again
  <2> QED BY <2>1, <2>2 DEF Idle
<1>5. ASSUME NEW k \in Idle, NEW K \in SUBSET (linked \ Idle), FreeIds(k) # {},
             logs' = [Again(K) EXCEPT ![k] =
                 IF Scheduled(@) # {} THEN @
                 ELSE Seen(Append(@, NewLog(k, IF logs[k] = <<>> THEN Null ELSE get_latest_task(k).end,
                                            FALSE)))]
      PROVE  /\ logs' \in [KBs -> Seq(Log)]
             /\ \A j \in KBs : j # k => \/ logs'[j] = logs[j]
                                        \/ /\ j \in linked /\ j \notin Idle
                                           /\ logs'[j] = WithStatus(logs[j], get_latest_task(j).id, "SCHEDULE")
             /\ \/ logs'[k] = logs[k]
                \/ /\ Scheduled(logs[k]) = {}
                   /\ \E l \in Log : /\ l.status = "SCHEDULE" /\ l.end = Null /\ ~ l.reindex
                                     /\ l.start = IF logs[k] = <<>> THEN Null ELSE get_latest_task(k).end
                                     /\ logs'[k] = Seen(Append(logs[k], l))
  <2> DEFINE from == IF logs[k] = <<>> THEN Null ELSE get_latest_task(k).end
             l == NewLog(k, from, FALSE)
  <2>1. k \in KBs /\ k \notin K /\ Again(K) \in [KBs -> Seq(Log)]
    BY <1>2, AgainType
  <2>2. Again(K)[k] = logs[k]
    BY <2>1 DEF Again
  <2>3. from \in -1..MaxTime
    <3>1. CASE logs[k] = <<>>
      BY <3>1, SyncAssumption DEF Null
    <3>2. CASE logs[k] # <<>>
      <4>1. logs[k][Len(logs[k])] \in Log
        BY <1>1, <2>1, <3>2, EmptySeq, LenProperties
      <4> QED BY <3>2, <4>1 DEF Log, get_latest_task
    <3> QED BY <3>1, <3>2
  <2> HIDE DEF from
  <2>4. l \in Log /\ l.status = "SCHEDULE" /\ l.end = Null /\ l.reindex = FALSE /\ l.start = from
    BY <1>5, <2>1, <2>3, NewLogType
  <2>5. logs' = [Again(K) EXCEPT ![k] = IF Scheduled(@) # {} THEN @ ELSE Seen(Append(@, l))]
    BY <1>5 DEF from
  <2> HIDE DEF l
  <2>6. Seen(Append(logs[k], l)) \in Seq(Log) /\ logs[k] \in Seq(Log)
    BY <1>1, <2>1, <2>4, AddedType
  <2>7. /\ logs' \in [KBs -> Seq(Log)] /\ \A j \in KBs : j # k => logs'[j] = Again(K)[j]
        /\ logs'[k] = IF Scheduled(logs[k]) # {} THEN logs[k] ELSE Seen(Append(logs[k], l))
    BY <2>1, <2>2, <2>5, <2>6
  <2>8. \A j \in KBs : \/ Again(K)[j] = logs[j]
                       \/ /\ j \in linked /\ j \notin Idle
                          /\ Again(K)[j] = WithStatus(logs[j], get_latest_task(j).id, "SCHEDULE")
    BY DEF Again
  <2>9. \A j \in KBs : j # k => \/ logs'[j] = logs[j]
                                \/ /\ j \in linked /\ j \notin Idle
                                   /\ logs'[j] = WithStatus(logs[j], get_latest_task(j).id, "SCHEDULE")
    BY <2>7, <2>8
  <2>10. \/ logs'[k] = logs[k]
         \/ /\ Scheduled(logs[k]) = {}
            /\ \E m \in Log : /\ m.status = "SCHEDULE" /\ m.end = Null /\ ~ m.reindex
                              /\ m.start = from /\ logs'[k] = Seen(Append(logs[k], m))
    BY <2>4, <2>7
  <2> QED BY <2>7, <2>9, <2>10 DEF from
<1>6. \A j \in linked : j \notin Idle => logs[j] # <<>> /\ get_latest_task(j).status # "DONE"
  BY DEF Idle
<1> QED BY <1>3, <1>4, <1>5, <1>6

(* What a batch makes of a log.                                            *)
Ranged(l, batch) ==
  [l EXCEPT !.start = Smallest((batch \cup {@}) \ {Null}), !.end = Largest(batch \cup {@})]

LEMMA RangedFacts ==
  ASSUME NEW l \in Log, NEW batch \in SUBSET Times, batch # {}
  PROVE  /\ Ranged(l, batch) \in Log /\ Ranged(l, batch).id = l.id
         /\ Ranged(l, batch).status = l.status /\ Ranged(l, batch).reindex = l.reindex
         /\ Ranged(l, batch).start # Null /\ Ranged(l, batch).start \in batch \cup {l.start}
         /\ l.start # Null => Ranged(l, batch).start <= l.start
         /\ Ranged(l, batch).end \in batch \cup {l.end}
<1> DEFINE S == (batch \cup {l.start}) \ {Null}
           E == batch \cup {l.end}
<1>1. MaxTime \in Int /\ -1 \in Int /\ Times \subseteq -1..MaxTime /\ Null \notin Times
  BY SyncAssumption DEF Times, Null
<1>2. l.start \in -1..MaxTime /\ l.end \in -1..MaxTime
  BY DEF Log
<1>3. S \in SUBSET (-1..MaxTime) /\ S # {} /\ E \in SUBSET (-1..MaxTime) /\ E # {}
  BY <1>1, <1>2
<1> HIDE DEF S, E
<1>4. Smallest(S) \in S /\ (\A y \in S : Smallest(S) <= y) /\ Largest(E) \in E
  BY <1>1, <1>3, SmallestIs, LargestIs
<1>5. l.start # Null => l.start \in S
  BY DEF S
<1>6. Ranged(l, batch) = [l EXCEPT !.start = Smallest(S), !.end = Largest(E)]
  BY DEF Ranged, S, E, Log
<1>7. Smallest(S) \in -1..MaxTime /\ Largest(E) \in -1..MaxTime
  BY <1>3, <1>4
<1>8. /\ Ranged(l, batch) \in Log /\ Ranged(l, batch).id = l.id
      /\ Ranged(l, batch).status = l.status /\ Ranged(l, batch).reindex = l.reindex
      /\ Ranged(l, batch).start = Smallest(S) /\ Ranged(l, batch).end = Largest(E)
  BY <1>6, <1>7 DEF Log
<1>9. Smallest(S) # Null /\ Smallest(S) \in batch \cup {l.start} /\ Largest(E) \in batch \cup {l.end}
  BY <1>4 DEF S, E
<1> QED BY <1>4, <1>5, <1>8, <1>9

LEMMA NextUpdate ==
  ASSUME TypeOK, NEW batch \in SUBSET todo
  PROVE  /\ Largest(batch \cup {next_update}) \in batch \cup {next_update}
         /\ Largest(batch \cup {next_update}) \in 0..MaxTime
<1> DEFINE S == batch \cup {next_update}
<1>1. S \in SUBSET (0..MaxTime) /\ S # {} /\ 0 \in Int /\ MaxTime \in Int
  BY SyncAssumption DEF TypeOK, Times
<1> HIDE DEF S
<1>2. Largest(S) \in S
  BY <1>1, LargestIs
<1> QED BY <1>1, <1>2 DEF S

LEMMA IncreaseType ==
  ASSUME NEW s \in Seq(Log), NEW id, NEW batch \in SUBSET Times, batch # {}
  PROVE  increase_docs(s, id, batch) \in Seq(Log)
<1>1. id \in Held(s) => Ranged(LogOf(s, id), batch) \in Log
  BY FoundLog, RangedFacts
<1>2. increase_docs(s, id, batch) = Updated(s, id, Ranged(LogOf(s, id), batch))
  BY DEF increase_docs, Ranged
<1> QED BY <1>1, <1>2, UpdatedType

(* What one statement leaves of the types of the others.                   *)
LEMMA TypeNext ==
  ASSUME TypeOK, Next
  PROVE  TypeOK'
<1> USE SyncAssumption DEF sourceVars, ghosts, taskVars
<1>1. CASE source_updates
  BY <1>1 DEF source_updates, TypeOK
<1>2. ASSUME NEW k \in KBs, link(k) PROVE TypeOK'
  <2>1. Null \in -1..MaxTime
    BY DEF Null
  <2>2. logs' \in [KBs -> Seq(Log)] /\ conn' \in Statuses \cup {"removed"}
    BY <1>2, <2>1, ScheduleFacts DEF link
  <2> QED BY <1>2, <2>2 DEF link, TypeOK
<1>3. ASSUME NEW k \in KBs, unlink(k) PROVE TypeOK'
  <2>1. logs' \in [KBs -> Seq(Log)]
    <3> DEFINE s == logs[k]
               u == [i \in DOMAIN s |-> IF s[i].status \in Open
                                        THEN [s[i] EXCEPT !.status = "CANCEL"] ELSE s[i]]
    <3>1. s \in Seq(Log) /\ Len(s) \in Nat /\ DOMAIN s = 1..Len(s)
      BY LenProperties DEF TypeOK
    <3>2. \A i \in 1..Len(s) : s[i] \in Log
      BY <3>1
    <3> HIDE DEF s
    <3>3. \A i \in 1..Len(s) : u[i] \in Log
      BY <3>1, <3>2 DEF Log, Statuses
    <3>4. u \in Seq(Log)
      <4>1. u \in [1..Len(s) -> Log]
        BY <3>1, <3>3
      <4> QED BY <3>1, <4>1, SeqDef
    <3>5. logs' = [logs EXCEPT ![k] = u]
      BY <1>3 DEF unlink, s
    <3> HIDE DEF u
    <3> QED BY <3>4, <3>5 DEF TypeOK
  <2>2. requests' \in 0..MaxRequests /\ disturbed' \in BOOLEAN
    BY <1>3 DEF unlink, Requested, TypeOK
  <2>3. meddled' \in SUBSET KBs /\ linked' \in SUBSET KBs
    BY <1>3 DEF unlink, Meddles, TypeOK
  <2> QED BY <1>3, <2>1, <2>2, <2>3 DEF unlink, TypeOK
<1>4. ASSUME NEW k \in KBs, rebuild(k) PROVE TypeOK'
  <2>1. <<NewLog(k, Null, TRUE)>> \in Seq(Log)
    <3>1. Null \in -1..MaxTime
      BY DEF Null
    <3> DEFINE l == NewLog(k, Null, TRUE)
    <3>2. l \in Log
      BY <1>4, <3>1, NewLogType DEF rebuild
    <3> HIDE DEF l
    <3>3. <<l>> \in Seq(Log)
      BY <3>2
    <3> QED BY <3>3 DEF l
  <2>2. logs' \in [KBs -> Seq(Log)]
    BY <1>4, <2>1 DEF rebuild, TypeOK
  <2>3. requests' \in 0..MaxRequests /\ disturbed' \in BOOLEAN /\ meddled' \in SUBSET KBs
    BY <1>4 DEF rebuild, Requested, Meddles, TypeOK
  <2>4. offered' \in [KBs -> SUBSET Times] /\ dropped' \in [KBs -> SUBSET Times]
    BY <1>4 DEF rebuild, TypeOK
  <2> QED BY <1>4, <2>2, <2>3, <2>4 DEF rebuild, TypeOK, Statuses
<1>5. CASE resume
  <2>1. logs' \in [KBs -> Seq(Log)]
    BY <1>5, ResumeFacts
  <2>2. requests' \in 0..MaxRequests /\ disturbed' \in BOOLEAN
    BY <1>5 DEF resume, Requested, TypeOK
  <2>3. /\ conn' = "SCHEDULE"
        /\ UNCHANGED <<sourceVars, linked, taskVars, faults, meddled, half>>
    BY <1>5 DEF resume
  <2> QED BY <2>1, <2>2, <2>3 DEF TypeOK, Statuses
<1>6. CASE cancel
  <2>1. logs' \in [KBs -> Seq(Log)]
    BY <1>6, CanceledType DEF cancel
  <2>2. requests' \in 0..MaxRequests /\ disturbed' \in BOOLEAN
    BY <1>6 DEF cancel, Requested, TypeOK
  <2> QED BY <1>6, <2>1, <2>2 DEF cancel, TypeOK, Statuses
<1>7. CASE rm_connector
  <2>1. logs' \in [KBs -> Seq(Log)]
    BY <1>7, CanceledType DEF rm_connector
  <2>2. requests' \in 0..MaxRequests /\ disturbed' \in BOOLEAN
    BY <1>7 DEF rm_connector, Requested, TypeOK
  <2> QED BY <1>7, <2>1, <2>2 DEF rm_connector, TypeOK, Statuses
<1>8. CASE dispatch_tasks
  <2>1. ASSUME NEW k \in linked, NEW i \in Scheduled(logs[k]) PROVE TaskOf(k, logs[k][i]) \in Task
    <3>1. k \in KBs /\ logs[k] \in Seq(Log) /\ i \in DOMAIN logs[k]
      BY <2>1 DEF TypeOK, Scheduled
    <3>2. logs[k][i] \in Log
      BY <3>1
    <3> QED BY <3>1, <3>2 DEF TaskOf, Task, Log
  <2>2. round' \in SUBSET Task
    BY <1>8, <2>1 DEF dispatch_tasks
  <2> QED BY <1>8, <2>2 DEF dispatch_tasks, TypeOK
<1>9. ASSUME NEW t \in round, start(t) PROVE TypeOK'
  <2>1. t \in Task /\ t.kb \in KBs /\ t # NoTask /\ t.start \in -1..MaxTime
    BY <1>9, TaskKb DEF Task
  <2>2. "RUNNING" \in Statuses
    BY DEF Statuses
  <2>3. logs' \in [KBs -> Seq(Log)]
    BY <1>9, <2>1, <2>2, StatusType DEF start
  <2>4. conn' \in Statuses \cup {"removed"}
    BY <1>9 DEF start, SetConn, TypeOK, Statuses
  <2>5. todo' \in SUBSET Times
    BY <1>9 DEF start, TypeOK, Times
  <2>6. next_update' \in 0..MaxTime
    BY <1>9, <2>1 DEF start, Null, Epoch
  <2>7. half' \in SUBSET KBs /\ round' \in SUBSET Task
    BY <1>9, <2>1 DEF start, TypeOK
  <2> QED BY <1>9, <2>1, <2>3, <2>4, <2>5, <2>6, <2>7 DEF start, TypeOK
<1>10. CASE batch_synced
  <2>1. PICK batch \in (SUBSET todo) \ {{}} :
          /\ todo' = todo \ batch /\ next_update' = Largest(batch \cup {next_update})
          /\ offered' = [offered EXCEPT ![task.kb] = @ \cup batch]
          /\ logs' = [logs EXCEPT ![task.kb] = increase_docs(@, task.id, batch)]
    BY <1>10 DEF batch_synced
  <2>2. task.kb \in KBs /\ batch \in SUBSET Times /\ batch # {} /\ batch \in SUBSET todo
    BY <1>10, TaskKb DEF batch_synced, TypeOK
  <2>3. logs[task.kb] \in Seq(Log)
    BY <2>2 DEF TypeOK
  <2>4. increase_docs(logs[task.kb], task.id, batch) \in Seq(Log)
    BY <2>2, <2>3, IncreaseType
  <2>5. logs' \in [KBs -> Seq(Log)] /\ offered' \in [KBs -> SUBSET Times]
    BY <2>1, <2>2, <2>4 DEF TypeOK
  <2>6. next_update' \in 0..MaxTime /\ todo' \in SUBSET Times
    BY <2>1, <2>2, NextUpdate DEF TypeOK
  <2> QED BY <1>10, <2>5, <2>6 DEF batch_synced, TypeOK
<1>11. CASE done
  <2>1. task.kb \in KBs /\ "DONE" \in Statuses
    BY <1>11, TaskKb DEF done, Statuses
  <2>2. logs' \in [KBs -> Seq(Log)]
    BY <1>11, <2>1, StatusType DEF done
  <2>3. conn' \in Statuses \cup {"removed"} /\ half' \in SUBSET KBs
    BY <1>11 DEF done, SetConn, TypeOK, Statuses
  <2> QED BY <1>11, <2>2, <2>3 DEF done, TypeOK
<1>12. CASE schedule_next
  <2>1. task.kb \in KBs /\ next_update \in -1..MaxTime
    BY <1>12, TaskKb DEF schedule_next, TypeOK
  <2>2. logs' \in [KBs -> Seq(Log)] /\ conn' \in Statuses \cup {"removed"}
    BY <1>12, <2>1, ScheduleFacts DEF schedule_next
  <2> QED BY <1>12, <2>2 DEF schedule_next, TypeOK, Epoch
<1>13. CASE batch_fails
  <2>1. PICK batch \in (SUBSET todo) \ {{}} :
          /\ todo' = todo \ batch /\ next_update' = Largest(batch \cup {next_update})
          /\ dropped' = [dropped EXCEPT ![task.kb] = @ \cup batch]
    BY <1>13 DEF batch_fails
  <2>2. task.kb \in KBs /\ batch \in SUBSET Times /\ batch \in SUBSET todo
    BY <1>13, TaskKb DEF batch_fails, TypeOK
  <2>3. dropped' \in [KBs -> SUBSET Times]
    BY <2>1, <2>2 DEF TypeOK
  <2>4. next_update' \in 0..MaxTime /\ todo' \in SUBSET Times
    BY <2>1, <2>2, NextUpdate DEF TypeOK
  <2> QED BY <1>13, <2>3, <2>4 DEF batch_fails, TypeOK
<1>14. CASE task_fails
  <2>1. task.kb \in KBs /\ "FAIL" \in Statuses
    BY <1>14, TaskKb DEF task_fails, Statuses
  <2>2. logs' \in [KBs -> Seq(Log)]
    BY <1>14, <2>1, StatusType DEF task_fails
  <2> QED BY <1>14, <2>2 DEF task_fails, TypeOK, Epoch
<1>15. CASE crash
  BY <1>15 DEF crash, TypeOK, Epoch
<1> QED BY <1>1, <1>2, <1>3, <1>4, <1>5, <1>6, <1>7, <1>8, <1>9, <1>10, <1>11, <1>12, <1>13, <1>14,
           <1>15 DEF Next, Users, Service

-----------------------------------------------------------------------------
(* The users.                                                              *)

KbsInv == \A k \in KBs \ meddled : KbInv(k)

LEMMA Untouched ==
  ASSUME NEW k, logs'[k] = logs[k]
  PROVE  Still(k)
BY DEF Still, Same

(* A knowledge base a step has nothing to do with.                         *)
LEMMA Unconcerned ==
  ASSUME TypeOK, TypeOK', NEW k \in KBs, KbInv(k), logs'[k] = logs[k], now <= now',
         k \in linked' <=> k \in linked,
         UNCHANGED <<round, task, at, todo, next_update>>,
         offered'[k] = offered[k], dropped'[k] = dropped[k], half' = half
  PROVE  KbInv(k)'
<1>1. Still(k)
  BY Untouched
<1>2. k \notin linked' => ~ Busy(k)' /\ \A i \in DOMAIN logs[k] : logs'[k][i].status \notin Open
  BY DEF KbInv, Busy
<1>3. \A t \in round' : t.kb = k => t \in round /\ (task' # NoTask => task'.kb # k)
  BY DEF KbInv, Waits
<1>4. at' = "schedule" /\ task'.kb = k => \A i \in DOMAIN logs[k] : logs'[k][i].status # "RUNNING"
  BY DEF KbInv
<1> QED BY <1>1, <1>2, <1>3, <1>4, Frame

LEMMA SourceKeeps ==
  ASSUME SyncInv, TypeOK', source_updates
  PROVE  KbsInv'
<1> USE DEF sourceVars, ghosts, taskVars
<1> SUFFICES ASSUME NEW k \in KBs \ meddled' PROVE KbInv(k)'
  BY DEF KbsInv
<1>1. now <= now' /\ k \in KBs \ meddled
  BY DEF source_updates, SyncInv, TypeOK
<1> QED BY <1>1, Unconcerned DEF source_updates, SyncInv

LEMMA LinkKeeps ==
  ASSUME SyncInv, TypeOK', NEW k \in KBs, link(k)
  PROVE  KbsInv'
<1> USE DEF sourceVars, ghosts, taskVars
<1>0. TypeOK /\ Null \in -1..MaxTime
  BY SyncAssumption DEF SyncInv, Null
<1>1. /\ \A j \in KBs : j # k => logs'[j] = logs[j]
      /\ \/ Scheduled(logs[k]) # {} /\ logs'[k] = logs[k]
         \/ /\ Scheduled(logs[k]) = {}
            /\ Adds(k, Null, TRUE)
  <2>1. schedule(k, Null, TRUE) /\ TRUE \in BOOLEAN
    BY DEF link
  <2> QED BY <1>0, <2>1, ScheduleFacts
<1>2. ASSUME NEW j \in KBs \ meddled', j # k PROVE KbInv(j)'
  <2>1. logs'[j] = logs[j] /\ KbInv(j) /\ j \in KBs
    BY <1>1, <1>2 DEF link, SyncInv
  <2>2. /\ now <= now' /\ (j \in linked' <=> j \in linked) /\ half' = half
        /\ UNCHANGED <<round, task, at, todo, next_update, offered, dropped>>
    BY <1>0, <1>2 DEF link, TypeOK
  <2> QED BY <1>0, <2>1, <2>2, Unconcerned
<1>3. ASSUME k \notin meddled' PROVE KbInv(k)'
  <2>1. KbInv(k) /\ k \notin linked
    BY <1>3 DEF link, SyncInv
  <2>2. ~ Busy(k) /\ \A i \in DOMAIN logs[k] : logs[k][i].status \notin Open
    BY <2>1 DEF KbInv
  <2>3. Scheduled(logs[k]) = {}
    BY <2>2 DEF Scheduled, Open
  <2>4. PICK l \in Log : /\ l.status = "SCHEDULE" /\ l.end = Null /\ l.start = Null
                         /\ logs'[k] = Seen(Append(logs[k], l))
    BY <1>1, <2>3 DEF Adds
  <2>5. logs[k] \in Seq(Log) /\ Len(logs[k]) <= 1
    BY <1>0, <2>1 DEF TypeOK, KbInv
  <2>6. logs'[k] = <<l>>
    BY <2>2, <2>4, <2>5, SeenAdded
  <2>7. Full(l) /\ l.start <= now'
    BY <1>0, <2>4, SyncAssumption DEF Full, Null, link, TypeOK
  <2>8. (\A t \in round' : t.kb # k) /\ (at' # "idle" => task'.kb # k)
    BY <1>0, <2>2, TaskKb DEF Busy, link
  <2>9. k \in linked'
    BY DEF link
  <2>10. at' = "batches" \/ at' = "schedule" => task'.kb # k
    BY <2>8
  <2> QED BY <2>4, <2>6, <2>7, <2>8, <2>9, <2>10, Fresh
<1> QED BY <1>2, <1>3 DEF KbsInv

LEMMA UnlinkKeeps ==
  ASSUME SyncInv, TypeOK', NEW k \in KBs, unlink(k)
  PROVE  KbsInv'
<1> USE DEF sourceVars, ghosts, taskVars
<1>0. TypeOK /\ meddled \subseteq meddled'
  BY DEF SyncInv, unlink, Meddles
<1>1. ASSUME NEW j \in KBs \ meddled', j # k PROVE KbInv(j)'
  <2>1. logs'[j] = logs[j] /\ KbInv(j)
    BY <1>0, <1>1 DEF unlink, TypeOK, SyncInv
  <2>2. /\ now <= now' /\ (j \in linked' <=> j \in linked) /\ half' = half /\ j \in KBs
        /\ UNCHANGED <<round, task, at, todo, next_update>>
    BY <1>0, <1>1 DEF unlink, TypeOK
  <2>3. offered'[j] = offered[j] /\ dropped'[j] = dropped[j]
    BY <1>0, <1>1, <2>1 DEF unlink
  <2> QED BY <1>0, <2>1, <2>2, <2>3, Unconcerned
<1>2. ASSUME k \notin meddled' PROVE KbInv(k)'
  <2>1. KbInv(k) /\ ~ Busy(k)
    BY <1>0, <1>2 DEF unlink, Meddles, SyncInv
  <2>2. /\ DOMAIN logs'[k] = DOMAIN logs[k]
        /\ \A i \in DOMAIN logs[k] :
             logs'[k][i] = IF logs[k][i].status \in Open
                           THEN [logs[k][i] EXCEPT !.status = "CANCEL"] ELSE logs[k][i]
    BY <1>0 DEF unlink, TypeOK
  <2>3. /\ \A i \in DOMAIN logs[k] : logs[k][i] \in Log
        /\ DOMAIN logs[k] = 1..Len(logs[k]) /\ Len(logs[k]) \in Nat
        /\ DOMAIN logs'[k] = 1..Len(logs'[k]) /\ Len(logs'[k]) \in Nat
    <3>1. logs[k] \in Seq(Log) /\ logs'[k] \in Seq(Log)
      BY <1>0 DEF TypeOK
    <3> QED BY <3>1, LenProperties
  <2>4. Len(logs'[k]) = Len(logs[k])
    BY <2>2, <2>3
  <2>5. ASSUME NEW i \in DOMAIN logs[k]
        PROVE  /\ Same(logs'[k][i], logs[k][i]) /\ logs'[k][i].status \notin Open
               /\ logs'[k][i].status = logs[k][i].status \/ logs'[k][i].status # "DONE"
    BY <2>2, <2>3 DEF Same, Log, Open
  <2>6. Still(k)
    BY <2>4, <2>5 DEF Still
  <2>7. ~ Busy(k)' /\ (\A t \in round' : t.kb # k) /\ (at' # "idle" => task'.kb # k)
    BY <1>0, <2>1, TaskKb DEF Busy, unlink
  <2>8. /\ k \notin linked' => ~ Busy(k)' /\ \A i \in DOMAIN logs[k] : logs'[k][i].status \notin Open
        /\ \A t \in round' : t.kb = k => t \in round /\ (task' # NoTask => task'.kb # k)
        /\ at' = "batches" => task'.kb # k
        /\ at' = "schedule" => task'.kb # k
    BY <2>5, <2>7
  <2>9. now <= now' /\ UNCHANGED <<offered, dropped, half>>
    BY <1>0 DEF unlink, TypeOK
  <2> QED BY <1>0, <2>1, <2>6, <2>8, <2>9, Frame
<1> QED BY <1>1, <1>2 DEF KbsInv

LEMMA RebuildKeeps ==
  ASSUME SyncInv, TypeOK', NEW k \in KBs, rebuild(k)
  PROVE  KbsInv'
<1> USE DEF sourceVars, ghosts, taskVars
<1>0. TypeOK /\ meddled \subseteq meddled'
  BY DEF SyncInv, rebuild, Meddles
<1>1. ASSUME NEW j \in KBs \ meddled', j # k PROVE KbInv(j)'
  <2>1. logs'[j] = logs[j] /\ offered'[j] = offered[j] /\ dropped'[j] = dropped[j] /\ KbInv(j)
    BY <1>0, <1>1 DEF rebuild, TypeOK, SyncInv
  <2>2. /\ now <= now' /\ (j \in linked' <=> j \in linked) /\ half' = half /\ j \in KBs
        /\ UNCHANGED <<round, task, at, todo, next_update>>
    BY <1>0, <1>1 DEF rebuild, TypeOK
  <2>3. offered'[j] = offered[j] /\ dropped'[j] = dropped[j]
    BY <1>0, <1>1, <2>1 DEF rebuild
  <2> QED BY <1>0, <2>1, <2>2, <2>3, Unconcerned
<1>2. ASSUME k \notin meddled' PROVE KbInv(k)'
  <2> DEFINE l == NewLog(k, Null, TRUE)
  <2>1. ~ Busy(k)
    BY <1>0, <1>2 DEF rebuild, Meddles
  <2>2. Null \in -1..MaxTime /\ FreeIds(k) # {}
    BY SyncAssumption DEF Null, rebuild
  <2>3. /\ l \in Log /\ l.status = "SCHEDULE" /\ l.end = Null /\ l.start = Null
        /\ l.reindex = TRUE
    BY <2>2, NewLogType
  <2>4. logs'[k] = <<l>>
    BY <1>0 DEF rebuild, TypeOK
  <2> HIDE DEF l
  <2>5. Full(l) /\ l.start <= now'
    BY <1>0, <2>3, SyncAssumption DEF Full, Null, rebuild, TypeOK
  <2>6. (\A t \in round' : t.kb # k) /\ (at' # "idle" => task'.kb # k)
    BY <1>0, <2>1, TaskKb DEF Busy, rebuild
  <2>7. k \in linked'
    BY DEF rebuild
  <2>8. at' = "batches" \/ at' = "schedule" => task'.kb # k
    BY <2>6
  <2> QED BY <2>3, <2>4, <2>5, <2>6, <2>7, <2>8, Fresh
<1> QED BY <1>1, <1>2 DEF KbsInv

(* A new status for the log of a knowledge base, from a user.              *)
LEMMA Restated ==
  ASSUME TypeOK, TypeOK', NEW k \in KBs, KbInv(k), k \in linked, NEW id,
         NEW status \in {"SCHEDULE", "CANCEL"}, logs'[k] = WithStatus(logs[k], id, status),
         UNCHANGED <<sourceVars, linked, taskVars, half>>
  PROVE  KbInv(k)'
<1> USE DEF sourceVars, taskVars
<1>1. logs[k] \in Seq(Log) /\ Len(logs[k]) <= 1 /\ status \in Statuses
  BY DEF TypeOK, KbInv, Statuses
<1>2. /\ Len(logs'[k]) = Len(logs[k])
      /\ \A i \in DOMAIN logs[k] :
           /\ Same(logs'[k][i], logs[k][i])
           /\ logs'[k][i].status = IF logs[k][i].id = id THEN status ELSE logs[k][i].status
  BY <1>1, WithStatusOnly
<1>3. Still(k)
  BY <1>2 DEF Still
<1>4. at' = "schedule" /\ task'.kb = k => \A i \in DOMAIN logs[k] : logs'[k][i].status # "RUNNING"
  BY <1>2 DEF KbInv
<1>5. \A t \in round' : t.kb = k => t \in round /\ (task' # NoTask => task'.kb # k)
  BY DEF KbInv, Waits
<1>6. now <= now' /\ k \in linked'
  BY DEF TypeOK
<1> QED BY <1>3, <1>4, <1>5, <1>6, Frame

LEMMA CanceledKeeps ==
  ASSUME SyncInv, TypeOK', Canceled, UNCHANGED <<sourceVars, linked, taskVars, meddled, half>>
  PROVE  KbsInv'
<1> USE DEF sourceVars, taskVars
<1> SUFFICES ASSUME NEW k \in KBs \ meddled' PROVE KbInv(k)'
  BY DEF KbsInv
<1>1. TypeOK /\ KbInv(k) /\ k \in KBs /\ now <= now'
  BY DEF SyncInv, TypeOK
<1>2. CASE k \in linked /\ logs[k] # <<>>
  <2>1. logs'[k] = WithStatus(logs[k], get_latest_task(k).id, "CANCEL")
    BY <1>1, <1>2 DEF Canceled
  <2> QED BY <1>1, <1>2, <2>1, Restated
<1>3. CASE ~ (k \in linked /\ logs[k] # <<>>)
  <2>1. logs'[k] = logs[k]
    BY <1>1, <1>3 DEF Canceled
  <2> QED BY <1>1, <2>1, Unconcerned
<1> QED BY <1>2, <1>3

LEMMA ResumeKeeps ==
  ASSUME SyncInv, TypeOK', resume
  PROVE  KbsInv'
<1> USE DEF sourceVars, taskVars
<1> SUFFICES ASSUME NEW k \in KBs \ meddled' PROVE KbInv(k)'
  BY DEF KbsInv
<1>1. UNCHANGED <<sourceVars, linked, taskVars, faults, meddled, half>>
  BY DEF resume
<1>2. TypeOK /\ KbInv(k) /\ k \in KBs /\ now <= now' /\ linked \subseteq KBs
  BY <1>1 DEF SyncInv, TypeOK
<1>3. CASE logs'[k] = logs[k]
  BY <1>1, <1>2, <1>3, Unconcerned
<1>4. CASE k \in linked /\ logs'[k] = WithStatus(logs[k], get_latest_task(k).id, "SCHEDULE")
  BY <1>1, <1>2, <1>4, Restated
<1>5. ASSUME k \in Idle,
             NEW l \in Log, l.status = "SCHEDULE", l.end = Null,
             l.start = (IF logs[k] = <<>> THEN Null ELSE get_latest_task(k).end),
             logs'[k] = Seen(Append(logs[k], l))
      PROVE  KbInv(k)'
  <2>1. logs[k] \in Seq(Log) /\ Len(logs[k]) <= 1 /\ DOMAIN logs[k] = 1..Len(logs[k]) /\ Len(logs[k]) \in Nat
    BY <1>2, TaskKb DEF KbInv
  <2>2. logs[k] # <<>> => Len(logs[k]) = 1 /\ get_latest_task(k) = logs[k][1]
    <3>1. logs[k] # <<>> => Len(logs[k]) # 0
      BY <2>1, EmptySeq
    <3> QED BY <2>1, <3>1, ZeroOrOne DEF get_latest_task
  <2>3. \A i \in DOMAIN logs[k] : logs[k][i].status = "DONE" /\ i = 1 /\ logs[k] # <<>>
    BY <1>5, <2>1, <2>2 DEF Idle
  <2>4. logs'[k] = <<l>>
    <3>1. \A i \in DOMAIN logs[k] : logs[k][i].status \notin Open
      BY <2>3 DEF Open
    <3> QED BY <1>5, <2>1, <3>1, SeenAdded
  <2>5. (\A t \in round' : t.kb # k) /\ (at' = "batches" => task'.kb # k)
    <3>1. Len(logs[k]) = 1 => logs[k][1].status = "DONE"
      BY <2>1, <2>3
    <3> QED BY <1>1, <1>2, <3>1 DEF KbInv, Waits, Runs
  <2>6. l.start <= now' /\ (k \notin half' /\ ~ Full(l) => Covered(k, l.start)')
    <3>1. CASE logs[k] = <<>>
      <4>1. l.start = Null
        BY <1>5, <3>1
      <4> QED BY <1>1, <1>2, <4>1, SyncAssumption DEF Null, Full, TypeOK
    <3>2. CASE logs[k] # <<>>
      <4>1. l.start = logs[k][1].end /\ 1 \in DOMAIN logs[k]
        BY <1>5, <2>1, <2>2, <3>2
      <4>2. logs[k][1].end <= now /\ (k \notin half => Truthful(k, logs[k][1]))
        BY <1>2, <4>1 DEF KbInv
      <4> QED BY <1>1, <2>3, <4>1, <4>2 DEF Truthful, Covered
    <3> QED BY <3>1, <3>2
  <2>7. k \in linked'
    BY <1>1, <1>5 DEF Idle
  <2>8. at' = "schedule" /\ task'.kb = k =>
          next_update' <= now' /\ (k \notin half' => Covered(k, next_update)')
    BY <1>1, <1>2 DEF KbInv, Covered
  <2> QED BY <1>2, <1>5, <2>4, <2>5, <2>6, <2>7, <2>8, Fresh
<1>6. TypeOK /\ resume
  BY <1>2
<1> QED BY <1>2, <1>3, <1>4, <1>5, <1>6, ResumeFacts

-----------------------------------------------------------------------------
(* The sync service.                                                       *)

LEMMA DispatchKeeps ==
  ASSUME SyncInv, TypeOK', dispatch_tasks
  PROVE  KbsInv'
<1> USE DEF sourceVars, ghosts
<1> SUFFICES ASSUME NEW k \in KBs \ meddled' PROVE KbInv(k)'
  BY DEF KbsInv
<1>1. /\ at = "idle" /\ task = NoTask /\ round = {}
      /\ UNCHANGED <<sourceVars, conn, linked, logs, task, at, todo, next_update, faults, ghosts>>
  BY DEF dispatch_tasks, SyncInv, TypeOK
<1>2. TypeOK /\ KbInv(k) /\ k \in KBs
  BY <1>1 DEF SyncInv
<1>3. ASSUME NEW t \in round', t.kb = k PROVE k \in linked /\ Waits(k, t)'
  <2>0. PICK j \in linked : \E i \in Scheduled(logs[j]) : t = TaskOf(j, logs[j][i])
    BY <1>3 DEF dispatch_tasks
  <2>1. PICK i \in Scheduled(logs[j]) : t = TaskOf(j, logs[j][i])
    BY <2>0
  <2>2. /\ j = k /\ t.id = logs[j][i].id /\ t.start = logs[j][i].start /\ t.reindex = logs[j][i].reindex
        /\ logs[j][i].status = "SCHEDULE" /\ i \in DOMAIN logs[j]
    BY <1>3, <2>1 DEF TaskOf, Scheduled
  <2>3. i = 1 /\ Len(logs[k]) = 1
    <3>1. Len(logs[k]) \in Nat /\ Len(logs[k]) <= 1 /\ i \in 1..Len(logs[k])
      BY <1>2, <2>2, TaskKb DEF KbInv
    <3>2. Len(logs[k]) # 0
      BY <3>1
    <3>3. Len(logs[k]) = 1
      BY <3>1, <3>2, ZeroOrOne
    <3> QED BY <3>1, <3>3
  <2> QED BY <1>1, <2>1, <2>2, <2>3 DEF Waits
<1>4. k \notin linked' => ~ Busy(k)' /\ \A i \in DOMAIN logs'[k] : logs'[k][i].status \notin Open
  BY <1>1, <1>2, <1>3 DEF KbInv, Busy
<1>5. \A t \in round' : t.kb = k => Waits(k, t)'
  BY <1>3
<1>6. k \notin half' => \A i \in DOMAIN logs'[k] : Truthful(k, logs[k][i])'
  BY <1>1, <1>2 DEF KbInv, Truthful, Full, Covered
<1> QED BY <1>1, <1>2, <1>4, <1>5, <1>6 DEF KbInv

(* A knowledge base other than that of the task.                           *)
LEMMA Elsewhere ==
  ASSUME TypeOK, TypeOK', NEW k \in KBs, KbInv(k), logs'[k] = logs[k],
         round' \subseteq round, at' # "idle" => task'.kb # k,
         UNCHANGED <<now, linked>>, offered'[k] = offered[k], dropped'[k] = dropped[k],
         k \in half => k \in half'
  PROVE  KbInv(k)'
<1>1. Still(k)
  BY Untouched
<1>2. task' # NoTask => task'.kb # k
  BY DEF TypeOK
<1>3. k \notin linked' => ~ Busy(k)' /\ \A i \in DOMAIN logs[k] : logs'[k][i].status \notin Open
  BY <1>2 DEF KbInv, Busy
<1>4. \A t \in round' : t.kb = k => t \in round /\ (task' # NoTask => task'.kb # k)
  BY <1>2
<1>5. now <= now'
  BY DEF TypeOK
<1>6. at' = "batches" \/ at' = "schedule" => task'.kb # k
  OBVIOUS
<1> QED BY <1>1, <1>3, <1>4, <1>5, <1>6, Frame

LEMMA StartKeeps ==
  ASSUME SyncInv, TypeOK', NEW t \in round, start(t)
  PROVE  KbsInv'
<1> USE DEF sourceVars
<1> SUFFICES ASSUME NEW k \in KBs \ meddled' PROVE KbInv(k)'
  BY DEF KbsInv
<1>1. /\ at = "idle" /\ task = NoTask /\ round' = round \ {t} /\ task' = t /\ at' = "batches"
      /\ UNCHANGED <<sourceVars, linked, faults, requests, disturbed, meddled>>
      /\ half' = (IF t.start = Null /\ ~ t.reindex THEN half \cup {t.kb} ELSE half)
      /\ todo' = {v \in 1..now : Full(t) \/ v > t.start}
      /\ next_update' = (IF t.start = Null THEN Epoch ELSE t.start)
  BY DEF start, SyncInv, TypeOK
<1>2. TypeOK /\ KbInv(k) /\ k \in KBs /\ t \in Task /\ t.kb \in KBs
  BY <1>1, TaskKb DEF SyncInv
<1>3. /\ logs'[t.kb] = WithStatus(logs[t.kb], t.id, "RUNNING")
      /\ \A j \in KBs : j # t.kb => logs'[j] = logs[j]
  <2>1. "RUNNING" \in Statuses /\ logs' = [logs EXCEPT ![t.kb] = WithStatus(@, t.id, "RUNNING")]
    BY DEF Statuses, start
  <2> QED BY <1>2, <2>1, StatusType
<1>4. CASE k # t.kb
  BY <1>1, <1>2, <1>3, <1>4, Elsewhere
<1>5. CASE k = t.kb
  <2>1. Waits(k, t) /\ k \in linked
    BY <1>2, <1>5 DEF KbInv, Busy
  <2>2. logs[k] \in Seq(Log) /\ Len(logs[k]) = 1 /\ DOMAIN logs[k] = 1..1 /\ logs[k][1] \in Log
    BY <1>2, <2>1, TaskKb DEF Waits
  <2>3. /\ Len(logs'[k]) = 1 /\ Same(logs'[k][1], logs[k][1])
        /\ logs'[k][1].status = "RUNNING"
    <3>1. "RUNNING" \in Statuses /\ logs[k] \in Seq(Log) /\ Len(logs[k]) <= 1
      BY <2>2 DEF Statuses
    <3> DEFINE u == WithStatus(logs[k], t.id, "RUNNING")
    <3>2. /\ Len(u) = Len(logs[k])
          /\ \A i \in DOMAIN logs[k] :
               /\ Same(u[i], logs[k][i])
               /\ u[i].status = IF logs[k][i].id = t.id THEN "RUNNING" ELSE logs[k][i].status
      BY <3>1, WithStatusOnly
    <3>3. logs'[k] = u /\ 1 \in DOMAIN logs[k] /\ logs[k][1].id = t.id
      BY <1>3, <1>5, <2>1, <2>2 DEF Waits
    <3> HIDE DEF u
    <3> QED BY <2>2, <3>2, <3>3
  <2>4. DOMAIN logs'[k] = 1..1
    <3>1. logs'[k] \in Seq(Log)
      BY <1>2 DEF TypeOK
    <3> QED BY <2>3, <3>1, LenProperties
  <2>5. /\ logs[k][1].start = t.start /\ logs[k][1].start <= now /\ logs[k][1].end <= now
        /\ logs[k][1].reindex = t.reindex
    BY <1>2, <2>1, <2>2 DEF KbInv, Waits
  <2>6. \A i \in DOMAIN logs'[k] : logs'[k][i].start <= now' /\ logs'[k][i].end <= now'
    BY <1>1, <2>3, <2>4, <2>5 DEF Same
  <2>7. next_update' <= now' /\ now \in Nat
    BY <1>1, <1>2, <2>5, SyncAssumption DEF Epoch, TypeOK
  <2>8. \A u \in round' : u.kb # k
    <3>1. SUFFICES ASSUME NEW u \in round', u.kb = k PROVE FALSE
      OBVIOUS
    <3>2. u \in round /\ u \in Task /\ u # t
      BY <1>1, <1>2, TaskKb
    <3>3. Waits(k, u)
      BY <1>2, <3>1, <3>2 DEF KbInv
    <3>4. u.id = t.id /\ u.start = t.start /\ u.reindex = t.reindex /\ u.kb = t.kb
      BY <1>5, <2>1, <3>1, <3>3 DEF Waits
    <3> QED BY <1>2, <3>2, <3>4 DEF Task
  <2>9. Runs(k)'
    BY <1>1, <2>1, <2>3 DEF Runs, Waits, Same
  <2>10. ASSUME k \notin half', NEW i \in DOMAIN logs'[k] PROVE Truthful(k, logs[k][i])'
    <3>1. i = 1 /\ k \notin half
      BY <1>1, <2>4, <2>10
    <3>2. Truthful(k, logs[k][1])
      BY <1>2, <2>2, <3>1 DEF KbInv
    <3> QED BY <1>1, <2>3, <3>1, <3>2 DEF Truthful, Full, Same, Covered
  <2>11. ASSUME k \notin half' \/ task'.start = Null PROVE Polls(k)'
    <3>1. \A n \in Marks(logs[k][1])' : n \in Int /\ n <= now
      <4>1. /\ logs[k][1].start \in Int /\ logs[k][1].end \in Int
            /\ logs'[k][1].start = logs[k][1].start /\ logs'[k][1].end = logs[k][1].end
        BY <2>2, <2>3 DEF Log, Same
      <4>2. \A n \in todo' : n \in Int /\ n <= now
        BY <1>1, <2>7
      <4>3. next_update' \in Int /\ next_update' <= now
        BY <1>1, <2>7 DEF TypeOK
      <4> QED BY <2>5, <4>1, <4>2, <4>3 DEF Marks
    <3>2. 1..now \subseteq Reach(k)'
      <4>1. CASE Full(t)
        BY <1>1, <4>1 DEF Reach
      <4>2. CASE ~ Full(t)
        <5>1. k \notin half /\ ~ Full(logs[k][1])
          BY <1>1, <2>5, <2>11, <4>2 DEF Full
        <5>2. Covered(k, t.start)
          BY <1>2, <2>2, <2>5, <5>1 DEF KbInv, Truthful
        <5>3. t.start \in Int
          BY <1>2 DEF Task
        <5>4. \A v \in 1..now : v \in 1..t.start \/ v \in todo'
          BY <1>1, <2>7, <5>3
        <5> QED BY <1>1, <5>2, <5>4 DEF Reach, Covered
      <4> QED BY <4>1, <4>2
    <3>3. \A n \in Marks(logs[k][1])' : 1..n \subseteq 1..now
      BY <2>7, <3>1
    <3> QED BY <3>2, <3>3 DEF Polls
  <2> QED BY <1>1, <2>1, <2>3, <2>6, <2>7, <2>8, <2>9, <2>10, <2>11 DEF KbInv
<1> QED BY <1>4, <1>5

(* A batch moves what is still to offer to what was, or was skipped.       *)
LEMMA BatchMoves ==
  ASSUME SyncInv, TypeOK', NEW k \in KBs, KbInv(k), at = "batches", task.kb = k,
         NEW batch \in SUBSET todo, batch # {}, todo' = todo \ batch,
         next_update' = Largest(batch \cup {next_update}),
         NEW l \in Log, logs'[k] = <<l>>, l = logs[k][1] \/ l = Ranged(logs[k][1], batch),
         offered[k] \cup dropped[k] \cup batch = offered'[k] \cup dropped'[k],
         UNCHANGED <<now, linked, round, task, at, half>>
  PROVE  KbInv(k)'
<1> DEFINE o == logs[k][1]
<1>1. TypeOK /\ Runs(k) /\ k \in linked
  BY DEF SyncInv, KbInv, Busy, TypeOK
<1>2. Len(logs[k]) = 1 /\ DOMAIN logs[k] = 1..1 /\ o \in Log
  BY <1>1, TaskKb DEF Runs
<1>3. Len(logs'[k]) = 1 /\ DOMAIN logs'[k] = 1..1 /\ logs'[k][1] = l
  OBVIOUS
<1>4. batch \subseteq Times /\ batch \subseteq 1..now /\ now \in Nat
  BY <1>1, SyncAssumption DEF SyncInv, ServiceInv, TypeOK
<1>5. /\ l.id = o.id /\ l.status = o.status /\ l.reindex = o.reindex
      /\ l.start \in batch \cup {o.start} /\ l.end \in batch \cup {o.end}
      /\ l.start = Null => o.start = Null
      /\ o.start # Null => l.start # Null /\ l.start <= o.start
  <2>1. CASE l = o
    BY <1>2, <2>1 DEF Log
  <2>2. CASE l = Ranged(o, batch)
    BY <1>2, <1>4, <2>2, RangedFacts
  <2> QED BY <2>1, <2>2
<1>6. next_update' \in batch \cup {next_update}
  BY <1>1, NextUpdate
<1>7. o.start <= now /\ o.end <= now /\ next_update <= now
  BY <1>2 DEF KbInv
<1>8. \A i \in DOMAIN logs'[k] : logs'[k][i].start <= now' /\ logs'[k][i].end <= now'
  <2>1. l.start <= now /\ l.end <= now
    <3>1. \A x \in batch : x <= now
      BY <1>4
    <3> QED BY <1>5, <1>7, <3>1
  <2> QED BY <1>3, <2>1
<1>9. next_update' <= now'
  BY <1>4, <1>6, <1>7
<1>10. \A t \in round' : t.kb # k
  BY <1>1, TaskKb DEF KbInv, Waits
<1>11. Runs(k)'
  BY <1>1, <1>3, <1>5 DEF Runs
<1>12. ASSUME k \notin half', NEW i \in DOMAIN logs'[k] PROVE Truthful(k, logs[k][i])'
  <2>1. logs'[k][i] = l /\ l.status # "DONE" /\ Truthful(k, o)
    BY <1>1, <1>2, <1>3, <1>5, <1>12 DEF Runs, KbInv
  <2>2. ASSUME ~ Full(l) PROVE Covered(k, l.start)'
    <3>1. ~ l.reindex /\ o.start # Null
      <4>1. ~ task.reindex
        BY <1>1, <1>5, <2>2 DEF Full, Runs
      <4>2. task.start # Null
        BY <1>12, <4>1 DEF SyncInv, ServiceInv
      <4> QED BY <1>1, <2>2, <4>2 DEF Full, Runs
    <3>2. Covered(k, o.start) /\ l.start <= o.start
      BY <1>5, <2>1, <3>1 DEF Truthful, Full
    <3>3. l.start \in Int /\ o.start \in Int
      BY <1>2 DEF Log
    <3>4. 1..l.start \subseteq 1..o.start
      BY <3>2, <3>3
    <3> QED BY <3>2, <3>4 DEF Covered
  <2> QED BY <2>1, <2>2 DEF Truthful
<1>13. ASSUME k \notin half' \/ task'.start = Null PROVE Polls(k)'
  <2>1. Polls(k)
    BY <1>13 DEF KbInv
  <2>2. Marks(logs[k][1])' \subseteq Marks(o)
    BY <1>3, <1>5, <1>6 DEF Marks
  <2>3. Reach(k) \subseteq Reach(k)'
    BY DEF Reach
  <2> QED BY <2>1, <2>2, <2>3 DEF Polls
<1> QED BY <1>1, <1>3, <1>8, <1>9, <1>10, <1>11, <1>12, <1>13 DEF KbInv

LEMMA BatchSyncedKeeps ==
  ASSUME SyncInv, TypeOK', batch_synced
  PROVE  KbsInv'
<1> USE DEF ghosts
<1> SUFFICES ASSUME NEW k \in KBs \ meddled' PROVE KbInv(k)'
  BY DEF KbsInv
<1>1. PICK batch \in (SUBSET todo) \ {{}} :
        /\ todo' = todo \ batch /\ next_update' = Largest(batch \cup {next_update})
        /\ offered' = [offered EXCEPT ![task.kb] = @ \cup batch]
        /\ logs' = [logs EXCEPT ![task.kb] = increase_docs(@, task.id, batch)]
  BY DEF batch_synced
<1>2. at = "batches" /\ UNCHANGED <<now, conn, linked, round, task, at, dropped, faults, ghosts>>
  BY DEF batch_synced
<1>3. TypeOK /\ KbInv(k) /\ k \in KBs /\ task.kb \in KBs
  BY <1>2, TaskKb DEF SyncInv
<1>4. CASE k # task.kb
  <2>1. logs'[k] = logs[k] /\ offered'[k] = offered[k]
    BY <1>1, <1>3, <1>4 DEF TypeOK
  <2> QED BY <1>2, <1>3, <1>4, <2>1, Elsewhere
<1>5. CASE k = task.kb
  <2> DEFINE s == logs[k]
             l == Ranged(s[1], batch)
  <2>1. Runs(k) /\ s \in Seq(Log) /\ Len(s) = 1 /\ DOMAIN s = 1..1 /\ s[1] \in Log /\ s[1].id = task.id
    BY <1>2, <1>3, <1>5, TaskKb DEF KbInv, Runs
  <2>2. batch \in SUBSET Times /\ batch # {} /\ batch \in SUBSET todo
    BY <1>1, <1>3 DEF TypeOK
  <2>3. l \in Log
    BY <2>1, <2>2, RangedFacts
  <2>4. logs'[k] = increase_docs(s, task.id, batch)
    BY <1>1, <1>3, <1>5 DEF TypeOK
  <2>5. increase_docs(s, task.id, batch) = Updated(s, task.id, Ranged(LogOf(s, task.id), batch))
    BY DEF increase_docs, Ranged
  <2>6. task.id \in Held(s) /\ Len(s) <= 1
    BY <2>1 DEF Held
  <2> HIDE DEF s
  <2>7. LogOf(s, task.id) = s[1]
    BY <2>1, <2>3, <2>6, UpdatedOnly
  <2>8. Updated(s, task.id, l) = <<l>>
    BY <2>1, <2>3, <2>6, UpdatedOnly
  <2>9. logs'[k] = <<l>>
    BY <2>4, <2>5, <2>7, <2>8
  <2>10. offered[k] \cup dropped[k] \cup batch = offered'[k] \cup dropped'[k]
    BY <1>1, <1>2, <1>3, <1>5 DEF TypeOK
  <2>11. l = Ranged(logs[k][1], batch)
    BY DEF s
  <2> HIDE DEF l
  <2> QED BY <1>1, <1>2, <1>3, <1>5, <2>2, <2>3, <2>9, <2>10, <2>11, BatchMoves
<1> QED BY <1>4, <1>5

LEMMA BatchFailsKeeps ==
  ASSUME SyncInv, TypeOK', batch_fails
  PROVE  KbsInv'
<1> USE DEF ghosts
<1> SUFFICES ASSUME NEW k \in KBs \ meddled' PROVE KbInv(k)'
  BY DEF KbsInv
<1>1. PICK batch \in (SUBSET todo) \ {{}} :
        /\ todo' = todo \ batch /\ next_update' = Largest(batch \cup {next_update})
        /\ dropped' = [dropped EXCEPT ![task.kb] = @ \cup batch]
  BY DEF batch_fails
<1>2. at = "batches" /\ UNCHANGED <<now, conn, linked, logs, round, task, at, offered, ghosts>>
  BY DEF batch_fails
<1>3. TypeOK /\ KbInv(k) /\ k \in KBs /\ task.kb \in KBs
  BY <1>2, TaskKb DEF SyncInv
<1>4. CASE k # task.kb
  <2>1. dropped'[k] = dropped[k]
    BY <1>1, <1>3, <1>4 DEF TypeOK
  <2> QED BY <1>2, <1>3, <1>4, <2>1, Elsewhere
<1>5. CASE k = task.kb
  <2>1. Runs(k) /\ logs[k] \in Seq(Log) /\ Len(logs[k]) = 1 /\ logs[k][1] \in Log
    BY <1>2, <1>3, <1>5, TaskKb DEF KbInv, Runs
  <2>2. logs'[k] = <<logs[k][1]>>
    BY <1>2, <2>1
  <2>3. offered[k] \cup dropped[k] \cup batch = offered'[k] \cup dropped'[k]
    BY <1>1, <1>2, <1>3, <1>5 DEF TypeOK
  <2> QED BY <1>1, <1>2, <1>3, <1>5, <2>1, <2>2, <2>3, BatchMoves
<1> QED BY <1>4, <1>5

LEMMA TaskFailsKeeps ==
  ASSUME SyncInv, TypeOK', task_fails
  PROVE  KbsInv'
<1> USE DEF sourceVars
<1> SUFFICES ASSUME NEW k \in KBs \ meddled' PROVE KbInv(k)'
  BY DEF KbsInv
<1>1. /\ at = "batches" /\ task' = NoTask /\ at' = "idle"
      /\ UNCHANGED <<sourceVars, conn, linked, round, requests, meddled, half>>
  BY DEF task_fails
<1>2. TypeOK /\ KbInv(k) /\ k \in KBs /\ task.kb \in KBs /\ task # NoTask
  BY <1>1, TaskKb DEF SyncInv
<1>3. /\ logs'[task.kb] = WithStatus(logs[task.kb], task.id, "FAIL") /\ "FAIL" \in Statuses
      /\ \A j \in KBs : j # task.kb => logs'[j] = logs[j]
  <2>1. "FAIL" \in Statuses /\ logs' = [logs EXCEPT ![task.kb] = WithStatus(@, task.id, "FAIL")]
    BY DEF Statuses, task_fails
  <2> QED BY <1>2, <2>1, StatusType
<1>4. CASE k # task.kb
  BY <1>1, <1>2, <1>3, <1>4, Elsewhere
<1>5. CASE k = task.kb
  <2>1. logs[k] \in Seq(Log) /\ Len(logs[k]) <= 1
    BY <1>2 DEF TypeOK, KbInv
  <2>2. Still(k)
    <3>1. /\ Len(logs'[k]) = Len(logs[k])
          /\ \A i \in DOMAIN logs[k] :
               /\ Same(logs'[k][i], logs[k][i])
               /\ logs'[k][i].status = IF logs[k][i].id = task.id THEN "FAIL" ELSE logs[k][i].status
      BY <1>3, <1>5, <2>1, WithStatusOnly
    <3> QED BY <3>1 DEF Still
  <2>3. k \in linked' /\ now <= now'
    BY <1>1, <1>2, <1>5 DEF KbInv, Busy, TypeOK
  <2>4. \A t \in round' : t.kb = k => t \in round /\ (task' # NoTask => task'.kb # k)
    BY <1>1
  <2> QED BY <1>1, <1>2, <2>2, <2>3, <2>4, Frame
<1> QED BY <1>4, <1>5

LEMMA DoneKeeps ==
  ASSUME SyncInv, TypeOK', done
  PROVE  KbsInv'
<1> USE DEF sourceVars
<1> SUFFICES ASSUME NEW k \in KBs \ meddled' PROVE KbInv(k)'
  BY DEF KbsInv
<1>1. /\ at = "batches" /\ todo = {} /\ at' = "schedule"
      /\ half' = (IF task.start = Null THEN half \ {task.kb} ELSE half)
      /\ UNCHANGED <<sourceVars, linked, round, task, todo, next_update, faults, requests, disturbed,
                     meddled>>
  BY DEF done
<1>2. TypeOK /\ KbInv(k) /\ k \in KBs /\ task.kb \in KBs /\ task # NoTask
  BY <1>1, TaskKb DEF SyncInv
<1>3. /\ logs'[task.kb] = WithStatus(logs[task.kb], task.id, "DONE") /\ "DONE" \in Statuses
      /\ \A j \in KBs : j # task.kb => logs'[j] = logs[j]
  <2>1. "DONE" \in Statuses /\ logs' = [logs EXCEPT ![task.kb] = WithStatus(@, task.id, "DONE")]
    BY DEF Statuses, done
  <2> QED BY <1>2, <2>1, StatusType
<1>4. CASE k # task.kb
  BY <1>1, <1>2, <1>3, <1>4, Elsewhere
<1>5. CASE k = task.kb
  <2>1. Runs(k) /\ k \in linked
    BY <1>1, <1>2, <1>5 DEF KbInv, Busy
  <2>2. logs[k] \in Seq(Log) /\ Len(logs[k]) = 1 /\ DOMAIN logs[k] = 1..1
    BY <1>2, <2>1, TaskKb DEF Runs
  <2>3. Len(logs'[k]) = 1 /\ Same(logs'[k][1], logs[k][1]) /\ logs'[k][1].status = "DONE"
    <3> DEFINE u == WithStatus(logs[k], task.id, "DONE")
    <3>1. "DONE" \in Statuses /\ logs[k] \in Seq(Log) /\ Len(logs[k]) <= 1
      BY <1>3, <2>2
    <3>2. /\ Len(u) = Len(logs[k])
          /\ \A i \in DOMAIN logs[k] :
               /\ Same(u[i], logs[k][i])
               /\ u[i].status = IF logs[k][i].id = task.id THEN "DONE" ELSE logs[k][i].status
      BY <3>1, WithStatusOnly
    <3>3. logs'[k] = u /\ 1 \in DOMAIN logs[k] /\ logs[k][1].id = task.id
      BY <1>3, <1>5, <2>1, <2>2 DEF Runs
    <3> HIDE DEF u
    <3> QED BY <2>2, <3>2, <3>3
  <2>4. DOMAIN logs'[k] = 1..1
    <3>1. logs'[k] \in Seq(Log)
      BY <1>2 DEF TypeOK
    <3> QED BY <2>3, <3>1, LenProperties
  <2>5. \A i \in DOMAIN logs'[k] :
          /\ logs'[k][i].start <= now' /\ logs'[k][i].end <= now'
          /\ logs'[k][i].status # "RUNNING"
    <3>1. logs[k][1].start <= now /\ logs[k][1].end <= now
      BY <1>2, <2>2 DEF KbInv
    <3>2. logs'[k][1].start <= now' /\ logs'[k][1].end <= now' /\ logs'[k][1].status # "RUNNING"
      BY <1>1, <2>3, <3>1 DEF Same
    <3> QED BY <2>4, <3>2
  <2>6. next_update' <= now'
    BY <1>1, <1>2, <1>5 DEF KbInv
  <2>7. \A t \in round' : t.kb # k
    BY <1>1, <1>2, <1>5 DEF KbInv, Waits
  <2>8. ASSUME k \notin half' PROVE Covered(k, next_update)' /\ Truthful(k, logs[k][1])'
    <3>1. k \notin half \/ task.start = Null
      BY <1>1, <1>5, <2>8
    <3>2. Polls(k)
      BY <1>1, <1>2, <1>5, <3>1 DEF KbInv
    <3>3. Covered(k, next_update) /\ Covered(k, logs[k][1].start) /\ Covered(k, logs[k][1].end)
      BY <1>1, <3>2 DEF Polls, Marks, Reach, Covered
    <3>4. /\ \A n : Covered(k, n)' = Covered(k, n)
          /\ logs'[k][1].start = logs[k][1].start /\ logs'[k][1].end = logs[k][1].end
      BY <1>1, <2>3 DEF Covered, Same
    <3> QED BY <1>1, <3>3, <3>4 DEF Truthful, Covered
  <2>9. k \notin half' => \A i \in DOMAIN logs'[k] : Truthful(k, logs[k][i])'
    BY <2>4, <2>8
  <2> QED BY <1>1, <2>1, <2>3, <2>5, <2>6, <2>7, <2>8, <2>9 DEF KbInv
<1> QED BY <1>4, <1>5

LEMMA ScheduleNextKeeps ==
  ASSUME SyncInv, TypeOK', schedule_next
  PROVE  KbsInv'
<1> USE DEF sourceVars, ghosts
<1> SUFFICES ASSUME NEW k \in KBs \ meddled' PROVE KbInv(k)'
  BY DEF KbsInv
<1>1. /\ at = "schedule" /\ task' = NoTask /\ at' = "idle" /\ schedule(task.kb, next_update, FALSE)
      /\ UNCHANGED <<sourceVars, linked, round, todo, faults, ghosts>>
  BY DEF schedule_next
<1>2. TypeOK /\ KbInv(k) /\ k \in KBs /\ task.kb \in KBs /\ task # NoTask
  BY <1>1, TaskKb DEF SyncInv
<1>3. /\ \A j \in KBs : j # task.kb => logs'[j] = logs[j]
      /\ \/ Scheduled(logs[task.kb]) # {} /\ logs'[task.kb] = logs[task.kb]
         \/ Scheduled(logs[task.kb]) = {} /\ Adds(task.kb, next_update, FALSE)
  <2>1. next_update \in -1..MaxTime /\ FALSE \in BOOLEAN
    BY <1>2 DEF TypeOK
  <2> QED BY <1>1, <1>2, <2>1, ScheduleFacts
<1>4. CASE logs'[k] = logs[k]
  BY <1>1, <1>2, <1>4, Elsewhere
<1>5. CASE k = task.kb /\ Scheduled(logs[k]) = {} /\ Adds(k, next_update, FALSE)
  <2>1. PICK l \in Log : /\ l.status = "SCHEDULE" /\ l.end = Null /\ l.start = next_update
                         /\ logs'[k] = Seen(Append(logs[k], l))
    BY <1>5 DEF Adds
  <2>2. logs[k] \in Seq(Log) /\ Len(logs[k]) <= 1
    BY <1>2 DEF TypeOK, KbInv
  <2>3. \A i \in DOMAIN logs[k] : logs[k][i].status \notin Open
    BY <1>1, <1>2, <1>5 DEF KbInv, Scheduled, Open
  <2>4. logs'[k] = <<l>>
    BY <2>1, <2>2, <2>3, SeenAdded
  <2>5. k \in linked' /\ \A t \in round' : t.kb # k
    BY <1>1, <1>2, <1>5 DEF KbInv, Busy, Waits
  <2>6. l.start <= now' /\ (k \notin half' => Covered(k, l.start)')
    BY <1>1, <1>2, <1>5, <2>1 DEF KbInv, Covered
  <2> QED BY <1>1, <1>2, <2>1, <2>4, <2>5, <2>6, Fresh
<1> QED BY <1>2, <1>3, <1>4, <1>5

LEMMA CrashKeeps ==
  ASSUME SyncInv, TypeOK', crash
  PROVE  KbsInv'
<1> USE DEF sourceVars
<1> SUFFICES ASSUME NEW k \in KBs \ meddled' PROVE KbInv(k)'
  BY DEF KbsInv
<1>1. /\ round' = {} /\ task' = NoTask /\ at' = "idle"
      /\ UNCHANGED <<sourceVars, conn, linked, logs, requests, meddled, half>>
  BY DEF crash
<1>2. TypeOK /\ KbInv(k) /\ k \in KBs
  BY <1>1 DEF SyncInv
<1> QED BY <1>1, <1>2, Elsewhere

-----------------------------------------------------------------------------
LEMMA ServiceNext ==
  ASSUME SyncInv, Next
  PROVE  ServiceInv'
<1> USE DEF sourceVars, ghosts, taskVars
<1>0. now \in Nat /\ todo \subseteq 1..now
  BY SyncAssumption DEF SyncInv, TypeOK, ServiceInv
<1>1. now' \in Nat /\ now <= now'
  <2>1. now' = now \/ now' = now + 1
    BY DEF Next, Users, Service, source_updates, link, unlink, rebuild, resume, cancel,
       rm_connector,
         dispatch_tasks, start, batch_synced, done, schedule_next, batch_fails, task_fails, crash
  <2> QED BY <1>0, <2>1
<1>2. todo' \subseteq 1..now'
  <2>1. todo' \subseteq todo \/ \E t \in round : start(t)
    BY DEF Next, Users, Service, source_updates, link, unlink, rebuild, resume, cancel,
       rm_connector,
         dispatch_tasks, batch_synced, done, schedule_next, batch_fails, task_fails, crash
  <2>2. ASSUME NEW t \in round, start(t) PROVE todo' \subseteq 1..now'
    BY <2>2 DEF start
  <2>3. 1..now \subseteq 1..now'
    BY <1>0, <1>1
  <2> QED BY <1>0, <2>1, <2>2, <2>3
<1>3. at' = "batches" /\ task'.start = Null /\ ~ task'.reindex => task'.kb \in half'
  <2>1. \/ at' # "batches" \/ (at = "batches" /\ task' = task /\ half' = half)
        \/ \E t \in round : start(t)
    <3>1. ASSUME ~ \E t \in round : start(t), at' = "batches"
          PROVE at = "batches" /\ task' = task /\ half' = half
      BY <3>1 DEF Next, Users, Service, source_updates, link, unlink, rebuild, resume, cancel,
         rm_connector,
         dispatch_tasks, batch_synced, done, schedule_next, batch_fails, task_fails, crash
    <3> QED BY <3>1
  <2>2. ASSUME NEW t \in round, start(t)
        PROVE task'.start = Null /\ ~ task'.reindex => task'.kb \in half'
    BY <2>2 DEF start
  <2> QED BY <2>1, <2>2 DEF SyncInv, ServiceInv
<1> QED BY <1>2, <1>3 DEF ServiceInv

LEMMA SyncNext ==
  ASSUME SyncInv, [Next]_vars
  PROVE  SyncInv'
<1>1. CASE UNCHANGED vars
  <2>1. TypeOK' /\ ServiceInv'
    BY <1>1 DEF vars, SyncInv, TypeOK, ServiceInv
  <2>2. ASSUME NEW k \in KBs \ meddled' PROVE KbInv(k)'
    <3>1. KbInv(k) /\ TypeOK /\ k \in KBs /\ now <= now'
      BY <1>1 DEF vars, SyncInv, TypeOK
    <3> QED BY <1>1, <2>1, <3>1, Unconcerned DEF vars
  <2> QED BY <2>1, <2>2 DEF SyncInv
<1>2. CASE Next
  <2>1. TypeOK' /\ ServiceInv'
    BY <1>2, TypeNext, ServiceNext DEF SyncInv
  <2>2. ASSUME source_updates PROVE KbsInv'
    BY <2>1, <2>2, SourceKeeps
  <2>3. ASSUME NEW k \in KBs, link(k) PROVE KbsInv'
    BY <2>1, <2>3, LinkKeeps
  <2>4. ASSUME NEW k \in KBs, unlink(k) PROVE KbsInv'
    BY <2>1, <2>4, UnlinkKeeps
  <2>5. ASSUME NEW k \in KBs, rebuild(k) PROVE KbsInv'
    BY <2>1, <2>5, RebuildKeeps
  <2>6. ASSUME resume PROVE KbsInv'
    BY <2>1, <2>6, ResumeKeeps
  <2>7. ASSUME cancel PROVE KbsInv'
    BY <2>1, <2>7, CanceledKeeps DEF cancel
  <2>8. ASSUME rm_connector PROVE KbsInv'
    BY <2>1, <2>8, CanceledKeeps DEF rm_connector
  <2>9. ASSUME dispatch_tasks PROVE KbsInv'
    BY <2>1, <2>9, DispatchKeeps
  <2>10. ASSUME NEW t \in round, start(t) PROVE KbsInv'
    BY <2>1, <2>10, StartKeeps
  <2>11. ASSUME batch_synced PROVE KbsInv'
    BY <2>1, <2>11, BatchSyncedKeeps
  <2>12. ASSUME done PROVE KbsInv'
    BY <2>1, <2>12, DoneKeeps
  <2>13. ASSUME schedule_next PROVE KbsInv'
    BY <2>1, <2>13, ScheduleNextKeeps
  <2>14. ASSUME batch_fails PROVE KbsInv'
    BY <2>1, <2>14, BatchFailsKeeps
  <2>15. ASSUME task_fails PROVE KbsInv'
    BY <2>1, <2>15, TaskFailsKeeps
  <2>16. ASSUME crash PROVE KbsInv'
    BY <2>1, <2>16, CrashKeeps
  <2>17. KbsInv'
    BY <1>2, <2>2, <2>3, <2>4, <2>5, <2>6, <2>7, <2>8, <2>9, <2>10, <2>11, <2>12, <2>13, <2>14,
       <2>15,
       <2>16 DEF Next, Users, Service
  <2> QED BY <2>1, <2>17 DEF SyncInv, KbsInv
<1> QED BY <1>1, <1>2

LEMMA SyncSafe == Spec => []SyncInv
<1>1. SyncInv /\ [Next]_vars => SyncInv'
  BY SyncNext
<1> QED BY <1>1, SyncInit, PTL DEF Spec

(* Every table and variable of the service keeps its type, with any number *)
(* of knowledge bases, updates, failures and requests.                     *)
THEOREM SyncTypeCorrect == Spec => []TypeOK
<1>1. SyncInv => TypeOK
  BY DEF SyncInv
<1> QED BY <1>1, SyncSafe, PTL

(* schedule, resume and link_connectors: no two scheduled logs, unless a   *)
(* knowledge base was unlinked or rebuilt under a task.                    *)
THEOREM OneLogWaits == Spec => []OneScheduledLog
<1>1. ASSUME SyncInv PROVE OneScheduledLog
  <2> SUFFICES ASSUME NEW k \in KBs \ meddled PROVE Cardinality(Scheduled(logs[k])) <= 1
    BY DEF OneScheduledLog
  <2>1. TypeOK /\ KbInv(k)
    BY <1>1 DEF SyncInv
  <2>2. Len(logs[k]) \in Nat /\ Len(logs[k]) <= 1 /\ DOMAIN logs[k] = 1..Len(logs[k])
    BY <2>1, TaskKb DEF KbInv
  <2>3. Scheduled(logs[k]) = {} \/ Scheduled(logs[k]) = {1}
    BY <2>2 DEF Scheduled
  <2>4. Cardinality({}) = 0 /\ Cardinality({1}) = 1
    BY FS_EmptySet, FS_Singleton
  <2> QED BY <2>3, <2>4
<1> QED BY <1>1, SyncSafe, PTL

(* increase_docs, done, schedule and resume, with failures anywhere: what  *)
(* is older than the start of the next poll was uploaded or was in a batch *)
(* that failed.                                                            *)
THEOREM NothingIsLeftBehind == Spec => []WatermarkCovers
<1>1. ASSUME SyncInv PROVE WatermarkCovers
  <2> SUFFICES ASSUME NEW k \in KBs \ (meddled \cup half), NEW i \in Scheduled(logs[k]),
                      ~ Full(logs[k][i])
               PROVE  1..logs[k][i].start \subseteq offered[k] \cup dropped[k]
    BY DEF WatermarkCovers
  <2>1. KbInv(k) /\ i \in DOMAIN logs[k]
    BY <1>1 DEF SyncInv, Scheduled
  <2>2. Truthful(k, logs[k][i])
    BY <2>1 DEF KbInv
  <2> QED BY <2>2 DEF Truthful, Covered
<1> QED BY <1>1, SyncSafe, PTL

=============================================================================
