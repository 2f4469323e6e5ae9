-------------------------- MODULE CanvasRun_proofs --------------------------
(***************************************************************************)
(* Safety of CanvasRun for every agent the canvas lets a user draw, every  *)
(* number of components, turns and rounds of a loop: the positions of a    *)
(* batch stay inside the path, and a component begins only when its inputs *)
(* have run.                                                               *)
(***************************************************************************)
EXTENDS CanvasRun, SequenceTheorems, FiniteSetTheorems, WellFoundedInduction, TLAPS

-----------------------------------------------------------------------------
(* Induction, by the least counterexample, and recursion over a sequence.  *)

LEMMA LeastOf ==
  ASSUME NEW T \in SUBSET Nat, T # {}
  PROVE  \E x \in T : \A y \in T : x <= y
<1>1. PICK R : R = {p \in Nat \X Nat : p[1] < p[2]} /\ IsWellFoundedOn(R, Nat)
  BY NatLessThanWellFounded DEF OpToRel
<1>2. PICK x \in T : \A y \in T : ~ (<<y, x>> \in R)
  BY <1>1, WFMin
<1>3. \A y \in T : y < x => <<y, x>> \in R
  BY <1>1
<1>4. ASSUME NEW y \in T PROVE x <= y
  <2>1. x \in Nat /\ y \in Nat
    OBVIOUS
  <2>2. ~ (y < x)
    BY <1>2, <1>3
  <2> QED BY <2>1, <2>2
<1> QED BY <1>4

LEMMA Induction ==
  ASSUME NEW m \in Nat, NEW T, 0 \in T, \A n \in 1..m : n - 1 \in T => n \in T
  PROVE  0..m \subseteq T
<1> DEFINE C == (0..m) \ T
<1> SUFFICES ASSUME C # {} PROVE FALSE
  OBVIOUS
<1>1. C \in SUBSET Nat
  OBVIOUS
<1>2. PICK n \in C : \A k \in C : n <= k
  BY <1>1, LeastOf
<1>3. n \in 1..m /\ n - 1 \in 0..m
  BY <1>2
<1>4. n - 1 \notin C
  BY <1>2, <1>3
<1> QED BY <1>2, <1>3, <1>4

(* A function given step by step exists.                                   *)
Iterates(f, m, x, step) ==
  /\ f = [n \in 0..m |-> f[n]] /\ f[0] = x
  /\ \A n \in 1..m : f[n] = step[<<f[n - 1], n>>]

LEMMA IterationExists ==
  ASSUME NEW m \in Nat, NEW x, NEW step
  PROVE  \E f : Iterates(f, m, x, step)
<1> DEFINE T == {n \in 0..m : \E f : Iterates(f, n, x, step)}
<1>1. 0 \in T
  <2>1. Iterates([n \in 0..0 |-> x], 0, x, step)
    BY DEF Iterates
  <2> QED BY <2>1
<1>2. ASSUME NEW n \in 1..m, n - 1 \in T PROVE n \in T
  <2>1. PICK f : Iterates(f, n - 1, x, step)
    BY <1>2
  <2> DEFINE h == [i \in 0..n |-> IF i < n THEN f[i] ELSE step[<<f[n - 1], n>>]]
  <2>2. h = [i \in 0..n |-> h[i]] /\ h[0] = x
    BY <2>1 DEF Iterates
  <2>3. ASSUME NEW i \in 1..n PROVE h[i] = step[<<h[i - 1], i>>]
    <3>1. h[i - 1] = f[i - 1]
      OBVIOUS
    <3>2. CASE i < n
      <4>1. i \in 1..(n - 1) /\ h[i] = f[i]
        BY <3>2
      <4> QED BY <2>1, <3>1, <4>1 DEF Iterates
    <3>3. CASE i = n
      <4>1. h[n] = step[<<f[n - 1], n>>]
        OBVIOUS
      <4> HIDE DEF h
      <4> QED BY <3>1, <3>3, <4>1
    <3> QED BY <3>2, <3>3
  <2>4. Iterates(h, n, x, step)
    BY <2>2, <2>3 DEF Iterates
  <2> QED BY <2>4
<1> HIDE DEF T
<1>3. 0..m \subseteq T
  BY <1>1, <1>2, Induction
<1> USE DEF T
<1> QED BY <1>3

-----------------------------------------------------------------------------
(* The sequences of the model.                                             *)

PickedBy(f, s, S) ==
  f = [n \in 0..Len(s) |->
         IF n = 0 THEN <<>> ELSE IF s[n] \in S THEN Append(f[n - 1], s[n]) ELSE f[n - 1]]

LEMMA PickedType ==
  ASSUME NEW s \in Seq(Ids), NEW S
  PROVE  Picked(s, S) \in Seq(Ids)
<1> DEFINE m == Len(s)
           step == [z \in Seq(Ids) \X (1..m) |->
                      IF s[z[2]] \in S THEN Append(z[1], s[z[2]]) ELSE z[1]]
<1>1. m \in Nat /\ \A n \in 1..m : s[n] \in Ids
  OBVIOUS
<1>2. PICK h : Iterates(h, m, <<>>, step)
  BY <1>1, IterationExists
<1>3. ASSUME NEW n \in 1..m, h[n - 1] \in Seq(Ids)
      PROVE  /\ h[n] = IF s[n] \in S THEN Append(h[n - 1], s[n]) ELSE h[n - 1]
             /\ h[n] \in Seq(Ids)
  <2>1. h[n] = step[<<h[n - 1], n>>]
    BY <1>2 DEF Iterates
  <2>2. <<h[n - 1], n>> \in Seq(Ids) \X (1..m)
    BY <1>3
  <2>3. step[<<h[n - 1], n>>] = IF s[n] \in S THEN Append(h[n - 1], s[n]) ELSE h[n - 1]
    BY <2>2
  <2> QED BY <1>1, <1>3, <2>1, <2>3
<1> HIDE DEF step
<1>4. 0..m \subseteq {n \in 0..m : h[n] \in Seq(Ids)}
  <2> DEFINE T == {n \in 0..m : h[n] \in Seq(Ids)}
  <2>1. 0 \in T
    BY <1>1, <1>2, EmptySeq DEF Iterates
  <2>2. ASSUME NEW n \in 1..m, n - 1 \in T PROVE n \in T
    BY <1>1, <1>3, <2>2
  <2> HIDE DEF T
  <2>3. 0..m \subseteq T
    BY <1>1, <2>1, <2>2, Induction
  <2> QED BY <2>3 DEF T
<1>5. PickedBy(h, s, S)
  <2>1. h = [n \in 0..m |-> h[n]] /\ h[0] = <<>>
    BY <1>2 DEF Iterates
  <2>2. ASSUME NEW n \in 0..m
        PROVE  h[n] = IF n = 0 THEN <<>> ELSE IF s[n] \in S THEN Append(h[n - 1], s[n]) ELSE h[n - 1]
    <3>1. CASE n = 0
      BY <2>1, <3>1
    <3>2. CASE n # 0
      <4>1. n \in 1..m /\ n - 1 \in 0..m
        BY <1>1, <3>2
      <4> QED BY <1>3, <1>4, <3>2, <4>1
    <3> QED BY <3>1, <3>2
  <2> QED BY <2>1, <2>2 DEF PickedBy
<1> DEFINE f == CHOOSE f : PickedBy(f, s, S)
<1>6. PickedBy(f, s, S)
  BY <1>5
<1>7. Picked(s, S) = f[m]
  BY DEF Picked, PickedBy
<1> HIDE DEF f
<1>8. 0..m \subseteq {n \in 0..m : f[n] \in Seq(Ids)}
  <2> DEFINE T == {n \in 0..m : f[n] \in Seq(Ids)}
  <2>1. 0 \in T
    BY <1>1, <1>6 DEF PickedBy
  <2>2. ASSUME NEW n \in 1..m, n - 1 \in T PROVE n \in T
    <3>0. n \in 0..m /\ n # 0 /\ n \in 1..m
      BY <1>1
    <3> HIDE DEF m
    <3>1. f[n] = IF s[n] \in S THEN Append(f[n - 1], s[n]) ELSE f[n - 1]
      <4>1. f = [k \in 0..m |-> IF k = 0 THEN <<>> ELSE IF s[k] \in S THEN Append(f[k - 1], s[k])
                                                   ELSE f[k - 1]]
        BY <1>6 DEF PickedBy, m
      <4> QED BY <3>0, <4>1, Zenon
    <3>2. f[n - 1] \in Seq(Ids) /\ s[n] \in Ids
      BY <1>1, <2>2, <3>0
    <3>3. Append(f[n - 1], s[n]) \in Seq(Ids)
      BY <3>2, AppendProperties
    <3> QED BY <3>0, <3>1, <3>2, <3>3
  <2> HIDE DEF T
  <2>3. 0..m \subseteq T
    BY <1>1, <2>1, <2>2, Induction
  <2> QED BY <2>3 DEF T
<1> QED BY <1>1, <1>7, <1>8

(* _append_path and _extend_path leave what is there.                      *)
Keeps(s, t) == t \in Seq(Ids) /\ Len(s) <= Len(t) /\ \A i \in 1..Len(s) : t[i] = s[i]

LEMMA AppendedKeeps ==
  ASSUME NEW s \in Seq(Ids), NEW t, Keeps(s, t), NEW c \in Ids
  PROVE  Keeps(s, Appended(t, c))
<1>1. CASE Appended(t, c) = t
  BY <1>1
<1>2. CASE Appended(t, c) = Append(t, c)
  BY <1>2, AppendProperties DEF Keeps
<1> QED BY <1>1, <1>2 DEF Appended

ExtendedBy(f, s, cs) ==
  f = [n \in 0..Len(cs) |-> IF n = 0 THEN s ELSE Appended(f[n - 1], cs[n])]

LEMMA ExtendedFunction ==
  ASSUME NEW s \in Seq(Ids), NEW cs \in Seq(Ids)
  PROVE  \E f : ExtendedBy(f, s, cs) /\ Extended(s, cs) = f[Len(cs)]
<1> DEFINE m == Len(cs)
           step == [z \in Seq(Ids) \X (1..m) |-> Appended(z[1], cs[z[2]])]
<1>1. m \in Nat /\ \A n \in 1..m : cs[n] \in Ids
  OBVIOUS
<1>2. PICK h : Iterates(h, m, s, step)
  BY <1>1, IterationExists
<1>3. ASSUME NEW n \in 1..m, Keeps(s, h[n - 1])
      PROVE  h[n] = Appended(h[n - 1], cs[n]) /\ Keeps(s, h[n])
  <2>1. h[n] = step[<<h[n - 1], n>>]
    BY <1>2 DEF Iterates
  <2>2. <<h[n - 1], n>> \in Seq(Ids) \X (1..m)
    BY <1>3 DEF Keeps
  <2>3. step[<<h[n - 1], n>>] = Appended(h[n - 1], cs[n])
    BY <2>2
  <2> QED BY <1>1, <1>3, <2>1, <2>3, AppendedKeeps
<1> HIDE DEF step
<1>4. 0..m \subseteq {n \in 0..m : Keeps(s, h[n])}
  <2> DEFINE T == {n \in 0..m : Keeps(s, h[n])}
  <2>1. 0 \in T
    BY <1>1, <1>2 DEF Iterates, Keeps
  <2>2. ASSUME NEW n \in 1..m, n - 1 \in T PROVE n \in T
    BY <1>1, <1>3, <2>2
  <2> HIDE DEF T
  <2>3. 0..m \subseteq T
    BY <1>1, <2>1, <2>2, Induction
  <2> QED BY <2>3 DEF T
<1>5. ExtendedBy(h, s, cs)
  <2>1. h = [n \in 0..m |-> h[n]] /\ h[0] = s
    BY <1>2 DEF Iterates
  <2>2. ASSUME NEW n \in 0..m PROVE h[n] = IF n = 0 THEN s ELSE Appended(h[n - 1], cs[n])
    <3>1. CASE n = 0
      BY <2>1, <3>1
    <3>2. CASE n # 0
      <4>1. n \in 1..m /\ n - 1 \in 0..m
        BY <1>1, <3>2
      <4> QED BY <1>3, <1>4, <3>2, <4>1
    <3> QED BY <3>1, <3>2
  <2> QED BY <2>1, <2>2 DEF ExtendedBy
<1> DEFINE f == CHOOSE f : ExtendedBy(f, s, cs)
<1>6. ExtendedBy(f, s, cs)
  BY <1>5
<1>7. Extended(s, cs) = f[m]
  BY DEF Extended, ExtendedBy
<1> QED BY <1>6, <1>7

LEMMA ExtendedKeeps ==
  ASSUME NEW s \in Seq(Ids), NEW cs \in Seq(Ids)
  PROVE  /\ Keeps(s, Extended(s, cs))
         /\ s # <<>> => \A k \in 1..Len(cs) : \E j \in Len(s)..Len(Extended(s, cs)) :
                          Extended(s, cs)[j] = cs[k]
<1> DEFINE m == Len(cs)
           Found(t, n) == \A k \in 1..n : \E j \in Len(s)..Len(t) : t[j] = cs[k]
<1>1. m \in Nat /\ \A n \in 1..m : cs[n] \in Ids
  OBVIOUS
<1>2. PICK f : ExtendedBy(f, s, cs) /\ Extended(s, cs) = f[m]
  BY ExtendedFunction
<1> DEFINE T == {n \in 0..m : Keeps(s, f[n]) /\ (s # <<>> => Found(f[n], n))}
<1>3. 0 \in T
  BY <1>1, <1>2 DEF ExtendedBy, Keeps
<1>4. ASSUME NEW n \in 1..m, n - 1 \in T PROVE n \in T
  <2>1. f[n] = Appended(f[n - 1], cs[n])
    BY <1>1, <1>2 DEF ExtendedBy
  <2>2. PICK t : t = f[n - 1]
    OBVIOUS
  <2>3. PICK u : u = f[n]
    OBVIOUS
  <2>4. Keeps(s, t) /\ (s # <<>> => Found(t, n - 1)) /\ u = Appended(t, cs[n])
    BY <1>4, <2>1, <2>2, <2>3
  <2>5. Keeps(s, u)
    BY <1>1, <2>4, AppendedKeeps
  <2>6. ASSUME s # <<>> PROVE Found(u, n)
    <3>0. Len(s) \in Nat /\ t \in Seq(Ids) /\ Len(t) \in Nat /\ Len(s) <= Len(t)
      BY <2>4 DEF Keeps
    <3>1. CASE u = t /\ t[Len(t)] = cs[n]
      BY <2>4, <2>6, <3>0, <3>1
    <3>2. CASE u = Append(t, cs[n])
      <4>1. Len(u) = Len(t) + 1 /\ u[Len(t) + 1] = cs[n] /\ \A j \in 1..Len(t) : u[j] = t[j]
        BY <1>1, <3>0, <3>2, AppendProperties
      <4>2. Len(s) >= 1
        BY <2>6, EmptySeq
      <4> QED BY <2>4, <2>6, <3>0, <4>1, <4>2
    <3> QED BY <2>4, <3>1, <3>2 DEF Appended, Last
  <2> QED BY <2>3, <2>5, <2>6
<1> HIDE DEF T
<1>5. 0..m \subseteq T
  BY <1>1, <1>3, <1>4, Induction
<1>6. m \in T
  BY <1>1, <1>5
<1> QED BY <1>2, <1>6 DEF T

-----------------------------------------------------------------------------
(* What follows a component.                                             *)

LEMMA FollowingType ==
  ASSUME g \in Graphs, NEW c \in Ids, NEW cs \in Following(c)
  PROVE  cs \in Seq(Ids)
<1>1. /\ g.kind \in [Ids -> Kinds] /\ g.down \in [Ids -> Seq(Ids)]
      /\ g.parent \in [Ids -> Ids \cup {"none"}]
      /\ \A d \in Ids : g.kind[d] \in {"item", "exit"} => g.parent[d] # "none"
      /\ \A d \in Ids : g.kind[d] = "loop" => \E e \in Ids : Starts(g, e, d)
      /\ \A d \in Ids : g.parent[d] # "none" => \E e \in Ids : Starts(g, e, g.parent[d])
  BY GraphAssumption
<1>2. g.down[c] \in Seq(Ids) /\ Kind(c) \in Kinds
  BY <1>1 DEF Kind
<1>3. Kind(c) \in {"item", "exit"} => g.parent[c] \in Ids /\ g.down[g.parent[c]] \in Seq(Ids)
  BY <1>1 DEF Kind
<1>4. \A p : (\E e \in Ids : Starts(g, e, p)) => StartOf(p) \in Ids
  BY DEF StartOf
<1>5. Kind(c) = "loop" => <<StartOf(c)>> \in Seq(Ids)
  BY <1>1, <1>4 DEF Kind
<1>6. InLoop(c) => <<StartOf(g.parent[c])>> \in Seq(Ids)
  BY <1>1, <1>4 DEF InLoop
<1>7. \A S : Picked(g.down[c], S) \in Seq(Ids)
  BY <1>2, PickedType
<1>8. CASE Kind(c) = "item" /\ count[c] = -1
  BY <1>3, <1>8 DEF Following
<1>9. CASE Kind(c) = "switch"
  BY <1>7, <1>9 DEF Following
<1>10. CASE Kind(c) = "loop"
  BY <1>5, <1>10 DEF Following
<1>11. CASE Kind(c) = "exit"
  BY <1>3, <1>11 DEF Following
<1>12. CASE Kind(c) \in {"plain", "fillup"} /\ g.down[c] = <<>> /\ InLoop(c)
  BY <1>6, <1>12 DEF Following
<1>13. CASE /\ ~ (Kind(c) = "item" /\ count[c] = -1) /\ Kind(c) \notin {"switch", "loop", "exit"}
            /\ ~ (Kind(c) \in {"plain", "fillup"} /\ g.down[c] = <<>> /\ InLoop(c))
  BY <1>2, <1>13 DEF Following
<1> QED BY <1>8, <1>9, <1>10, <1>11, <1>12, <1>13

LEMMA FillUpsType ==
  ASSUME NEW s \in Seq(Ids)
  PROVE  FillUpsFirst(s) \in Seq(Ids)
BY PickedType, ConcatProperties DEF FillUpsFirst

LEMMA JoinFacts ==
  ASSUME NEW a \in Seq(Ids), NEW b \in Seq(Ids)
  PROVE  a \o b \in Seq(Ids) /\ Len(a \o b) = Len(a) + Len(b) /\ \A j \in 1..Len(a) : (a \o b)[j] = a[j]
<1>1. Len(a) \in Nat /\ Len(b) \in Nat
  OBVIOUS
<1>2. \A j \in 1..Len(a) : j \in 1..(Len(a) + Len(b)) /\ j <= Len(a)
  BY <1>1
<1>3. /\ a \o b \in Seq(Ids) /\ Len(a \o b) = Len(a) + Len(b)
      /\ \A j \in 1..(Len(a) + Len(b)) : (a \o b)[j] = IF j <= Len(a) THEN a[j] ELSE b[j - Len(a)]
  BY ConcatProperties, Zenon
<1> QED BY <1>2, <1>3, Zenon

(* A pop moves what is behind it forward by one.                           *)
LEMMA PopFacts ==
  ASSUME NEW s \in Seq(Ids), NEW p \in 1..Len(s)
  PROVE  \A t : t = SubSeq(s, 1, p - 1) \o SubSeq(s, p + 1, Len(s)) =>
           /\ t \in Seq(Ids) /\ Len(t) = Len(s) - 1 /\ \A j \in 1..(p - 1) : t[j] = s[j]
           /\ \A j \in p..Len(t) : t[j] = s[j + 1]
<1>0. p \in Nat /\ Len(s) \in Nat /\ 1 <= p /\ p <= Len(s)
  OBVIOUS
<1>1. PICK a : a = SubSeq(s, 1, p - 1)
  OBVIOUS
<1>2. PICK b : b = SubSeq(s, p + 1, Len(s))
  OBVIOUS
<1>3. a \in Seq(Ids) /\ Len(a) = p - 1 /\ \A j \in 1..(p - 1) : a[j] = s[j]
  BY <1>0, <1>1, SubSeqProperties
<1>4. b \in Seq(Ids) /\ Len(b) = Len(s) - p /\ \A j \in 1..(Len(s) - p) : b[j] = s[p + j]
  BY <1>0, <1>2, SubSeqProperties
<1>5. a \o b \in Seq(Ids) /\ Len(a \o b) = Len(a) + Len(b) /\ \A j \in 1..Len(a) : (a \o b)[j] = a[j]
  BY <1>3, <1>4, JoinFacts
<1>6. Len(a) + Len(b) = Len(s) - 1
  BY <1>0, <1>3, <1>4
<1>7. a \o b \in Seq(Ids) /\ Len(a \o b) = Len(s) - 1 /\ \A j \in 1..(p - 1) : (a \o b)[j] = s[j]
  BY <1>3, <1>5, <1>6, Zenon
<1>8. ASSUME NEW j \in p..Len(a \o b) PROVE (a \o b)[j] = s[j + 1]
  <2>1. j \in 1..(Len(a) + Len(b)) /\ ~ (j <= Len(a)) /\ j - Len(a) = j - p + 1
    BY <1>0, <1>3, <1>4, <1>7
  <2>2. (a \o b)[j] = b[j - Len(a)]
    BY <1>3, <1>4, <2>1, ConcatProperties
  <2>3. j - p + 1 \in 1..(Len(s) - p) /\ p + (j - p + 1) = j + 1
    BY <1>0, <1>7
  <2> QED BY <1>4, <2>1, <2>2, <2>3
<1>9. PICK u : u = a \o b
  OBVIOUS
<1>10. /\ u \in Seq(Ids) /\ Len(u) = Len(s) - 1 /\ \A j \in 1..(p - 1) : u[j] = s[j]
       /\ \A j \in p..Len(u) : u[j] = s[j + 1]
  BY <1>7, <1>8, <1>9, Zenon
<1> QED BY <1>1, <1>2, <1>9, <1>10, Zenon

(* What a component's end does to the path.                                *)
LEMMA FinishedKeeps ==
  ASSUME g \in Graphs, path \in Seq(Ids), pos \in 1..Len(path), node_finished
  PROVE  Keeps(path, path')
<1>1. path[pos] \in Ids
  OBVIOUS
<1>2. g.goto[path[pos]] \in Seq(Ids)
  BY <1>1, GraphAssumption
<1>3. CASE path' = path \o g.goto[path[pos]]
  BY <1>2, <1>3, ConcatProperties DEF Keeps
<1>4. CASE \E cs \in Following(path[pos]) : path' = Extended(path, cs)
  BY <1>1, <1>4, FollowingType, ExtendedKeeps
<1> QED BY <1>3, <1>4 DEF node_finished

-----------------------------------------------------------------------------
(* Reachability along the drawing.                                         *)

LEMMA Drawn ==
  ASSUME g \in Graphs, NEW c \in Ids
  PROVE  /\ g.down[c] \in Seq(Ids) /\ Elements(g.down[c]) \subseteq Ids
         /\ g.down[c] = <<>> => Elements(g.down[c]) = {}
         /\ g.needs[c] \subseteq Ids
BY GraphAssumption DEF Elements

LEMMA FromSelf ==
  ASSUME NEW c \in Ids
  PROVE  c \in From(c)
BY DEF From

LEMMA FromStep ==
  ASSUME g \in Graphs, NEW c \in Ids, NEW d \in From(c), NEW e \in Elements(g.down[d])
  PROVE  e \in From(c)
<1>1. d \in Ids /\ e \in Ids
  BY Drawn DEF From
<1>2. ASSUME NEW S \in SUBSET Ids, c \in S, Closed(S) PROVE e \in S
  <2>1. d \in S
    BY <1>2 DEF From
  <2> QED BY <1>2, <2>1 DEF Closed
<1> QED BY <1>1, <1>2 DEF From

LEMMA FromTrans ==
  ASSUME NEW c \in Ids, NEW d \in From(c), NEW e \in From(d)
  PROVE  e \in From(c)
BY DEF From

(* The first edge of a way.                                                *)
LEMMA FromFirst ==
  ASSUME g \in Graphs, NEW c \in Ids, NEW d \in From(c), d # c
  PROVE  d \in Below(c)
<1> DEFINE S == {c} \cup Below(c)
<1>1. Elements(g.down[c]) \subseteq Ids
  BY Drawn
<1>2. S \in SUBSET Ids
  BY <1>1 DEF Below, From
<1>3. ASSUME NEW x \in S, NEW y \in Elements(g.down[x]) PROVE y \in S
  <2>1. CASE x = c
    BY <1>1, <1>3, <2>1, FromSelf DEF Below
  <2>2. CASE x # c
    <3>1. PICK w \in Elements(g.down[c]) : x \in From(w)
      BY <2>2 DEF Below
    <3>2. y \in From(w)
      BY <1>1, <3>1, FromStep
    <3> QED BY <3>2 DEF Below
  <2> QED BY <2>1, <2>2
<1>4. Closed(S)
  BY <1>3 DEF Closed
<1> HIDE DEF S
<1>5. d \in S
  BY <1>2, <1>4 DEF From, S
<1> QED BY <1>5 DEF S

LEMMA BelowFacts ==
  ASSUME g \in Graphs, NEW c \in Ids, NEW d \in Below(c)
  PROVE  /\ d \in Ids /\ d \in From(c)
         /\ \E w \in Elements(g.down[c]) : d = w \/ d \in Below(w)
<1>1. PICK w \in Elements(g.down[c]) : d \in From(w)
  BY DEF Below
<1>2. w \in Ids /\ w \in From(c)
  BY Drawn, FromSelf, FromStep
<1>3. d \in Ids /\ d \in From(c)
  BY <1>1, <1>2, FromTrans DEF From
<1>4. d = w \/ d \in Below(w)
  BY <1>1, <1>2, FromFirst
<1> QED BY <1>3, <1>4

LEMMA BelowTrans ==
  ASSUME g \in Graphs, NEW c \in Ids, NEW d \in Below(c), NEW e \in Below(d)
  PROVE  e \in Below(c)
<1>1. PICK w \in Elements(g.down[c]) : d \in From(w)
  BY DEF Below
<1>2. d \in Ids /\ w \in Ids
  BY Drawn, BelowFacts
<1>3. e \in From(d)
  BY <1>2, BelowFacts
<1>4. e \in From(w)
  BY <1>1, <1>2, <1>3, FromTrans
<1> QED BY <1>4 DEF Below

LEMMA ReachableBelow ==
  ASSUME g \in Graphs, NEW c \in Reachable, NEW d \in Below(c)
  PROVE  d \in Reachable
<1>1. "begin" \in Ids /\ c \in Ids
  BY CanvasAssumption DEF Reachable, From
<1>2. d \in From(c)
  BY <1>1, BelowFacts
<1> QED BY <1>1, <1>2, FromTrans DEF Reachable

(* Where nothing leads back, some component is below no other.             *)
LEMMA Uppermost ==
  ASSUME g \in Graphs, Straight, NEW U \in SUBSET Reachable, U # {}
  PROVE  \E c \in U : \A d \in U : c \notin Below(d)
<1> DEFINE Up(c) == {d \in U : c \in Below(d)}
           T == {Cardinality(Up(c)) : c \in U}
<1>1. U \subseteq Ids /\ IsFiniteSet(U)
  BY CanvasAssumption, FS_Subset DEF Reachable, From
<1>2. \A c \in U : IsFiniteSet(Up(c)) /\ Cardinality(Up(c)) \in Nat
  BY <1>1, FS_Subset, FS_CardinalityType
<1>3. T \in SUBSET Nat /\ T # {}
  BY <1>2
<1>4. PICK n \in T : \A k \in T : n <= k
  BY <1>3, LeastOf
<1>5. PICK c \in U : n = Cardinality(Up(c))
  BY <1>4
<1>6. ASSUME NEW d \in U, c \in Below(d) PROVE FALSE
  <2>1. d \notin Up(d)
    BY DEF Straight
  <2>2. d \in Up(c)
    BY <1>6
  <2>3. Up(d) \subseteq Up(c)
    <3> SUFFICES ASSUME NEW x \in U, d \in Below(x) PROVE c \in Below(x)
      OBVIOUS
    <3> QED BY <1>1, <1>6, BelowTrans
  <2>4. Up(d) # Up(c)
    BY <2>1, <2>2
  <2> HIDE DEF Up
  <2>5. Cardinality(Up(d)) < Cardinality(Up(c))
    <3>1. IsFiniteSet(Up(c))
      BY <1>2
    <3>2. \A x \in SUBSET Up(c) : Cardinality(x) = Cardinality(Up(c)) => x = Up(c)
      BY <3>1, FS_Subset
    <3>3. Cardinality(Up(d)) <= Cardinality(Up(c))
      BY <2>3, <3>1, FS_Subset
    <3> QED BY <1>2, <2>3, <2>4, <3>2, <3>3
  <2>6. Cardinality(Up(d)) \in T
    OBVIOUS
  <2> QED BY <1>2, <1>4, <1>5, <2>5, <2>6
<1> QED BY <1>6

-----------------------------------------------------------------------------
(* What a path still has to do.                                            *)

(* The components before position f of path p, and those from r on.        *)
Seen(p, f) == {p[j] : j \in 1..(f - 1)}
Live(p, r) == {p[j] : j \in r..Len(p)}

(* What was let in had its inputs in the path.                             *)
LetIn(p, f) ==
  \A j \in 1..(f - 1) : p[j] \in Reachable /\ p[j] # "begin" => g.needs[p[j]] \subseteq Seen(p, j)

(* A component not seen so far is still in the path, or is below one that  *)
(* is not seen or still in the path.                                       *)
Owed(p, f, r) ==
  \A y \in Reachable : y \in Seen(p, f) \cup Live(p, r) \/
    \E z \in Reachable : y \in Below(z) /\ (z \notin Seen(p, f) \/ z \in Live(p, r))

LEMMA OwedAtStart ==
  ASSUME g \in Graphs
  PROVE  Owed(<<"begin">>, 1, 1) /\ LetIn(<<"begin">>, 1)
<1> DEFINE p == <<"begin">>
<1>1. Seen(p, 1) = {} /\ Live(p, 1) = {"begin"} /\ LetIn(p, 1)
  BY DEF Seen, Live, LetIn
<1>2. "begin" \in Ids /\ "begin" \in Reachable
  BY CanvasAssumption, FromSelf DEF Reachable
<1>3. \A y \in Reachable : y = "begin" \/ y \in Below("begin")
  BY <1>2, FromFirst DEF Reachable
<1> QED BY <1>1, <1>2, <1>3 DEF Owed

(* A component is launched.                                                *)
LEMMA OwedLaunch ==
  ASSUME NEW p \in Seq(Ids), NEW f \in 1..Len(p), NEW r \in 1..f, Owed(p, f, r), LetIn(p, f),
         p[f] \in Reachable /\ p[f] # "begin" => g.needs[p[f]] \subseteq Seen(p, f)
  PROVE  Owed(p, f + 1, r) /\ LetIn(p, f + 1)
<1>1. Seen(p, f + 1) = Seen(p, f) \cup {p[f]} /\ p[f] \in Live(p, r)
  BY DEF Seen, Live
<1>2. Owed(p, f + 1, r)
  BY <1>1 DEF Owed
<1>3. \A j \in 1..f : j \in 1..(f - 1) \/ j = f
  OBVIOUS
<1> QED BY <1>2, <1>3 DEF LetIn

(* A component is taken off the path: one of its inputs is not seen.       *)
LEMMA OwedPop ==
  ASSUME g \in Graphs, Straight, NEW p \in Seq(Ids), NEW f \in 1..Len(p), NEW r \in 1..f,
         Owed(p, f, r), LetIn(p, f), p[f] # "begin", ~ (g.needs[p[f]] \subseteq Seen(p, f)),
         NEW q \in Seq(Ids), Len(q) = Len(p) - 1, \A j \in 1..(f - 1) : q[j] = p[j],
         \A j \in f..Len(q) : q[j] = p[j + 1]
  PROVE  Owed(q, f, r) /\ LetIn(q, f)
<1>0. Len(p) \in Nat /\ Len(q) \in Nat
  OBVIOUS
<1>1. \A k \in 1..f : Seen(q, k) = Seen(p, k)
  BY <1>0 DEF Seen
<1>2. LetIn(q, f)
  BY <1>0, <1>1 DEF LetIn
<1>3. ASSUME NEW z \in Live(p, r), z # p[f] PROVE z \in Live(q, r)
  <2>1. PICK j \in r..Len(p) : z = p[j]
    BY DEF Live
  <2>2. CASE j < f
    <3>1. j \in r..Len(q) /\ q[j] = p[j]
      BY <1>0, <2>2
    <3> QED BY <2>1, <3>1 DEF Live
  <2>3. CASE j > f
    <3>1. j - 1 \in r..Len(q) /\ j - 1 \in f..Len(q) /\ (j - 1) + 1 = j
      BY <1>0, <2>3
    <3>2. q[j - 1] = p[j]
      BY <3>1
    <3> QED BY <2>1, <3>1, <3>2 DEF Live
  <2> QED BY <1>0, <1>3, <2>1, <2>2, <2>3
<1>4. PICK d \in g.needs[p[f]] : d \notin Seen(p, f)
  OBVIOUS
<1>5. p[f] \in Reachable => d \in Reachable /\ p[f] \in Below(d)
  BY <1>4 DEF Straight
<1>6. ASSUME p[f] \in Reachable PROVE p[f] \notin Seen(p, f)
  <2> SUFFICES ASSUME NEW j \in 1..(f - 1), p[f] = p[j] PROVE FALSE
    BY DEF Seen
  <2>1. g.needs[p[f]] \subseteq Seen(p, j)
    BY <1>6 DEF LetIn
  <2>2. Seen(p, j) \subseteq Seen(p, f)
    BY DEF Seen
  <2> QED BY <1>4, <2>1, <2>2
<1>7. Seen(q, f) = Seen(p, f)
  BY <1>1
<1>8. ASSUME NEW y \in Reachable
      PROVE  y \in Seen(q, f) \cup Live(q, r) \/
               \E z \in Reachable : y \in Below(z) /\ (z \notin Seen(q, f) \/ z \in Live(q, r))
  <2>1. CASE y \in Seen(p, f) \cup Live(p, r)
    BY <1>3, <1>4, <1>5, <1>7, <2>1
  <2>2. ASSUME NEW z \in Reachable, y \in Below(z), z \notin Seen(p, f) \/ z \in Live(p, r)
        PROVE  z \notin Seen(q, f) \/ z \in Live(q, r)
    BY <1>3, <1>6, <1>7, <2>2
  <2> QED BY <2>1, <2>2 DEF Owed
<1> QED BY <1>2, <1>8 DEF Owed

(* A component has run, and what is downstream of it is appended.          *)
LEMMA OwedFinished ==
  ASSUME g \in Graphs, Straight, NEW p \in Seq(Ids), NEW f \in 1..(Len(p) + 1), NEW r \in 1..(f - 1),
         Owed(p, f, r), LetIn(p, f), NEW q, Keeps(p, q),
         p[r] \in Reachable => \A w \in Elements(g.down[p[r]]) : \E j \in Len(p)..Len(q) : q[j] = w
  PROVE  Owed(q, f, r + 1) /\ LetIn(q, f)
<1>0. Len(p) \in Nat /\ Len(q) \in Nat /\ Len(p) <= Len(q) /\ r <= Len(p) /\ r \in Nat /\ p[r] \in Ids
  BY DEF Keeps
<1>1. \A k \in 1..f : Seen(q, k) = Seen(p, k)
  BY <1>0 DEF Seen, Keeps
<1>2. LetIn(q, f)
  BY <1>0, <1>1 DEF LetIn, Keeps
<1>3. ASSUME NEW z \in Live(p, r), z # p[r] PROVE z \in Live(q, r + 1)
  <2>1. PICK j \in r..Len(p) : z = p[j]
    BY DEF Live
  <2>2. j \in (r + 1)..Len(q) /\ q[j] = p[j]
    BY <1>0, <1>3, <2>1 DEF Keeps
  <2> QED BY <2>1, <2>2 DEF Live
<1>4. p[r] \in Seen(q, f) /\ Seen(q, f) = Seen(p, f)
  <2>1. Seen(q, f) = Seen(p, f)
    BY <1>0, <1>1
  <2>2. p[r] \in Seen(p, f)
    BY <1>0 DEF Seen
  <2> QED BY <2>1, <2>2
<1>5. ASSUME p[r] \in Reachable, NEW w \in Elements(g.down[p[r]])
      PROVE  w \in Live(q, r + 1) /\ w \in Reachable
  <2>1. PICK j \in Len(p)..Len(q) : q[j] = w
    BY <1>5
  <2>2. w \in Ids /\ w \in Below(p[r])
    BY <1>0, <1>5, Drawn, FromSelf DEF Below
  <2>3. w # p[r]
    BY <1>5, <2>2 DEF Straight
  <2>4. j # r
    BY <1>0, <2>1, <2>3 DEF Keeps
  <2>5. j \in (r + 1)..Len(q)
    BY <1>0, <2>1, <2>4
  <2> QED BY <1>5, <2>1, <2>2, <2>5, ReachableBelow DEF Live
<1>6. ASSUME NEW y \in Reachable
      PROVE  y \in Seen(q, f) \cup Live(q, r + 1) \/
               \E z \in Reachable : y \in Below(z) /\ (z \notin Seen(q, f) \/ z \in Live(q, r + 1))
  <2>1. CASE y \in Seen(p, f) \cup Live(p, r)
    BY <1>3, <1>4, <2>1
  <2>2. CASE \E z \in Reachable : y \in Below(z) /\ (z \notin Seen(p, f) \/ z \in Live(p, r))
    <3>1. PICK z \in Reachable : y \in Below(z) /\ (z \notin Seen(p, f) \/ z \in Live(p, r))
      BY <2>2
    <3>2. CASE z = p[r]
      <4>1. PICK w \in Elements(g.down[z]) : y = w \/ y \in Below(w)
        BY <1>0, <3>1, <3>2, BelowFacts
      <4>2. w \in Live(q, r + 1) /\ w \in Reachable
        BY <1>5, <3>2, <4>1
      <4> QED BY <4>1, <4>2
    <3>3. CASE z # p[r]
      BY <1>3, <1>4, <3>1, <3>3
    <3> QED BY <3>2, <3>3
  <2> QED BY <2>1, <2>2 DEF Owed
<1> QED BY <1>2, <1>6 DEF Owed

(* A path with nothing left has seen everything.                           *)
LEMMA OwedAtEnd ==
  ASSUME g \in Graphs, Straight, NEW p \in Seq(Ids), NEW f, f = Len(p) + 1, Owed(p, f, f)
  PROVE  Reachable \subseteq Seen(p, f)
<1> DEFINE U == Reachable \ Seen(p, f)
<1> SUFFICES ASSUME U # {} PROVE FALSE
  OBVIOUS
<1>1. Live(p, f) = {}
  BY DEF Live
<1>2. PICK y \in U : \A z \in U : y \notin Below(z)
  BY Uppermost
<1> QED BY <1>1, <1>2 DEF Owed

-----------------------------------------------------------------------------
(* The inductive invariant.                                                *)

Types == TypeOK /\ idx \in Nat /\ pos \in Nat /\ to \in Nat

(* The batch is the tail of the path until it has run; what is launched    *)
(* runs or has run.                                                        *)
BatchInv ==
  /\ at # "idle" => idx >= 1
  /\ at \in {"launch", "batch"} => to = Len(path) + 1
  /\ at = "launch" => running = idx..(pos - 1)
  /\ at = "batch" => \A j \in idx..(to - 1) : j \in running \/ path[j] \in done
  /\ at = "post" => \A j \in idx..(to - 1) : path[j] \in done
  /\ at \in {"idle", "post"} => running = {}

(* The first turn starts from begin; what is before the batch has run.     *)
FirstInv ==
  /\ turns = 0 => saved = <<>> /\ at = "idle"
  /\ turns = 1 /\ at # "idle" =>
       /\ Len(path) >= 1 /\ path[1] = "begin"
       /\ \A j \in 1..(idx - 1) : path[j] \in done

(* Up to where components were let in, and from where they are still to be *)
(* looked at.                                                              *)
Front == IF at = "launch" THEN pos ELSE to
Rest == IF at = "post" THEN pos ELSE idx

PendingInv ==
  turns = 1 /\ at # "idle" /\ failed = {} /\ Straight =>
    Owed(path, Front, Rest) /\ LetIn(path, Front)

CanvasInv == Types /\ BatchInv /\ FirstInv /\ InputsHaveRun /\ PendingInv /\ NothingIsForgotten

(* What a message starts from.                                             *)
LEMMA RunFacts ==
  ASSUME Types, run
  PROVE  /\ path' \in Seq(Ids) /\ Len(path') \in Nat /\ Len(path') >= 1
         /\ (saved = <<>> => path' = <<"begin">>)
<1>1. saved \in Seq(Ids) /\ "begin" \in Ids
  BY CanvasAssumption DEF Types, TypeOK
<1>2. saved = <<>> => path' = <<"begin">>
  BY DEF run
<1>3. ASSUME saved # <<>>, path' = saved
      PROVE  path' \in Seq(Ids) /\ Len(path') \in Nat /\ Len(path') >= 1
  BY <1>1, <1>3, EmptySeq
<1>4. ASSUME path' = Append(saved, "begin")
      PROVE  path' \in Seq(Ids) /\ Len(path') \in Nat /\ Len(path') >= 1
  <2>1. Append(saved, "begin") \in Seq(Ids) /\ Len(Append(saved, "begin")) = Len(saved) + 1
    BY <1>1, AppendProperties
  <2> QED BY <1>1, <1>4, <2>1
<1>5. (saved # <<>> /\ path' = saved) \/ path' = Append(saved, "begin")
  BY DEF run
<1> QED BY <1>2, <1>3, <1>4, <1>5

LEMMA TypesNext ==
  ASSUME Types, BatchInv, [Next]_vars
  PROVE  Types'
<1> USE CanvasAssumption DEF Types, TypeOK
<1>1. CASE run
  <2>1. path' \in Seq(Ids) /\ Len(path') \in Nat /\ Len(path') >= 1
    BY <1>1, RunFacts
  <2>2. count' \in [Ids -> -1..max_loop] /\ turns' \in 0..MaxTurns
    BY <1>1 DEF run
  <2>3. running' = {} /\ idx' = Len(path') /\ pos' = Len(path') /\ to' = Len(path') + 1 /\ at' = "launch"
    BY <1>1 DEF run, BatchInv
  <2>4. /\ done' = {} /\ failed' = {} /\ error' = FALSE /\ outcome' = "none"
        /\ UNCHANGED <<g, saved, canceled>>
    BY <1>1 DEF run
  <2>5. /\ idx' \in Nat /\ pos' \in Nat /\ to' \in Nat /\ idx' <= pos' /\ pos' <= to'
        /\ to' <= Len(path') + 1
    BY <2>1, <2>3
  <2>6. error' \in BOOLEAN /\ canceled' \in BOOLEAN
    BY <2>4
  <2>7. g' \in Graphs /\ saved' \in Seq(Ids)
    BY <2>4
  <2> QED BY <2>1, <2>2, <2>3, <2>4, <2>5, <2>6, <2>7
<1>2. CASE cancel_task
  BY <1>2 DEF cancel_task
<1>3. CASE canceled_at_batch
  BY <1>3 DEF canceled_at_batch, BatchInv
<1>4. CASE launch
  BY <1>4 DEF launch
<1>5. CASE pop
  <2>1. pos \in 1..Len(path)
    BY <1>5 DEF pop, BatchInv
  <2>0. /\ at = "launch" /\ pos < to /\ to' = to - 1 /\ ~ Ready(pos)
        /\ UNCHANGED <<g, at, idx, pos, running, done, failed, error, count, saved, canceled, turns,
                       launched, outcome>>
    BY <1>5 DEF pop
  <2>2. path' \in Seq(Ids) /\ Len(path') = Len(path) - 1
    BY <1>5, <2>1, PopFacts DEF pop
  <2>3. running' = idx..(pos - 1) /\ idx <= pos /\ to <= Len(path) + 1 /\ Len(path) \in Nat
    BY <2>0 DEF BatchInv
  <2>4. \A i \in running' : at = "launch" /\ i \in idx..(to' - 1)
    BY <2>0, <2>3
  <2> QED BY <2>0, <2>1, <2>2, <2>3, <2>4
<1>6. CASE gather
  BY <1>6 DEF gather
<1>7. ASSUME NEW i \in running, invoke(i) PROVE Types'
  <2>1. path[i] \in Ids
    BY <1>7 DEF invoke, BatchInv
  <2>2. count' \in [Ids -> -1..max_loop]
    <3>1. -1 \in -1..max_loop /\ Counted(path[i]) \in -1..max_loop
      <4>1. max_loop \in Nat /\ count[path[i]] \in -1..max_loop
        BY <2>1
      <4> QED BY <4>1 DEF Counted
    <3>2. UNCHANGED count \/ \E n \in {Counted(path[i]), -1} : count' = [count EXCEPT ![path[i]] = n]
      BY <1>7 DEF invoke
    <3> QED BY <2>1, <3>1, <3>2
  <2>3. done' \in SUBSET Ids /\ failed' \in SUBSET Ids
    BY <1>7, <2>1 DEF invoke
  <2> QED BY <1>7, <2>2, <2>3 DEF invoke
<1>8. CASE gathered
  BY <1>8 DEF gathered
<1>9. CASE node_finished
  <2>1. pos \in 1..Len(path)
    BY <1>9 DEF node_finished, BatchInv
  <2>2. path' \in Seq(Ids) /\ Len(path) <= Len(path')
    BY <1>9, <2>1, FinishedKeeps DEF Keeps
  <2>3. error' \in BOOLEAN
    BY <1>9 DEF node_finished
  <2>4. /\ at = "post" /\ pos < to /\ pos' = pos + 1
        /\ UNCHANGED <<g, at, idx, to, running, done, failed, count, saved, canceled, turns, launched,
                       outcome>>
    BY <1>9 DEF node_finished
  <2>5. running' = {} /\ pos' \in Nat /\ idx' <= pos' /\ pos' <= to'
    BY <2>4 DEF BatchInv
  <2>6. to' <= Len(path') + 1
    BY <2>2, <2>4
  <2> QED BY <2>2, <2>3, <2>4, <2>5, <2>6
<1>10. CASE raises
  BY <1>10 DEF raises
<1>11. CASE batch_ends
  <2>1. at = "post" /\ pos = to /\ idx >= 1 /\ running = {} /\ to \in 1..(Len(path) + 1) /\ Len(path) \in Nat
    BY <1>11 DEF batch_ends, BatchInv
  <2>2. UNCHANGED <<g, running, done, failed, error, count, canceled, turns>>
    BY <1>11 DEF batch_ends
  <2>3. ASSUME NEW how \in {"error", "asks", "finished"}, NEW p \in Seq(Ids), Ends(how, p)
        PROVE Types'
    BY <2>1, <2>2, <2>3 DEF Ends
  <2>4. SubSeq(path, 1, idx - 1) \in Seq(Ids)
    <3>1. idx - 1 <= Len(path)
      BY <2>1
    <3> QED BY <3>1, <2>1, SubSeqProperties
  <2>5. FillUpsFirst(Tail_(to)) \in Seq(Ids)
    <3>1. Tail_(to) \in Seq(Ids)
      BY <2>1, SubSeqProperties DEF Tail_
    <3> QED BY <3>1, FillUpsType
  <2>6. CASE at' = "launch" /\ idx' = to /\ pos' = to /\ to' = Len(path) + 1 /\ UNCHANGED <<path, saved, outcome>>
    BY <2>1, <2>2, <2>6
  <2> QED BY <1>11, <2>3, <2>4, <2>5, <2>6 DEF batch_ends
<1>12. CASE UNCHANGED vars
  BY <1>12 DEF vars
<1> QED BY <1>1, <1>2, <1>3, <1>4, <1>5, <1>6, <1>7, <1>8, <1>9, <1>10, <1>11, <1>12 DEF Next,
  Engine

LEMMA BatchNext ==
  ASSUME Types, BatchInv, [Next]_vars
  PROVE  BatchInv'
<1> USE DEF BatchInv
<1>0. /\ idx \in Nat /\ pos \in Nat /\ to \in Nat /\ path \in Seq(Ids) /\ Len(path) \in Nat
      /\ at \in {"idle", "launch", "batch", "post"}
      /\ at # "idle" => idx <= pos /\ pos <= to /\ to <= Len(path) + 1
      /\ \A i \in running : i \in idx..(to - 1)
  BY DEF Types, TypeOK
<1>1. CASE run
  <2>1. Len(path') \in Nat /\ Len(path') >= 1
    BY <1>1, RunFacts
  <2>2. running' = {} /\ idx' = Len(path') /\ pos' = Len(path') /\ to' = Len(path') + 1 /\ at' = "launch"
    BY <1>1 DEF run
  <2> QED BY <2>1, <2>2
<1>2. CASE cancel_task
  BY <1>2, <1>0 DEF cancel_task
<1>3. CASE canceled_at_batch
  BY <1>3, <1>0 DEF canceled_at_batch
<1>4. CASE launch
  BY <1>4, <1>0 DEF launch
<1>5. CASE pop
  <2>1. pos \in 1..Len(path)
    BY <1>5, <1>0 DEF pop
  <2>0. /\ at = "launch" /\ pos < to /\ to' = to - 1 /\ ~ Ready(pos)
        /\ UNCHANGED <<g, at, idx, pos, running, done, failed, error, count, saved, canceled, turns,
                       launched, outcome>>
    BY <1>5 DEF pop
  <2>2. Len(path') = Len(path) - 1
    BY <1>5, <1>0, <2>1, PopFacts DEF pop
  <2> QED BY <1>0, <2>0, <2>2
<1>6. CASE gather
  BY <1>6, <1>0 DEF gather
<1>7. ASSUME NEW i \in running, invoke(i) PROVE BatchInv'
  BY <1>7, <1>0 DEF invoke
<1>8. CASE gathered
  BY <1>8, <1>0 DEF gathered
<1>9. CASE node_finished
  <2>1. pos \in 1..Len(path)
    BY <1>9, <1>0 DEF node_finished
  <2>2. \A j \in 1..Len(path) : path'[j] = path[j]
    <3>1. g \in Graphs
      BY DEF Types, TypeOK
    <3>2. Keeps(path, path')
      BY <1>9, <1>0, <2>1, <3>1, FinishedKeeps
    <3> QED BY <3>2 DEF Keeps
  <2>0. /\ at = "post" /\ pos < to /\ pos' = pos + 1
        /\ UNCHANGED <<g, at, idx, to, running, done, failed, count, saved, canceled, turns, launched,
                       outcome>>
    BY <1>9 DEF node_finished
  <2> QED BY <1>0, <2>0, <2>2
<1>10. CASE raises
  BY <1>10, <1>0 DEF raises
<1>11. CASE batch_ends
  <2>1. at = "post" /\ running = {} /\ running' = running
    BY <1>11 DEF batch_ends
  <2>2. CASE at' = "idle"
    BY <2>1, <2>2
  <2>3. CASE at' = "launch" /\ idx' = to /\ pos' = to /\ to' = Len(path) + 1 /\ path' = path
    BY <1>0, <2>1, <2>3
  <2> QED BY <1>11, <2>2, <2>3 DEF batch_ends, Ends
<1>12. CASE UNCHANGED vars
  BY <1>12, <1>0 DEF vars
<1> QED BY <1>1, <1>2, <1>3, <1>4, <1>5, <1>6, <1>7, <1>8, <1>9, <1>10, <1>11, <1>12 DEF Next,
  Engine

LEMMA FirstNext ==
  ASSUME Types, BatchInv, FirstInv, [Next]_vars
  PROVE  FirstInv'
<1> USE DEF FirstInv
<1>0. /\ idx \in Nat /\ pos \in Nat /\ to \in Nat /\ path \in Seq(Ids) /\ Len(path) \in Nat
      /\ at \in {"idle", "launch", "batch", "post"} /\ turns \in Nat
      /\ at # "idle" => idx <= pos /\ pos <= to /\ to <= Len(path) + 1 /\ idx >= 1
  BY CanvasAssumption DEF Types, TypeOK, BatchInv
<1>1. CASE run
  <2>1. Len(path') \in Nat /\ Len(path') >= 1 /\ (saved = <<>> => path' = <<"begin">>)
    BY <1>1, RunFacts
  <2>2. turns' = turns + 1 /\ idx' = Len(path') /\ at' = "launch"
    BY <1>1 DEF run
  <2> QED BY <1>0, <2>1, <2>2
<1>2. CASE cancel_task
  BY <1>2, <1>0 DEF cancel_task
<1>3. CASE canceled_at_batch
  BY <1>3, <1>0 DEF canceled_at_batch
<1>4. CASE launch
  BY <1>4, <1>0 DEF launch
<1>5. CASE pop
  <2>1. pos \in 1..Len(path)
    BY <1>5, <1>0 DEF pop, BatchInv
  <2>2. Len(path') = Len(path) - 1 /\ \A j \in 1..(pos - 1) : path'[j] = path[j]
    BY <1>5, <1>0, <2>1, PopFacts DEF pop
  <2>0. /\ at = "launch" /\ pos < to /\ to' = to - 1 /\ ~ Ready(pos)
        /\ UNCHANGED <<g, at, idx, pos, running, done, failed, error, count, saved, canceled, turns,
                       launched, outcome>>
    BY <1>5 DEF pop
  <2>3. turns = 1 => pos # 1
    BY <2>0 DEF Ready
  <2>4. turns = 1 => Len(path') >= 1 /\ path'[1] = path[1]
    BY <1>0, <2>1, <2>2, <2>3
  <2> QED BY <1>0, <2>0, <2>1, <2>2, <2>4
<1>6. CASE gather
  BY <1>6, <1>0 DEF gather
<1>7. ASSUME NEW i \in running, invoke(i) PROVE FirstInv'
  BY <1>7, <1>0 DEF invoke
<1>8. CASE gathered
  BY <1>8, <1>0 DEF gathered
<1>9. CASE node_finished
  <2>1. pos \in 1..Len(path)
    BY <1>9, <1>0 DEF node_finished
  <2>2. Len(path) <= Len(path') /\ Len(path') \in Nat /\ \A j \in 1..Len(path) : path'[j] = path[j]
    <3>1. g \in Graphs
      BY DEF Types, TypeOK
    <3>2. Keeps(path, path')
      BY <1>9, <1>0, <2>1, <3>1, FinishedKeeps
    <3> QED BY <3>2 DEF Keeps
  <2>0. /\ at = "post" /\ pos < to /\ pos' = pos + 1
        /\ UNCHANGED <<g, at, idx, to, running, done, failed, count, saved, canceled, turns, launched,
                       outcome>>
    BY <1>9 DEF node_finished
  <2> QED BY <1>0, <2>0, <2>2
<1>10. CASE raises
  BY <1>10, <1>0 DEF raises
<1>11. CASE batch_ends
  BY <1>11, <1>0 DEF batch_ends, Ends, BatchInv
<1>12. CASE UNCHANGED vars
  BY <1>12, <1>0 DEF vars
<1> QED BY <1>1, <1>2, <1>3, <1>4, <1>5, <1>6, <1>7, <1>8, <1>9, <1>10, <1>11, <1>12 DEF Next,
  Engine

LEMMA InputsNext ==
  ASSUME Types, BatchInv, FirstInv, InputsHaveRun, [Next]_vars
  PROVE  InputsHaveRun'
<1> USE DEF InputsHaveRun, Kind
<1>1. CASE run
  BY <1>1 DEF run
<1>2. CASE cancel_task
  BY <1>2 DEF cancel_task
<1>3. CASE canceled_at_batch
  BY <1>3 DEF canceled_at_batch
<1>4. CASE launch
  <2> DEFINE l == [c |-> path[pos], batch |-> {path[j] : j \in idx..(pos - 1)}, finished |-> done]
  <2>1. /\ idx \in Nat /\ pos \in Nat /\ idx >= 1 /\ idx <= pos
    BY <1>4 DEF launch, Types, TypeOK, BatchInv
  <2>2. turns = 1 => Before(pos) \subseteq l.finished \cup l.batch
    BY <1>4, <2>1 DEF launch, Before, FirstInv
  <2>3. turns = 1 => g.kind[path[1]] # "fillup"
    BY <1>4, GraphAssumption DEF launch, FirstInv, Types, TypeOK
  <2>4. turns = 1 /\ l.c # "begin" /\ Kind(l.c) # "fillup" => g.needs[l.c] \subseteq l.finished \cup l.batch
    BY <1>4, <2>2, <2>3 DEF launch, Ready
  <2>5. launched' = launched \cup {l} /\ UNCHANGED <<g, turns>>
    BY <1>4 DEF launch
  <2> HIDE DEF l
  <2> QED BY <2>4, <2>5
<1>5. CASE pop
  BY <1>5 DEF pop
<1>6. CASE gather
  BY <1>6 DEF gather
<1>7. ASSUME NEW i \in running, invoke(i) PROVE InputsHaveRun'
  BY <1>7 DEF invoke
<1>8. CASE gathered
  BY <1>8 DEF gathered
<1>9. CASE node_finished
  BY <1>9 DEF node_finished
<1>10. CASE raises
  BY <1>10 DEF raises
<1>11. CASE batch_ends
  BY <1>11 DEF batch_ends, Ends
<1>12. CASE UNCHANGED vars
  BY <1>12 DEF vars
<1> QED BY <1>1, <1>2, <1>3, <1>4, <1>5, <1>6, <1>7, <1>8, <1>9, <1>10, <1>11, <1>12 DEF Next,
  Engine

(* What depends on the agent alone.                                        *)
LEMMA SameAgent ==
  ASSUME g' = g
  PROVE  /\ Straight' = Straight /\ Reachable' = Reachable
         /\ \A c : Below(c)' = Below(c)
<1>1. /\ \A c : From(c)' = From(c)
      /\ \A c : Below(c)' = Below(c)
  BY DEF From, Closed, Below, Elements
<1>2. Reachable' = Reachable
  BY DEF Reachable, From, Closed, Elements
<1>3. Straight' = Straight
  BY <1>1, <1>2 DEF Straight, Kind
<1> QED BY <1>1, <1>2, <1>3

LEMMA PendingPrimed ==
  ASSUME g' = g
  PROVE  PendingInv' <=>
           (turns' = 1 /\ at' # "idle" /\ failed' = {} /\ Straight =>
              Owed(path', Front', Rest') /\ LetIn(path', Front'))
<1>1. Straight' = Straight /\ Reachable' = Reachable /\ \A c : Below(c)' = Below(c)
  BY SameAgent
<1>2. Owed(path, Front, Rest)' <=> Owed(path', Front', Rest')
  BY <1>1 DEF Owed
<1>3. LetIn(path, Front)' <=> LetIn(path', Front')
  BY <1>1 DEF LetIn
<1> QED BY <1>1, <1>2, <1>3 DEF PendingInv

(* What a component without an exception leads to.                         *)
LEMMA FinishedAdds ==
  ASSUME g \in Graphs, Straight, failed = {}, path \in Seq(Ids), pos \in 1..Len(path), node_finished,
         path[pos] \in Reachable, NEW w \in Elements(g.down[path[pos]])
  PROVE  \E j \in Len(path)..Len(path') : path'[j] = w
<1> DEFINE c == path[pos]
<1>1. c \in Ids /\ Kind(c) = "plain" /\ path # <<>> /\ g.down[c] \in Seq(Ids)
  BY Drawn DEF Straight
<1>2. g.down[c] # <<>>
  BY <1>1, Drawn
<1>3. Following(c) = {g.down[c]}
  BY <1>1, <1>2 DEF Following
<1>4. path' = Extended(path, g.down[c])
  BY <1>3 DEF node_finished
<1>5. PICK k \in 1..Len(g.down[c]) : g.down[c][k] = w
  BY <1>1 DEF Elements
<1> HIDE DEF c
<1>6. \E j \in Len(path)..Len(Extended(path, g.down[c])) : Extended(path, g.down[c])[j] = g.down[c][k]
  BY <1>1, <1>5, ExtendedKeeps
<1> QED BY <1>4, <1>5, <1>6

LEMMA PendingNext ==
  ASSUME Types, BatchInv, FirstInv, PendingInv, [Next]_vars
  PROVE  PendingInv'
<1>1. g' = g /\ g \in Graphs
  BY DEF Next, Engine, run, cancel_task, canceled_at_batch, launch, pop, gather, invoke, gathered,
         node_finished, raises, batch_ends, vars, Types, TypeOK
<1> SUFFICES ASSUME turns' = 1, at' # "idle", failed' = {}, Straight
             PROVE  Owed(path', Front', Rest') /\ LetIn(path', Front')
  BY <1>1, PendingPrimed
<1>2. /\ idx \in Nat /\ pos \in Nat /\ to \in Nat /\ path \in Seq(Ids) /\ Len(path) \in Nat
      /\ at \in {"idle", "launch", "batch", "post"} /\ turns \in Nat
      /\ at # "idle" => idx <= pos /\ pos <= to /\ to <= Len(path) + 1 /\ idx >= 1
  BY CanvasAssumption DEF Types, TypeOK, BatchInv
<1>3. ASSUME turns = 1, at # "idle", failed = {}
      PROVE  Owed(path, Front, Rest) /\ LetIn(path, Front) /\ path[1] = "begin" /\ Kind(path[1]) # "fillup"
  BY <1>1, <1>3, GraphAssumption DEF PendingInv, FirstInv, Kind
<1>4. ASSUME UNCHANGED <<path, turns, failed>>, at # "idle", Front' = Front, Rest' = Rest
      PROVE  Owed(path', Front', Rest') /\ LetIn(path', Front')
  <2>1. Owed(path, Front, Rest) /\ LetIn(path, Front)
    BY <1>3, <1>4
  <2> QED BY <1>4, <2>1
<1>5. CASE run
  <2>1. path' = <<"begin">> /\ Len(path') = 1
    <3>1. turns' = turns + 1
      BY <1>5 DEF run
    <3>2. saved = <<>>
      BY <1>2, <3>1 DEF FirstInv
    <3>3. path' = <<"begin">>
      BY <1>5, <3>2, RunFacts
    <3> QED BY <3>3
  <2>2. Front' = 1 /\ Rest' = 1
    BY <1>5, <2>1 DEF run, Front, Rest
  <2> QED BY <1>1, <2>1, <2>2, OwedAtStart
<1>6. CASE cancel_task
  BY <1>4, <1>6 DEF cancel_task, Front, Rest
<1>7. CASE canceled_at_batch \/ raises
  BY <1>7 DEF canceled_at_batch, raises
<1>8. CASE launch
  <2>1. /\ turns = 1 /\ at = "launch" /\ at' = "launch" /\ failed = {} /\ path' = path /\ Ready(pos)
        /\ Front = pos /\ Rest = idx /\ Front' = pos + 1 /\ Rest' = idx /\ pos < to
    BY <1>8 DEF launch, Front, Rest
  <2>2. Owed(path, pos, idx) /\ LetIn(path, pos) /\ Kind(path[1]) # "fillup"
    BY <1>3, <2>1
  <2>3. pos \in 1..Len(path) /\ idx \in 1..pos
    BY <1>2, <2>1
  <2>4. path[pos] \in Reachable /\ path[pos] # "begin" => g.needs[path[pos]] \subseteq Seen(path, pos)
    BY <2>1, <2>2 DEF Ready, Before, Seen, Straight
  <2>5. Owed(path, pos + 1, idx) /\ LetIn(path, pos + 1)
    BY <1>2, <2>2, <2>3, <2>4, OwedLaunch
  <2> QED BY <2>1, <2>5
<1>9. CASE pop
  <2>1. /\ turns = 1 /\ at = "launch" /\ at' = "launch" /\ failed = {} /\ ~ Ready(pos)
        /\ Front = pos /\ Rest = idx /\ Front' = pos /\ Rest' = idx /\ pos < to
    BY <1>9 DEF pop, Front, Rest
  <2>2. Owed(path, pos, idx) /\ LetIn(path, pos)
    BY <1>3, <2>1
  <2>3. pos \in 1..Len(path) /\ idx \in 1..pos
    BY <1>2, <2>1
  <2>4. path[pos] # "begin" /\ ~ (g.needs[path[pos]] \subseteq Seen(path, pos))
    BY <2>1 DEF Ready, Before, Seen
  <2>5. /\ path' \in Seq(Ids) /\ Len(path') = Len(path) - 1 /\ \A j \in 1..(pos - 1) : path'[j] = path[j]
        /\ \A j \in pos..Len(path') : path'[j] = path[j + 1]
    <3>1. path' = SubSeq(path, 1, pos - 1) \o SubSeq(path, pos + 1, Len(path))
      BY <1>9 DEF pop
    <3>2. path \in Seq(Ids)
      BY <1>2
    <3>3. \A t : t = SubSeq(path, 1, pos - 1) \o SubSeq(path, pos + 1, Len(path)) =>
            /\ t \in Seq(Ids) /\ Len(t) = Len(path) - 1 /\ \A j \in 1..(pos - 1) : t[j] = path[j]
            /\ \A j \in pos..Len(t) : t[j] = path[j + 1]
      BY <2>3, <3>2, PopFacts
    <3> QED BY <3>1, <3>3, Zenon
  <2>6. Owed(path', pos, idx) /\ LetIn(path', pos)
    BY <1>1, <1>2, <2>2, <2>3, <2>4, <2>5, OwedPop
  <2> QED BY <2>1, <2>6
<1>10. CASE gather
  BY <1>4, <1>10 DEF gather, Front, Rest
<1>11. ASSUME NEW i \in running, invoke(i)
       PROVE  Owed(path', Front', Rest') /\ LetIn(path', Front')
  <2>1. failed' = failed /\ UNCHANGED <<path, turns, at, to, idx, pos>> /\ at = "batch"
    BY <1>11 DEF invoke
  <2> QED BY <1>4, <2>1 DEF Front, Rest
<1>12. CASE gathered
  BY <1>4, <1>12 DEF gathered, Front, Rest
<1>13. CASE node_finished
  <2>1. /\ turns = 1 /\ at = "post" /\ at' = "post" /\ failed = {} /\ pos < to
        /\ Front = to /\ Rest = pos /\ Front' = to /\ Rest' = pos + 1
    BY <1>13 DEF node_finished, Front, Rest
  <2>2. Owed(path, to, pos) /\ LetIn(path, to)
    BY <1>3, <2>1
  <2>3. to \in 1..(Len(path) + 1) /\ pos \in 1..(to - 1) /\ pos \in 1..Len(path)
    BY <1>2, <2>1
  <2>4. Keeps(path, path')
    BY <1>1, <1>2, <1>13, <2>3, FinishedKeeps
  <2>5. path[pos] \in Reachable =>
          \A w \in Elements(g.down[path[pos]]) : \E j \in Len(path)..Len(path') : path'[j] = w
    BY <1>1, <1>2, <1>13, <2>1, <2>3, FinishedAdds
  <2>6. Owed(path', to, pos + 1) /\ LetIn(path', to)
    BY <1>1, <1>2, <2>2, <2>3, <2>4, <2>5, OwedFinished
  <2> QED BY <2>1, <2>6
<1>14. CASE batch_ends
  <2>1. /\ at = "post" /\ pos = to /\ at' = "launch" /\ idx' = to /\ pos' = to
        /\ UNCHANGED <<path, turns, failed>>
    BY <1>14 DEF batch_ends, Ends
  <2> QED BY <1>4, <2>1 DEF Front, Rest
<1>15. CASE UNCHANGED vars
  BY <1>4, <1>15 DEF vars, Front, Rest
<1> QED BY <1>5, <1>6, <1>7, <1>8, <1>9, <1>10, <1>11, <1>12, <1>13, <1>14, <1>15 DEF Next, Engine

LEMMA ForgottenNext ==
  ASSUME Types, BatchInv, FirstInv, PendingInv, NothingIsForgotten, [Next]_vars
  PROVE  NothingIsForgotten'
<1>1. g' = g /\ g \in Graphs
  BY DEF Next, Engine, run, cancel_task, canceled_at_batch, launch, pop, gather, invoke, gathered,
         node_finished, raises, batch_ends, vars, Types, TypeOK
<1> SUFFICES ASSUME turns' = 1, outcome' = "finished", failed' = {}, Straight
             PROVE  Reachable \subseteq done'
  BY <1>1, SameAgent DEF NothingIsForgotten
<1>2. ASSUME UNCHANGED <<turns, outcome, failed>>, done \subseteq done'
      PROVE  Reachable \subseteq done'
  BY <1>2 DEF NothingIsForgotten
<1>3. CASE run
  BY <1>3 DEF run
<1>4. CASE cancel_task
  BY <1>2, <1>4 DEF cancel_task
<1>5. CASE canceled_at_batch \/ raises
  BY <1>5 DEF canceled_at_batch, raises
<1>6. CASE launch \/ pop \/ gather \/ gathered \/ node_finished
  BY <1>2, <1>6 DEF launch, pop, gather, gathered, node_finished
<1>7. ASSUME NEW i \in running, invoke(i) PROVE Reachable \subseteq done'
  BY <1>2, <1>7 DEF invoke
<1>8. CASE batch_ends
  <2>1. CASE outcome' = outcome
    BY <1>2, <1>8, <2>1 DEF batch_ends
  <2>2. CASE outcome' # outcome
    <3>1. /\ turns = 1 /\ at = "post" /\ failed = {} /\ pos = to /\ to > Len(path) /\ done' = done
          /\ Front = to /\ Rest = to
      BY <1>8, <2>2 DEF batch_ends, Ends, Front, Rest
    <3>2. /\ path \in Seq(Ids) /\ Len(path) \in Nat /\ to \in Nat /\ idx \in Nat /\ idx >= 1 /\ idx <= to
          /\ to = Len(path) + 1
      BY <3>1 DEF Types, TypeOK, BatchInv
    <3>3. Owed(path, to, to)
      BY <3>1 DEF PendingInv
    <3>4. Reachable \subseteq Seen(path, to)
      BY <1>1, <3>2, <3>3, OwedAtEnd
    <3>5. \A j \in 1..(to - 1) : path[j] \in done
      <4>1. \A j \in 1..(to - 1) : j \in 1..(idx - 1) \/ j \in idx..(to - 1)
        BY <3>2
      <4> QED BY <3>1, <4>1 DEF FirstInv, BatchInv
    <3> QED BY <3>1, <3>4, <3>5 DEF Seen
  <2> QED BY <2>1, <2>2
<1>9. CASE UNCHANGED vars
  BY <1>2, <1>9 DEF vars
<1> QED BY <1>3, <1>4, <1>5, <1>6, <1>7, <1>8, <1>9 DEF Next, Engine

-----------------------------------------------------------------------------
(* The invariant, and what follows.                                        *)

LEMMA CanvasInvInit == Init => CanvasInv
<1> SUFFICES ASSUME Init PROVE CanvasInv
  OBVIOUS
<1>1. Types
  <2>1. path \in Seq(Ids) /\ saved \in Seq(Ids)
    BY EmptySeq DEF Init
  <2>2. count \in [Ids -> -1..max_loop] /\ turns \in 0..MaxTurns
    BY CanvasAssumption DEF Init
  <2> QED BY <2>1, <2>2 DEF Init, Types, TypeOK
<1>2. BatchInv /\ FirstInv /\ InputsHaveRun /\ PendingInv /\ NothingIsForgotten
  BY DEF Init, BatchInv, FirstInv, InputsHaveRun, PendingInv, NothingIsForgotten
<1> QED BY <1>1, <1>2 DEF CanvasInv

LEMMA CanvasInvNext == CanvasInv /\ [Next]_vars => CanvasInv'
BY TypesNext, BatchNext, FirstNext, InputsNext, PendingNext, ForgottenNext DEF CanvasInv

LEMMA CanvasInvHolds == Spec => []CanvasInv
<1>1. Init /\ [][Next]_vars => []CanvasInv
  BY CanvasInvInit, CanvasInvNext, PTL
<1> QED BY <1>1, PTL DEF Spec

(* The path is changed under the indices of two loops, by pops while the   *)
(* batch is launched and by appends while it is looked at: the positions   *)
(* stay inside the path, whatever is drawn and whatever fails.             *)
THEOREM CanvasTypeCorrect == Spec => []TypeOK
<1>1. CanvasInv => TypeOK
  BY DEF CanvasInv, Types
<1> QED BY <1>1, CanvasInvHolds, PTL

(* _run_batch, for every agent: looking for the inputs of a component in   *)
(* the path before it is as good as looking for what has run, in the first *)
(* turn of a session.                                                      *)
THEOREM InputsRunFirst == Spec => []InputsHaveRun
<1>1. CanvasInv => InputsHaveRun
  BY DEF CanvasInv
<1> QED BY <1>1, CanvasInvHolds, PTL

(* _run_batch and _append_path, for every agent that does not branch and   *)
(* every order of its drawing: a component taken off the path comes back,  *)
(* because what it waits for is not seen yet and leads to it.              *)
THEOREM NothingForgotten == Spec => []NothingIsForgotten
<1>1. CanvasInv => NothingIsForgotten
  BY DEF CanvasInv
<1> QED BY <1>1, CanvasInvHolds, PTL

=============================================================================
