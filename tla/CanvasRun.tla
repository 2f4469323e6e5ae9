----------------------------- MODULE CanvasRun -----------------------------
(***************************************************************************)
(* Canvas.run: the turns of a session with an agent drawn on the canvas.   *)
(* The path is the list of components run or about to run; a turn takes    *)
(* its unprocessed tail as a batch, drops from it the components whose     *)
(* inputs are not in the path yet, runs the rest concurrently and appends  *)
(* what follows each of them.  The path outlives the turn, the outputs do  *)
(* not.                                                                    *)
(*                                                                         *)
(* A graph gives every component its kind, what is downstream of it (in    *)
(* the order of the drawing), the components it takes inputs from, where   *)
(* an exception leads or whether a default value replaces it, and its      *)
(* parent when it is in a loop.  Iteration and Loop differ in what ends    *)
(* them only.                                                              *)
(***************************************************************************)
EXTENDS Integers, Sequences, FiniteSets

CONSTANTS
  Ids,               \* ids of components, "begin" among them
  Graphs,            \* agents
  max_loop,          \* maximum_loop_count, or the length of the array
  MaxTurns           \* bound: messages of the session

Kinds == {"plain", "switch", "loop", "item", "exit", "fillup"}

ASSUME CanvasAssumption ==
  max_loop \in Nat /\ MaxTurns \in Nat /\ "begin" \in Ids /\ IsFiniteSet(Ids)

(* Component c of agent h starts the loop p.                               *)
Starts(h, c, p) == h.kind[c] = "item" /\ h.parent[c] = p

(* What the canvas lets a user draw: edges between components of the agent,*)
(* a form is not where it begins, and a loop with anything in it, or       *)
(* anything that leads into it, has a start.                               *)
ASSUME GraphAssumption ==
  \A h \in Graphs :
    /\ h.kind \in [Ids -> Kinds] /\ h.kind["begin"] # "fillup"
    /\ h.down \in [Ids -> Seq(Ids)] /\ h.goto \in [Ids -> Seq(Ids)]
    /\ h.needs \in [Ids -> SUBSET Ids] /\ h.default \subseteq Ids
    /\ h.parent \in [Ids -> Ids \cup {"none"}]
    /\ \A c \in Ids :
         /\ h.kind[c] \in {"item", "exit"} => h.parent[c] # "none"
         /\ h.kind[c] = "loop" => \E d \in Ids : Starts(h, d, c)
         /\ h.parent[c] # "none" => \E d \in Ids : Starts(h, d, h.parent[c])

VARIABLES
  g,                 \* the agent
  path,
  at,                \* idle, launch, batch, post
  idx, to,           \* first position of the batch, and the one behind it
  pos,               \* position the loops over the batch are at
  running,           \* positions of components at work
  done,              \* components that have run in this turn
  failed,            \* components with an _ERROR
  error,             \* Canvas.error
  count,             \* _idx of loop items
  saved,             \* the path in the session's record
  canceled, turns,
  launched,          \* components this turn began to run, with what was finished then
  outcome            \* how the last turn ended

vars == <<g, path, at, idx, to, pos, running, done, failed, error, count, saved, canceled, turns,
          launched, outcome>>

Init ==
  /\ g \in Graphs /\ path = <<>> /\ at = "idle" /\ idx = 0 /\ to = 0 /\ pos = 0
  /\ running = {} /\ done = {} /\ failed = {} /\ error = FALSE
  /\ count = [c \in Ids |-> 0] /\ saved = <<>> /\ canceled = FALSE /\ turns = 0
  /\ launched = {} /\ outcome = "none"

Kind(c) == g.kind[c]
Last(s) == s[Len(s)]
Elements(s) == {s[i] : i \in DOMAIN s}

(* The elements of s that are in S, in their order.                        *)
Picked(s, S) ==
  LET f[n \in 0..Len(s)] ==
        IF n = 0 THEN <<>> ELSE IF s[n] \in S THEN Append(f[n - 1], s[n]) ELSE f[n - 1]
  IN f[Len(s)]

-----------------------------------------------------------------------------
(* A message arrives: the canvas is loaded, the outputs are cleared, and   *)
(* the path goes on from the form the user filled in, or from begin.       *)
run ==
  /\ at = "idle" /\ turns < MaxTurns /\ turns' = turns + 1
  /\ ~ canceled
  /\ path' = (IF saved # <<>> /\ Kind(Last(saved)) = "fillup" THEN saved ELSE Append(saved, "begin"))
  /\ idx' = Len(path') /\ pos' = Len(path') /\ to' = Len(path') + 1 /\ at' = "launch"
  /\ done' = {} /\ failed' = {} /\ error' = FALSE /\ count' = [c \in Ids |-> 0]
  /\ launched' = {} /\ outcome' = "none"
  /\ UNCHANGED <<g, running, saved, canceled>>

(* cancel_task, and the flag's end.                                        *)
cancel_task ==
  /\ canceled' = ~ canceled
  /\ UNCHANGED <<g, path, at, idx, to, pos, running, done, failed, error, count, saved, turns,
                 launched, outcome>>

(* TaskCanceledException leaves the generator: nothing of the turn is kept.*)
canceled_at_batch ==
  /\ at = "launch" /\ pos = idx /\ canceled
  /\ at' = "idle" /\ path' = saved /\ outcome' = "canceled"
  /\ UNCHANGED <<g, idx, to, pos, running, done, failed, error, count, saved, canceled, turns,
                 launched>>

Before(i) == {path[j] : j \in 1..(i - 1)}

(* Mutant: the whole path is searched for the inputs.                      *)
Ready_anywhere(i) ==
  \/ path[i] = "begin" \/ Kind(path[i]) = "fillup" \/ Kind(path[1]) = "fillup"
  \/ g.needs[path[i]] \subseteq Elements(path)

(* The inputs of the component at position i are in the path before it.    *)
Ready(i) ==
  \/ path[i] = "begin" \/ Kind(path[i]) = "fillup" \/ Kind(path[1]) = "fillup"
  \/ g.needs[path[i]] \subseteq Before(i)

(* _run_batch: the component is given its inputs and a task ...            *)
launch ==
  /\ at = "launch" /\ (pos = idx => ~ canceled) /\ pos < to /\ Ready(pos)
  /\ running' = running \cup {pos} /\ pos' = pos + 1
  /\ launched' = launched \cup {[c |-> path[pos], batch |-> {path[j] : j \in idx..(pos - 1)},
                                 finished |-> done]}
  /\ UNCHANGED <<g, path, at, idx, to, done, failed, error, count, saved, canceled, turns, outcome>>

(* Mutant: the end of the batch stays where it was.                        *)
pop_keeps_end ==
  /\ at = "launch" /\ (pos = idx => ~ canceled) /\ pos < to /\ ~ Ready(pos)
  /\ path' = SubSeq(path, 1, pos - 1) \o SubSeq(path, pos + 1, Len(path))
  /\ UNCHANGED <<g, at, idx, to, pos, running, done, failed, error, count, saved, canceled, turns,
                 launched, outcome>>

(* ... or is taken off the path.                                           *)
pop ==
  /\ at = "launch" /\ (pos = idx => ~ canceled) /\ pos < to /\ ~ Ready(pos)
  /\ path' = SubSeq(path, 1, pos - 1) \o SubSeq(path, pos + 1, Len(path)) /\ to' = to - 1
  /\ UNCHANGED <<g, at, idx, pos, running, done, failed, error, count, saved, canceled, turns,
                 launched, outcome>>

gather ==
  /\ at = "launch" /\ pos = to /\ at' = "batch"
  /\ UNCHANGED <<g, path, idx, to, pos, running, done, failed, error, count, saved, canceled, turns,
                 launched, outcome>>

(* _invoke of a loop item.                                                 *)
Counted(c) == IF count[c] >= max_loop THEN -1 ELSE count[c] + 1

(* A component returns, raises or sees the flag, which no default value    *)
(* replaces; the termination condition of a loop may hold.                 *)
invoke(i) ==
  /\ at = "batch" /\ i \in running /\ running' = running \ {i} /\ done' = done \cup {path[i]}
  /\ \/ (canceled \/ path[i] \notin g.default) /\ failed' = failed \cup {path[i]} /\ UNCHANGED count
     \/ UNCHANGED <<failed, count>> /\ Kind(path[i]) # "item"
     \/ /\ Kind(path[i]) = "item" /\ failed' \in {failed, failed \cup {path[i]}}
        /\ \E n \in {Counted(path[i]), -1} : count' = [count EXCEPT ![path[i]] = n]
  /\ UNCHANGED <<g, path, at, idx, to, pos, error, saved, canceled, turns, launched, outcome>>

gathered ==
  /\ at = "batch" /\ running = {} /\ at' = "post" /\ pos' = idx
  /\ UNCHANGED <<g, path, idx, to, running, done, failed, error, count, saved, canceled, turns,
                 launched, outcome>>

(* _append_path leaves out what stands last already.                       *)
Appended(s, c) == IF s # <<>> /\ Last(s) = c THEN s ELSE Append(s, c)

Extended(s, cs) ==
  LET f[n \in 0..Len(cs)] == IF n = 0 THEN s ELSE Appended(f[n - 1], cs[n]) IN f[Len(cs)]

StartOf(p) == CHOOSE c \in Ids : Starts(g, c, p)

InLoop(c) == g.parent[c] # "none"

(* What comes after component c: the choices of a switch are open.         *)
Following(c) ==
  CASE Kind(c) = "item" /\ count[c] = -1 -> {g.down[g.parent[c]]}
    [] Kind(c) = "switch" -> {Picked(g.down[c], S) : S \in SUBSET Elements(g.down[c])}
    [] Kind(c) = "loop" -> {<<StartOf(c)>>}
    [] Kind(c) = "exit" -> {g.down[g.parent[c]]}
    [] Kind(c) \in {"plain", "fillup"} /\ g.down[c] = <<>> /\ InLoop(c) -> {<<StartOf(g.parent[c])>>}
    [] OTHER -> {g.down[c]}

(* The post-processing of one component: an exception leads elsewhere, is  *)
(* answered by a default, or ends the turn.  A switch that failed has no   *)
(* choice to go on with.                                                   *)
node_finished ==
  /\ at = "post" /\ pos < to /\ pos' = pos + 1
  /\ LET c == path[pos]
     IN \/ /\ c \in failed /\ g.goto[c] # <<>>
           /\ path' = path \o g.goto[c] /\ UNCHANGED error
        \/ /\ \/ c \notin failed /\ UNCHANGED error
              \/ /\ c \in failed /\ g.goto[c] = <<>> /\ Kind(c) # "switch"
                 /\ error' = (error \/ c \notin g.default)
           /\ \E cs \in Following(c) : path' = Extended(path, cs)
  /\ UNCHANGED <<g, at, idx, to, running, done, failed, count, saved, canceled, turns, launched,
                 outcome>>

(* An exception of the engine itself (an input that does not exist, a      *)
(* condition of the wrong type, a stream that breaks, a switch without a   *)
(* choice) leaves the generator: nothing of the turn is kept.              *)
raises ==
  /\ at \in {"launch", "post"} /\ pos < to
  /\ at' = "idle" /\ path' = saved /\ running' = {} /\ outcome' = "raised"
  /\ UNCHANGED <<g, idx, to, pos, done, failed, error, count, saved, canceled, turns, launched>>

Tail_(i) == SubSeq(path, i, Len(path))

FillUpsFirst(s) ==
  LET fillups == {c \in Ids : Kind(c) = "fillup"}
  IN Picked(s, fillups) \o Picked(s, Ids \ fillups)

Ends(how, p) ==
  /\ at' = "idle" /\ outcome' = how /\ path' = p /\ saved' = p
  /\ UNCHANGED <<idx, to, pos>>

(* Mutant: one component behind the batch is not enough to go on.          *)
batch_ends_short ==
  /\ at = "post" /\ pos = to
  /\ \/ error /\ Ends("error", SubSeq(path, 1, idx - 1))
     \/ /\ ~ error /\ \E c \in Elements(Tail_(to)) : Kind(c) = "fillup"
        /\ Ends("asks", FillUpsFirst(Tail_(to)))
     \/ /\ ~ error /\ \A c \in Elements(Tail_(to)) : Kind(c) # "fillup"
        /\ \/ to >= Len(path) /\ Ends("finished", path)
           \/ /\ to < Len(path) /\ at' = "launch" /\ idx' = to /\ pos' = to /\ to' = Len(path) + 1
              /\ UNCHANGED <<path, saved, outcome>>
  /\ UNCHANGED <<g, running, done, failed, error, count, canceled, turns, launched>>

(* Mutant: an empty tail is one more batch.                                *)
batch_ends_late ==
  /\ at = "post" /\ pos = to
  /\ \/ error /\ Ends("error", SubSeq(path, 1, idx - 1))
     \/ /\ ~ error /\ \E c \in Elements(Tail_(to)) : Kind(c) = "fillup"
        /\ Ends("asks", FillUpsFirst(Tail_(to)))
     \/ /\ ~ error /\ \A c \in Elements(Tail_(to)) : Kind(c) # "fillup"
        /\ \/ to > Len(path) + 1 /\ Ends("finished", path)
           \/ /\ to <= Len(path) + 1 /\ at' = "launch" /\ idx' = to /\ pos' = to /\ to' = Len(path) + 1
              /\ UNCHANGED <<path, saved, outcome>>
  /\ UNCHANGED <<g, running, done, failed, error, count, canceled, turns, launched>>

(* The end of a batch: the turn breaks off, asks the user, goes on with    *)
(* the tail of the path or is finished.                                    *)
batch_ends ==
  /\ at = "post" /\ pos = to
  /\ \/ error /\ Ends("error", SubSeq(path, 1, idx - 1))
     \/ /\ ~ error /\ \E c \in Elements(Tail_(to)) : Kind(c) = "fillup"
        /\ Ends("asks", FillUpsFirst(Tail_(to)))
     \/ /\ ~ error /\ \A c \in Elements(Tail_(to)) : Kind(c) # "fillup"
        /\ \/ to > Len(path) /\ Ends("finished", path)
           \/ /\ to <= Len(path) /\ at' = "launch" /\ idx' = to /\ pos' = to /\ to' = Len(path) + 1
              /\ UNCHANGED <<path, saved, outcome>>
  /\ UNCHANGED <<g, running, done, failed, error, count, canceled, turns, launched>>

Engine ==
  \/ canceled_at_batch \/ launch \/ pop \/ gather \/ (\E i \in running : invoke(i)) \/ gathered
  \/ node_finished \/ raises \/ batch_ends

Next == run \/ cancel_task \/ Engine

(* The components end, by themselves or at their timeout.                  *)
Spec == Init /\ [][Next]_vars /\ WF_vars(Engine)

-----------------------------------------------------------------------------
TypeOK ==
  /\ g \in Graphs /\ path \in Seq(Ids) /\ saved \in Seq(Ids)
  /\ at \in {"idle", "launch", "batch", "post"}
  /\ at # "idle" => idx <= pos /\ pos <= to /\ to <= Len(path) + 1
  /\ \A i \in running : at \in {"launch", "batch"} /\ i \in idx..(to - 1)
  /\ done \in SUBSET Ids /\ failed \in SUBSET Ids /\ error \in BOOLEAN
  /\ count \in [Ids -> -1..max_loop] /\ canceled \in BOOLEAN /\ turns \in 0..MaxTurns
  /\ outcome \in {"none", "canceled", "raised", "error", "asks", "finished"}

(* _run_batch: in the first turn of a session, a component begins only     *)
(* when what it takes inputs from has run, or runs with it in one batch.   *)
(* Begin and the forms get theirs from the user.                           *)
InputsHaveRun ==
  turns = 1 =>
    \A l \in launched : l.c # "begin" /\ Kind(l.c) # "fillup" =>
      g.needs[l.c] \subseteq l.finished \cup l.batch

(* Reachable from component c along the drawing, and by one edge at least. *)
Closed(S) == \A c \in S : Elements(g.down[c]) \subseteq S

From(c) == {d \in Ids : \A S \in SUBSET Ids : c \in S /\ Closed(S) => d \in S}

Below(c) == UNION {From(d) : d \in Elements(g.down[c])}

Reachable == From("begin")

(* The agent does not branch, nothing leads back, and the inputs of a      *)
(* component come from upstream of it.                                     *)
Straight ==
  \A c \in Reachable :
    /\ Kind(c) = "plain" /\ c \notin Below(c)
    /\ \A d \in g.needs[c] : d \in Reachable /\ c \in Below(d)

(* _run_batch and _append_path: taking components off the path loses       *)
(* none.  A first turn that finishes without an exception has run          *)
(* everything reachable from begin, whatever the order of the drawing, if  *)
(* the agent does not branch and inputs come from upstream.                *)
NothingIsForgotten ==
  turns = 1 /\ outcome = "finished" /\ failed = {} /\ Straight => Reachable \subseteq done

(* The loop over the batches: every turn ends, loops included, as long as  *)
(* nothing but a loop leads back.                                          *)
TurnEnds == at # "idle" ~> at = "idle"

=============================================================================
