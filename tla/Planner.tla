-------------------------------- MODULE Planner --------------------------------
(***************************************************************************)
(* The weekly study planner of one pair: the task rows, the actions of     *)
(* planner-service, and the pages on which coach and student work.         *)
(*                                                                         *)
(* A page shows the header of one week and a list of tasks, which are two  *)
(* pieces of state.  The server actions of a page run one after the other  *)
(* (Next.js): page[p].calls is that queue, every call with the week that   *)
(* was on the header when its button was pressed.  Copying a week is two   *)
(* database calls; all other actions are one write behind reads of columns *)
(* that never change.                                                      *)
(*                                                                         *)
(* Left out: days within a week, the order of a day, the texts of a task,  *)
(* which are one value, and the forms.                                     *)
(***************************************************************************)
EXTENDS Integers, FiniteSets, Functions, Sequences

CONSTANTS
  Pages,        \* the open pages
  CoachPages,   \* those of them that the coach has open
  LivePages,    \* those beside a call, which poll
  Weeks,        \* bound: the weeks, 1..n
  Contents,     \* bound: what a task can say
  TaskIds,      \* bound: the rows that can be created
  MaxCalls,     \* bound: the calls waiting on a page
  MaxWritten    \* bound: contents written by hand in all

\* The coach has the planner proper open once; beside a call there is no button that copies.
ASSUME PlannerAssumption ==
  /\ CoachPages \cup LivePages \subseteq Pages
  /\ \A p, q \in CoachPages \ LivePages : p = q
  /\ IsFiniteSet(Weeks) /\ Weeks = 1..Cardinality(Weeks) /\ Weeks # {} /\ IsFiniteSet(TaskIds)

VARIABLES
  task,     \* the StudyTask rows
  page,
  wanted    \* ghost: how often a content was written into a week by hand

plannerVars == <<task, page, wanted>>

NoTask == [week |-> 0, content |-> 0, by |-> "none", done |-> FALSE]
NoCopy == [step |-> "no", rows |-> {}]

written == SumFunction([w \in Weeks |-> SumFunction(wanted[w])])
mayWrite == written < MaxWritten

role(p) == IF p \in CoachPages THEN "COACH" ELSE "STUDENT"
listWeek(w) == {t \in TaskIds : task[t].week = w}
fresh == {t \in TaskIds : task[t].week = 0}

PlannerInit ==
  /\ task = [t \in TaskIds |-> NoTask]
  /\ page = [p \in Pages |-> [monday |-> 1, tasks |-> {}, calls |-> <<>>, copy |-> NoCopy]]
  /\ wanted = [w \in Weeks |-> [c \in Contents |-> 0]]

-------------------------------------------------------------------------------
(* The buttons *)

Press(p, call) ==
  /\ Len(page[p].calls) < MaxCalls
  /\ page' = [page EXCEPT ![p].calls = Append(@, call)]
  /\ UNCHANGED <<task, wanted>>

Call(op, arg, week) == [op |-> op, arg |-> arg, week |-> week]

\* Buttons of a task are dead while a call is pending; those of the header are not.
pending(p) == page[p].calls # <<>>

editable(p, t) == role(p) = "COACH" \/ task[t].by = "STUDENT"

\* The form refuses what the server would; what it lets through is a content.
PressAdd(p) ==
  /\ ~pending(p) /\ mayWrite
  /\ \E c \in Contents : Press(p, Call("add", c, page[p].monday))

PressCard(p) ==
  /\ ~pending(p)
  /\ \E t \in page[p].tasks :
       \/ Press(p, Call("mark", t, page[p].monday))
       \/ editable(p, t) /\ Press(p, Call("remove", t, page[p].monday))
       \/ /\ editable(p, t) /\ mayWrite
          /\ \E c \in Contents : Press(p, Call("edit", <<t, c>>, page[p].monday))

PressCopy(p) ==
  /\ p \in CoachPages \ LivePages /\ ~pending(p) /\ page[p].tasks # {}
  /\ Press(p, Call("copy", 0, page[p].monday))

\* goTo: the header turns at once, the tasks follow when their call has its turn.
TurnTo(p, w) ==
  /\ w \in Weeks /\ Len(page[p].calls) < MaxCalls
  /\ page' = [page EXCEPT ![p].monday = w, ![p].calls = Append(@, Call("load", 0, w))]
  /\ UNCHANGED <<task, wanted>>

Poll(p) == p \in LivePages /\ Press(p, Call("load", 0, page[p].monday))

-------------------------------------------------------------------------------
(* The calls *)

At(p, op) == pending(p) /\ Head(page[p].calls).op = op
arg(p) == Head(page[p].calls).arg

\* run: a call that went well loads the week of its button again.
Then(p) == page' = [page EXCEPT ![p].calls = Tail(@) \o <<Call("load", 0, Head(@).week)>>]
Fail(p) == page' = [page EXCEPT ![p].calls = Tail(@)]

Load(p) ==
  /\ At(p, "load")
  /\ page' = [page EXCEPT ![p].tasks = listWeek(Head(page[p].calls).week), ![p].calls = Tail(@)]
  /\ UNCHANGED <<task, wanted>>

addTask(p) ==
  /\ At(p, "add") /\ fresh # {} /\ mayWrite
  /\ LET w == Head(page[p].calls).week IN
     /\ task' = [task EXCEPT ![CHOOSE t \in fresh : TRUE] =
                               [week |-> w, content |-> arg(p), by |-> role(p), done |-> FALSE]]
     /\ wanted' = [wanted EXCEPT ![w][arg(p)] = @ + 1]
  /\ Then(p)

\* The row may be gone: the other side deleted it.
updateTask(p) ==
  /\ At(p, "edit")
  /\ LET t == arg(p)[1] IN
     IF task[t].week # 0
     THEN /\ mayWrite
          /\ task' = [task EXCEPT ![t].content = arg(p)[2]]
          /\ wanted' = [wanted EXCEPT ![task[t].week][arg(p)[2]] = @ + 1]
          /\ Then(p)
     ELSE UNCHANGED <<task, wanted>> /\ Fail(p)

deleteTask(p) ==
  /\ At(p, "remove")
  /\ IF task[arg(p)].week # 0
     THEN task' = [task EXCEPT ![arg(p)] = NoTask] /\ Then(p)
     ELSE UNCHANGED task /\ Fail(p)
  /\ UNCHANGED wanted

setTaskDone(p) ==
  /\ At(p, "mark")
  /\ IF task[arg(p)].week # 0
     THEN task' = [task EXCEPT ![arg(p)].done = ~@] /\ Then(p)
     ELSE UNCHANGED task /\ Fail(p)
  /\ UNCHANGED wanted

\* Wrong: what is already there is not looked at.
toCopyAll(w) == listWeek(w)

\* What the next week does not have yet.
toCopy(w) ==
  {t \in listWeek(w) : \A k \in listWeek(w + 1) : task[k].content # task[t].content}

ReadWeek(p) ==
  /\ At(p, "copy") /\ page[p].copy = NoCopy
  /\ LET w == Head(page[p].calls).week IN
     page' = [page EXCEPT ![p].copy =
       [step |-> "write", rows |-> IF w + 1 \in Weeks THEN {<<t, task[t].content>> : t \in toCopy(w)} ELSE {}]]
  /\ UNCHANGED <<task, wanted>>

\* The copies are not ticked off; then the page turns to the next week.
copyWeekForward(p) ==
  /\ At(p, "copy") /\ page[p].copy # NoCopy
  /\ LET w == Head(page[p].calls).week
         rows == page[p].copy.rows
         id == CHOOSE f \in Injection(rows, fresh) : TRUE
         next == IF w + 1 \in Weeks THEN w + 1 ELSE w
     IN  /\ Injection(rows, fresh) # {}
         /\ task' = [t \in TaskIds |->
              IF \E r \in rows : id[r] = t
              THEN [week |-> w + 1, content |-> (CHOOSE r \in rows : id[r] = t)[2], by |-> "COACH", done |-> FALSE]
              ELSE task[t]]
         /\ page' = [page EXCEPT ![p].copy = NoCopy, ![p].monday = next,
                                 ![p].calls = Tail(@) \o <<Call("load", 0, next), Call("load", 0, w)>>]
  /\ UNCHANGED wanted

PlannerNext ==
  \E p \in Pages :
    \/ PressAdd(p) \/ PressCard(p) \/ PressCopy(p) \/ Poll(p) \/ \E w \in Weeks : TurnTo(p, w)
    \/ Load(p) \/ addTask(p) \/ updateTask(p) \/ deleteTask(p) \/ setTaskDone(p)
    \/ ReadWeek(p) \/ copyWeekForward(p)

PlannerSpec == PlannerInit /\ [][PlannerNext]_plannerVars

-------------------------------------------------------------------------------
(* Properties *)

\* However often a week is copied, a task stands in the next one at most as often as somebody wrote
\* it: into that week or into one before it.
CopyNeverDoubles ==
  \A w \in Weeks, c \in Contents :
    Cardinality({t \in listWeek(w) : task[t].content = c})
      <= SumFunctionOnSet([v \in Weeks |-> wanted[v][c]], 1..w)

\* A page that waits for nothing lists tasks of the week on its header.
HeaderTellsTheWeek ==
  \A p \in Pages : ~pending(p) => \A t \in page[p].tasks : task[t].week \in {0, page[p].monday}
===============================================================================
