-------------------------- MODULE ProjectLifecycle --------------------------
(***************************************************************************)
(* The projects of one account over the allowances of PlanUsage: creation,   *)
(* edits that move repositories and archive or restore, the expenses         *)
(* recorded in a project, and its erasure. A request reads its project once, *)
(* asks GitHub what the actor may use outside of any transaction, and        *)
(* commits one batch whose guards and constraints decide.                    *)
(* The reads between a request's first read and its batch are one step; the  *)
(* batch repeats all of them but the provider's answer.                      *)
(***************************************************************************)
EXTENDS PlanUsage

CONSTANTS
    Ids,            \* project ids
    Repos,          \* GitHub repository ids
    Keep,           \* an edit that leaves the repositories alone
    Shared,         \* the expense pool outside of every project
    MaxRev,         \* bound: revisions of a project
    MaxHeld,        \* bound: expenses of one pool
    MaxAsked        \* bound: requests

ASSUME LifecycleAssumption ==
    /\ \A links \in SUBSET Repos : links # Keep
    /\ Shared \notin Ids /\ Null \notin Ids \cup Repos
    /\ {MaxRev, MaxHeld} \subseteq Nat \ {0} /\ MaxAsked \in Nat

VARIABLES
    row,        \* ledger_projects
    bound,      \* ledger_project_repositories
    held,       \* active expenses of each pool
    activity,   \* the projects some ledger_activity_events row shows
    gone,       \* history: the erased projects
    ask,        \* ask[w]: what the request in slot w wants and has read
    asked       \* requests so far

projectTables == <<row, bound, held, activity>>
lifeVars == <<planVars, projectTables, gone, ask, asked>>

Row == [status : {"active", "archived"}, rev : 1..MaxRev, anchor : Repos \cup {Null}]
ASSUME RowAssumption == Null \notin Row

Pools == Ids \cup {Shared}
NoAsk == [op |-> "none", id |-> Shared, rev |-> 0, had |-> {}, links |-> Keep, status |-> "active"]
Ask == [op : {"none", "create", "patch", "erase", "record", "remove"}, id : Pools, rev : 0..MaxRev,
        had : SUBSET Repos, links : (SUBSET Repos) \cup {Keep}, status : {"active", "archived"}]

LifeTypeOK ==
    /\ PlanTypeOK
    /\ row \in [Ids -> Row \cup {Null}] /\ bound \subseteq Ids \X Repos
    /\ held \in [Pools -> 0..MaxHeld] /\ activity \subseteq Ids
    /\ gone \subseteq Ids
    /\ ask \in [Workers -> Ask] /\ asked \in 0..MaxAsked

Live == {id \in Ids : row[id] # Null}
Bound(id) == {r \in Repos : <<id, r>> \in bound}
(* standalone_project: no repository, and none lost either.                  *)
Standalone(id) == row[id].anchor = Null /\ Bound(id) = {}

LifeInit ==
    /\ PlanInit /\ projects = 0
    /\ row = [id \in Ids |-> Null] /\ bound = {} /\ activity = {} /\ gone = {}
    /\ held = [pool \in Pools |-> IF pool = Shared THEN records ELSE 0]
    /\ ask = [w \in Workers |-> NoAsk] /\ asked = 0

-----------------------------------------------------------------------------
(* _projects, remove_project and the expense handler up to their first read; *)
(* an If-Match that is not the revision read ends there.                     *)

Begin(w, kind, wanted) ==
    /\ asked < MaxAsked
    /\ Receive(w, kind)
    /\ ask' = [ask EXCEPT ![w] = wanted]
    /\ asked' = asked + 1
    /\ UNCHANGED <<projectTables, gone>>

Wanted(op, id, links, status) ==
    [op |-> op, id |-> id, rev |-> IF id \in Live THEN row[id].rev ELSE 0,
     had |-> IF id \in Live THEN Bound(id) ELSE {}, links |-> links, status |-> status]

(* A new id is never one that anything has used.                             *)
Fresh(id) == id \notin Live \cup gone /\ \A w \in Workers : ask[w].op = "create" => ask[w].id # id

Create(w, id, links) ==
    /\ Fresh(id)
    /\ Begin(w, "project", Wanted("create", id, links, "active"))

Patch(w, id, links, status) ==
    /\ id \in Live
    /\ Begin(w, "edit", Wanted("patch", id, links, status))

Erase(w, id) ==
    /\ id \in Live
    /\ Begin(w, "edit", Wanted("erase", id, Keep, "active"))

Record(w, pool) ==
    /\ pool # Shared => pool \in Live
    /\ Begin(w, "expense", Wanted("record", pool, Keep, "active"))

Remove(w, pool) ==
    /\ held[pool] > 0
    /\ Begin(w, "remove", Wanted("remove", pool, Keep, "active"))

-----------------------------------------------------------------------------
(* The second step: _repository_conflict, what GitHub shows the actor at that *)
(* moment, and the usage row (PlanLimitedD1._batch, preflight_usage).                    *)

Taken(a) == a.links # Keep /\ \E r \in a.links : \E id \in Live \ {a.id} : <<id, r>> \in bound

(* Repositories are taken with access to all of them; restoring asks for one *)
(* of those the project had when it was read.                                *)
Usable(a, shown) ==
    CASE a.op \in {"create", "patch"} /\ a.links # Keep -> a.links \subseteq shown
      [] a.op = "patch" /\ a.links = Keep ->
           (a.id \in Live => (row[a.id].status = "archived" /\ a.status = "active" /\ a.had # {}
                              => a.had \cap shown # {}))
      [] a.op = "record" /\ a.id # Shared ->
           /\ a.id \in Live /\ row[a.id].status = "active"
           /\ Standalone(a.id) \/ Bound(a.id) \cap shown # {}
      [] OTHER -> TRUE

(* The expense handler keeps the revision it found the project eligible at.  *)
Evidence(a) == IF a.op = "record" /\ a.id # Shared THEN [a EXCEPT !.rev = row[a.id].rev] ELSE a

Check(w, shown) ==
    /\ Inspect(w)
    /\ ~Taken(ask[w]) /\ Usable(ask[w], shown)
    /\ ask' = [ask EXCEPT ![w] = Evidence(@)]
    /\ UNCHANGED <<projectTables, gone, asked>>

-----------------------------------------------------------------------------
(* The batches.                                                              *)

\* weakened: the project is there, whatever happened to it since
StillThere(a) == a.id \in Live

RevisionHolds(a) == a.id \in Live /\ row[a.id].rev = a.rev

\* weakened: the repositories were free when they were looked up
FreeAsRead(bindings, links) == TRUE

(* UNIQUE (owner_id, github_repo_id), after the rows read are deleted.       *)
FreeIn(bindings, links) == \A r \in links : \A id \in Ids : <<id, r>> \notin bindings

(* Rolling history: a row of this operation, and expired ones are deleted.   *)
Published(id) == \E expired \in SUBSET activity : activity' = (activity \ expired) \cup {id}

(* The first repository of the list that was sent.                           *)
Anchors(links) == IF links = {} THEN {Null} ELSE links

Finish(w) == ask' = [ask EXCEPT ![w] = NoAsk] /\ UNCHANGED asked

CommitCreate(w) == LET a == ask[w] IN
    /\ a.op = "create" /\ Commit(w)
    /\ FreeIn(bound, a.links)
    /\ \E first \in Anchors(a.links) :
           row' = [row EXCEPT ![a.id] = [status |-> "active", rev |-> 1, anchor |-> first]]
    /\ bound' = bound \cup ({a.id} \X a.links)
    /\ Published(a.id)
    /\ Finish(w) /\ UNCHANGED <<held, gone>>

(* The bindings as read are deleted one by one and the new ones inserted.    *)
CommitPatch(w) == LET a == ask[w]
                      kept == bound \ ({a.id} \X a.had) IN
    /\ a.op = "patch" /\ Commit(w)
    /\ RevisionHolds(a) /\ a.rev < MaxRev
    /\ a.links # Keep => FreeIn(kept, a.links)
    /\ \E first \in IF a.links = Keep THEN {row[a.id].anchor} ELSE Anchors(a.links) :
           row' = [row EXCEPT ![a.id] = [status |-> a.status, rev |-> a.rev + 1, anchor |-> first]]
    /\ bound' = IF a.links = Keep THEN bound ELSE kept \cup ({a.id} \X a.links)
    /\ Published(a.id)
    /\ Finish(w) /\ UNCHANGED <<held, gone>>

\* weakened: an erased project gives its place in the plan back
ErasedRefunded(j, id) ==
    LET u == usage
        sameMonth == u # Null /\ u.month = MonthOf(j.now)
        sameMinute == u # Null /\ u.minute = j.now IN
    [projects |-> Cardinality(Live) - 1,
     records |-> records - held[id],
     month |-> MonthOf(j.now), minute |-> j.now,
     writes |-> (IF sameMonth THEN u.writes ELSE 0) + 1,
     minuteWrites |-> (IF sameMinute THEN u.minuteWrites ELSE 0) + 1,
     jev |-> IF sameMonth THEN u.jev ELSE 0]

(* USAGE: one write, the places taken stay taken, the records are recounted. *)
Erased(j, id) ==
    LET u == usage
        sameMonth == u # Null /\ u.month = MonthOf(j.now)
        sameMinute == u # Null /\ u.minute = j.now IN
    [projects |-> IF u = Null THEN Cardinality(Live) ELSE u.projects,
     records |-> records - held[id],
     month |-> MonthOf(j.now), minute |-> j.now,
     writes |-> (IF sameMonth THEN u.writes ELSE 0) + 1,
     minuteWrites |-> (IF sameMinute THEN u.minuteWrites ELSE 0) + 1,
     jev |-> IF sameMonth THEN u.jev ELSE 0]

(* preflight_usage: the cumulative count covers the projects there are.      *)
CountsCover == usage # Null => usage.projects >= Cardinality(Live)

(* recipe_tail: everything of the project, its counters and its own row.     *)
CommitErase(w) == LET a == ask[w]
                      j == job[w]
                      new == Erased(j, a.id) IN
    /\ a.op = "erase" /\ j.pc = "priced"
    /\ account = j.account
    /\ RevisionHolds(a)
    /\ CountsCover
    /\ Checks(j, new)
    /\ usage' = new
    /\ records' = records - held[a.id]
    /\ charged' = [charged EXCEPT ![j.now] = @ + 1]
    /\ job' = [job EXCEPT ![w] = Idle]
    /\ row' = [row EXCEPT ![a.id] = Null]
    /\ bound' = bound \ ({a.id} \X Repos)
    /\ held' = [held EXCEPT ![a.id] = 0]
    /\ activity' = activity \ {a.id}
    /\ gone' = gone \cup {a.id}
    /\ Finish(w) /\ UNCHANGED <<account, projects, clock, reserved>>

(* _target_guard: active, at the revision its eligibility was read at.       *)
TargetHolds(a) == a.id # Shared => RevisionHolds(a) /\ row[a.id].status = "active"

CommitRecord(w) == LET a == ask[w] IN
    /\ a.op = "record" /\ Commit(w)
    /\ TargetHolds(a) /\ held[a.id] < MaxHeld
    /\ held' = [held EXCEPT ![a.id] = @ + 1]
    /\ IF a.id = Shared THEN UNCHANGED activity ELSE Published(a.id)
    /\ Finish(w) /\ UNCHANGED <<row, bound, gone>>

(* An archived project still lets go of its expenses.                        *)
CommitRemove(w) == LET a == ask[w] IN
    /\ a.op = "remove" /\ Commit(w)
    /\ held[a.id] > 0
    /\ held' = [held EXCEPT ![a.id] = @ - 1]
    /\ IF a.id = Shared THEN UNCHANGED activity ELSE Published(a.id)
    /\ Finish(w) /\ UNCHANGED <<row, bound, gone>>

(* A refusal, a failed guard or constraint, or a dead Worker.                *)
Drop(w) ==
    /\ Abandon(w)
    /\ Finish(w)
    /\ UNCHANGED <<projectTables, gone>>

LifeStep(w) ==
    \/ \E id \in Ids :
           \/ \E links \in SUBSET Repos : Create(w, id, links)
           \/ \E links \in (SUBSET Repos) \cup {Keep}, status \in {"active", "archived"} : Patch(w, id, links, status)
           \/ Erase(w, id)
    \/ \E pool \in Pools : Record(w, pool) \/ Remove(w, pool)
    \/ (\E shown \in SUBSET Repos : Check(w, shown)) \/ Drop(w)
    \/ CommitCreate(w) \/ CommitPatch(w) \/ CommitErase(w) \/ CommitRecord(w) \/ CommitRemove(w)

(* The Jev preference is left to JevReview.                                  *)
LifeEnvironment ==
    /\ (\E until \in Ends \ {account.until} : ChangePlan(until)) \/ Tick
    /\ UNCHANGED <<projectTables, gone, ask, asked>>

LifeNext ==
    \/ \E w \in Workers : LifeStep(w)
    \/ LifeEnvironment

LifeSpec == LifeInit /\ [][LifeNext]_lifeVars

-----------------------------------------------------------------------------
(* Properties.                                                               *)

\* A project is standalone exactly when it has no repository: its anchor is one of
\* its bindings, whichever edits were under way together, so a lost grant is never
\* taken for a project that needs none (standalone_project).
AnchorIsBound == \A id \in Live :
    IF row[id].anchor = Null THEN Bound(id) = {} ELSE row[id].anchor \in Bound(id)

\* Nothing of an erased project is left or comes back: no row, binding, expense or
\* activity, although requests that read it commit afterwards; and the records left
\* are the expenses of the pools that are left (FINAL_GUARD).
GoneForGood ==
    /\ \A id \in gone : row[id] = Null /\ Bound(id) = {} /\ held[id] = 0 /\ id \notin activity
    /\ \A id \in Ids : row[id] = Null => held[id] = 0

\* The rows of a project agree: its anchor with its bindings, and an erased project
\* with all that hung on it.
LifeConsistent == LifeTypeOK /\ AnchorIsBound /\ GoneForGood

Homes == INSTANCE RepositoryHomes WITH
    Ids <- Ids,
    Repos <- Repos,
    Nowhere <- Null,
    home <- [r \in Repos |-> IF \E id \in Ids : <<id, r>> \in bound
                             THEN CHOOSE id \in Ids : <<id, r>> \in bound ELSE Null],
    open <- Live,
    closed <- gone,
    opened <- projects

\* However requests interleave, a project's repositories change all at once, to ones
\* that were free or its own, and an erased project keeps its place in the plan.
ImplementsHomes == Homes!Spec
=============================================================================
