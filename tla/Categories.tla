---------------------------- MODULE Categories ----------------------------
(***************************************************************************)
(* The categories of one ledger: created, renamed, archived (the ordinary  *)
(* delete) and removed for good. A request reads the row and its revision, *)
(* looks for a category of the same name, and only then writes its batch;  *)
(* the unique index on the names in use and the revision decide what holds *)
(* at that moment. A removed row stays, as the label of old expenses.      *)
(***************************************************************************)
EXTENDS Naturals

CONSTANTS
    CatIds,         \* rows a ledger may have
    Names,          \* names, equal when lower(name) is
    Editors,        \* requests in progress at a time
    Untitled,       \* the name of a row not created yet
    MaxCatRev,      \* bound: revisions a client sends
    MaxCatAsked     \* bound: requests of a behaviour

VARIABLES
    cats,       \* expense_categories
    jobs,       \* what each request has read
    catAsked    \* requests so far

catVars == <<cats, jobs, catAsked>>

NoRow == [state |-> "unused", name |-> Untitled, rev |-> 0]
NoJob == [pc |-> "idle", kind |-> "create", cat |-> Untitled, name |-> Untitled,
          expected |-> 0, row |-> NoRow]

CategoriesInit ==
    /\ cats = [c \in CatIds |-> NoRow]
    /\ jobs = [e \in Editors |-> NoJob]
    /\ catAsked = 0

\* Another category not archived has the name.
Taken(name, c) == \E d \in CatIds \ {c} : cats[d].state = "live" /\ cats[d].name = name

Advance(e, pc) ==
    jobs' = [jobs EXCEPT ![e] = IF pc = "idle" THEN NoJob ELSE [@ EXCEPT !.pc = pc]]

\* A request arrives; a new row has an id of its own.
AskCategory(e) ==
    /\ jobs[e].pc = "idle" /\ catAsked < MaxCatAsked
    /\ \E kind \in {"create", "patch", "archive", "remove"}, c \in CatIds, n \in Names,
          expected \in 1 .. MaxCatRev :
        /\ kind = "create" =>
             /\ cats[c].state = "unused" /\ expected = 1
             /\ \A f \in Editors : jobs[f].kind = "create" => jobs[f].cat # c
        /\ kind \in {"archive", "remove"} => n = cats[c].name
        /\ jobs' = [jobs EXCEPT ![e] = [pc |-> "read", kind |-> kind, cat |-> c, name |-> n,
                                        expected |-> expected, row |-> NoRow]]
    /\ catAsked' = catAsked + 1
    /\ UNCHANGED cats

\* No such row, another revision, or a row that takes no more of such changes; a
\* removal that finds the row removed is answered as done and also ends here.
Settled(job, row) ==
    \/ row.state \in {"unused", "removed"} \/ job.expected # row.rev
    \/ job.kind # "remove" /\ row.state = "archived"

ReadCategory(e) ==
    /\ jobs[e].pc = "read"
    /\ LET row == cats[jobs[e].cat]
           next == CASE jobs[e].kind = "create" -> "check"
                     [] jobs[e].kind = "patch" /\ ~Settled(jobs[e], row) -> "check"
                     [] jobs[e].kind \in {"archive", "remove"} /\ ~Settled(jobs[e], row) -> "write"
                     [] OTHER -> "idle"
       IN  jobs' = [jobs EXCEPT ![e] = IF next = "idle" THEN NoJob
                                       ELSE [@ EXCEPT !.pc = next, !.row = row]]
    /\ UNCHANGED <<cats, catAsked>>

CheckName(e) ==
    /\ jobs[e].pc = "check"
    /\ Advance(e, IF Taken(jobs[e].name, jobs[e].cat) THEN "idle" ELSE "write")
    /\ UNCHANGED <<cats, catAsked>>

\* weakened: the name was looked up already, and no unique index repeats it.
FitsNoIndex(job, row) ==
    /\ job.kind # "create" => row.rev = job.expected
    /\ job.kind \in {"patch", "archive"} => row.state = "live"
    /\ job.kind = "remove" => row.state # "removed"

\* What the batch repeats: the unique index, the revision and the state.
Fits(job, row) ==
    /\ job.kind \in {"create", "patch"} => ~Taken(job.name, job.cat)
    /\ job.kind # "create" => row.rev = job.expected
    /\ job.kind \in {"patch", "archive"} => row.state = "live"
    /\ job.kind = "remove" => row.state # "removed"

Written(job, row) ==
    CASE job.kind = "create" -> [state |-> "live", name |-> job.name, rev |-> 1]
      [] job.kind = "patch" -> [row EXCEPT !.name = job.name, !.rev = @ + 1]
      [] job.kind = "archive" -> [row EXCEPT !.state = "archived", !.rev = @ + 1]
      [] OTHER -> [row EXCEPT !.state = "removed", !.rev = @ + 1]

CommitCategory(e) ==
    /\ jobs[e].pc = "write"
    /\ LET job == jobs[e]
           row == cats[job.cat]
       IN  cats' = IF Fits(job, row) THEN [cats EXCEPT ![job.cat] = Written(job, row)] ELSE cats
    /\ Advance(e, "idle")
    /\ UNCHANGED catAsked

CategoriesNext ==
    \E e \in Editors : AskCategory(e) \/ ReadCategory(e) \/ CheckName(e) \/ CommitCategory(e)

CategoriesSpec == CategoriesInit /\ [][CategoriesNext]_catVars

----------------------------------------------------------------------------
(* Properties. *)

CatTypeOK ==
    /\ cats \in [CatIds -> [state : {"unused", "live", "archived", "removed"},
                            name : Names \cup {Untitled}, rev : Nat]]
    /\ \A e \in Editors : jobs[e].pc \in {"idle", "read", "check", "write"}

\* No two categories in use have one name, however their requests interleave.
NamesDistinct ==
    \A c, d \in CatIds :
        cats[c].state = "live" /\ cats[d].state = "live" /\ cats[c].name = cats[d].name => c = d

\* An archived name is never given back or renamed, a removed row never changes:
\* the labels of old expenses and of rules stay what they were.
LabelsStay ==
    \A c \in CatIds :
        /\ cats[c].state = "removed" => cats'[c] = cats[c]
        /\ cats[c].state = "archived" =>
             cats'[c].name = cats[c].name /\ cats'[c].state \in {"archived", "removed"}

\* A row is replaced only by a request that read exactly this row: no update is lost.
NoLostEdit ==
    \A c \in CatIds : cats[c].state # "unused" /\ cats'[c] # cats[c] =>
        \E e \in Editors : jobs[e].pc = "write" /\ jobs[e].cat = c /\ jobs[e].row = cats[c]

\* Categories never share a name, lose an edit or change once they are only labels.
CategoriesHold ==
    /\ [](CatTypeOK /\ NamesDistinct)
    /\ [][LabelsStay /\ NoLostEdit]_catVars
============================================================================
