----------------------------- MODULE Submissions -----------------------------
(***************************************************************************)
(* The two endpoints of academic_router.py that write submissions.  POST   *)
(* /student/assignments/{id}/submit grades the source, looks for an        *)
(* earlier submission of the student and inserts a row or changes the one  *)
(* it found; PATCH /teacher/submissions/{id}/grade overrides the marks of  *)
(* a row.  Endpoints run on a pool of threads, each with a session of its  *)
(* own; no constraint of the table makes rows unique, and SQLAlchemy's     *)
(* UPDATE names only the columns whose value differs from the one the      *)
(* session has loaded.                                                     *)
(* One assignment; of the columns, the source and the marks, which stand   *)
(* for the grader's columns (run_grader is external: a function of the     *)
(* source).  Status and feedback, which both endpoints write, are not.     *)
(***************************************************************************)
EXTENDS Naturals, FiniteSets

CONSTANTS
    Requests,    \* submissions sent; each has a source of its own
    Gradings,    \* the teacher's PATCH requests
    Students,
    Marks,       \* the grader's results and the teacher's
    Workers      \* threads that run endpoints

ASSUME SubmissionAssumption ==
    /\ IsFiniteSet(Requests) /\ IsFiniteSet(Gradings) /\ Requests \cap Gradings = {}
    /\ Workers \in Nat \ {0}

Calls == Requests \cup Gradings

VARIABLES
    pc,        \* where each call is in its endpoint
    who,       \* its student
    grade,     \* what the grader makes of its source
    rows,      \* the requests that inserted a row, which names the row
    source,    \* source_code of each row, the request it came from
    marks,     \* marks_awarded of each row
    found,     \* the row each request has found, or the request itself
    loaded,    \* that row's columns when its session loaded them
    target,    \* the row each grading names
    award,     \* the marks it asks for
    was,       \* the row's marks when its session loaded them
    met,       \* requests beside which another call for a row of the student was between
               \* its query and its commit
    overruled  \* rows that no submission has changed since a teacher set their marks

teacherVars == <<target, award, was>>
vars == <<pc, who, grade, rows, source, marks, found, loaded, teacherVars, met, overruled>>

InFlight == {c \in Calls : pc[c] \in {"assignment", "grade", "find", "load", "commit"}}
RowsOf(s) == {r \in rows : who[r] = s}
Beside(r) == {q \in Requests \ {r} : who[q] = who[r] /\ pc[q] = "commit"}
GradedBeside(r) == {g \in Gradings : who[target[g]] = who[r] /\ pc[g] = "commit"}

Init ==
    /\ pc = [c \in Calls |-> "new"]
    /\ who \in [Requests -> Students]
    /\ grade \in [Requests -> Marks]
    /\ target \in [Gradings -> Requests] /\ award \in [Gradings -> Marks] /\ was = award
    /\ rows = {} /\ met = {} /\ overruled = {}
    /\ source = [r \in Requests |-> r] /\ marks = grade
    /\ found = [r \in Requests |-> r]
    /\ loaded = [r \in Requests |-> [source |-> r, marks |-> grade[r]]]

Goto(c, there) == pc' = [pc EXCEPT ![c] = there]
Keep == UNCHANGED <<who, grade, target>>
KeepTable == UNCHANGED <<rows, source, marks, overruled>>
KeepTeacher == UNCHANGED <<award, was>>

\* A thread of the pool takes the call.
Receive(c) ==
    /\ pc[c] = "new" /\ Cardinality(InFlight) < Workers
    /\ Goto(c, IF c \in Requests THEN "assignment" ELSE "load")
    /\ Keep /\ KeepTable /\ KeepTeacher /\ UNCHANGED <<found, loaded, met>>

-----------------------------------------------------------------------------
(* student_submit_assignment *)

\* The assignment may not be there, or not be published.
FindAssignment(r) ==
    /\ pc[r] = "assignment" /\ (Goto(r, "grade") \/ Goto(r, "rejected"))
    /\ Keep /\ KeepTable /\ KeepTeacher /\ UNCHANGED <<found, loaded, met>>

Grade(r) ==
    /\ pc[r] = "grade" /\ Goto(r, "find")
    /\ Keep /\ KeepTable /\ KeepTeacher /\ UNCHANGED <<found, loaded, met>>

\* first() of an unordered query: any row of the student, or none.
FindExisting(r) ==
    /\ pc[r] = "find" /\ Goto(r, "commit")
    /\ \E row \in IF RowsOf(who[r]) = {} THEN {r} ELSE RowsOf(who[r]) :
          /\ found' = [found EXCEPT ![r] = row]
          /\ loaded' = [loaded EXCEPT ![r] = [source |-> source[row], marks |-> marks[row]]]
    /\ met' = IF Beside(r) \cup GradedBeside(r) = {} THEN met ELSE met \cup {r} \cup Beside(r)
    /\ Keep /\ KeepTable /\ KeepTeacher

\* Mutant: the marks are assigned only to a new row.
UpdateSourceOnly(r) ==
    /\ source' = [source EXCEPT ![found[r]] = r] /\ UNCHANGED marks

\* The UPDATE sets the columns that differ from the loaded ones.
Update(r) ==
    /\ source' = [source EXCEPT ![found[r]] = IF loaded[r].source = r THEN @ ELSE r]
    /\ marks' = [marks EXCEPT ![found[r]] = IF loaded[r].marks = grade[r] THEN @ ELSE grade[r]]

\* Mutant: a resubmission inserts a row as well.
CommitInserts(r) ==
    /\ pc[r] = "commit" /\ Goto(r, "answered") /\ rows' = rows \cup {r}
    /\ UNCHANGED <<source, marks, overruled>> /\ Keep /\ KeepTeacher
    /\ UNCHANGED <<found, loaded, met>>

\* commit; it may fail, and then changes nothing.
Commit(r) ==
    /\ pc[r] = "commit"
    /\ \/ Goto(r, "failed") /\ KeepTable
       \/ /\ Goto(r, "answered")
          /\ IF found[r] = r THEN rows' = rows \cup {r} /\ UNCHANGED <<source, marks>>
             ELSE Update(r) /\ UNCHANGED rows
          /\ overruled' = overruled \ {found[r]}
    /\ Keep /\ KeepTeacher /\ UNCHANGED <<found, loaded, met>>

-----------------------------------------------------------------------------
(* teacher_grade_submission *)

\* The submission may not exist; a body without marks asks for those it has.
LoadSubmission(g) ==
    /\ pc[g] = "load"
    /\ IF target[g] \in rows
       THEN /\ Goto(g, "commit")
            /\ was' = [was EXCEPT ![g] = marks[target[g]]]
            /\ \E m \in {award[g], marks[target[g]]} : award' = [award EXCEPT ![g] = m]
            /\ met' = met \cup {r \in Requests : who[r] = who[target[g]] /\ pc[r] = "commit"}
       ELSE Goto(g, "rejected") /\ KeepTeacher /\ UNCHANGED met
    /\ Keep /\ KeepTable /\ UNCHANGED <<found, loaded>>

\* The UPDATE names marks_awarded only if it differs from what was loaded.
Award(g) ==
    IF award[g] # was[g]
    THEN /\ marks' = [marks EXCEPT ![target[g]] = award[g]]
         /\ overruled' = overruled \cup {target[g]}
    ELSE UNCHANGED <<marks, overruled>>

CommitGrade(g) ==
    /\ pc[g] = "commit"
    /\ \/ Goto(g, "failed") /\ UNCHANGED <<marks, overruled>>
       \/ Goto(g, "answered") /\ Award(g)
    /\ Keep /\ KeepTeacher /\ UNCHANGED <<rows, source, found, loaded, met>>

Next ==
    \/ \E c \in Calls : Receive(c)
    \/ \E r \in Requests : FindAssignment(r) \/ Grade(r) \/ FindExisting(r) \/ Commit(r)
    \/ \E g \in Gradings : LoadSubmission(g) \/ CommitGrade(g)

Spec == Init /\ [][Next]_vars

-----------------------------------------------------------------------------
(* Properties *)

Places == {"new", "assignment", "grade", "find", "load", "commit", "answered", "rejected",
           "failed"}

TypeOK ==
    /\ pc \in [Calls -> Places]
    /\ who \in [Requests -> Students] /\ grade \in [Requests -> Marks]
    /\ rows \in SUBSET Requests /\ met \in SUBSET Requests /\ overruled \in SUBSET Requests
    /\ source \in [Requests -> Requests] /\ marks \in [Requests -> Marks]
    /\ found \in [Requests -> Requests]
    /\ loaded \in [Requests -> [source : Requests, marks : Marks]]
    /\ target \in [Gradings -> Requests]
    /\ award \in [Gradings -> Marks] /\ was \in [Gradings -> Marks]

\* A row's marks are those of its source, or a teacher has set them since the source was
\* stored, or the submission that stored it met another call for a row of the student,
\* the teacher's included, between its query and its commit.
MixedOnlyIfMet == \A row \in rows :
    marks[row] # grade[source[row]] => row \in overruled \/ source[row] \in met

\* A student has no more rows than threads could insert beside each other.
RowsBounded == \A s \in Students : Cardinality(RowsOf(s)) <= Workers
=============================================================================
