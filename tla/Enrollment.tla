------------------------------ MODULE Enrollment ------------------------------
(***************************************************************************)
(* POST /enrollments: EnrollStudentUseCase.execute over the SQL            *)
(* repositories.  FastAPI runs the endpoint in a pool of threads; every    *)
(* query and every commit is a step, and no constraint of the table links  *)
(* them.  One course offering; nothing in the program ever ends an         *)
(* enrollment, so a saved row stays active.                                *)
(***************************************************************************)
EXTENDS Naturals, FiniteSets

CONSTANTS
    Requests,      \* enrolment requests
    Students,
    MaxCapacity,   \* max_capacity of the offering
    Workers        \* threads that run endpoints

ASSUME EnrollmentAssumption ==
    IsFiniteSet(Requests) /\ MaxCapacity \in Nat /\ Workers \in Nat \ {0}

VARIABLES
    pc,      \* where each request is in execute()
    who,     \* the student it is for
    rows     \* the requests whose enrollment is in the table

vars == <<pc, who, rows>>

InFlight == {r \in Requests : pc[r] \in {"offering", "duplicate", "capacity", "save"}}
RowsOf(s) == {r \in rows : who[r] = s}

Init ==
    /\ pc = [r \in Requests |-> "new"]
    /\ who \in [Requests -> Students]
    /\ rows = {}

Goto(r, there) == pc' = [pc EXCEPT ![r] = there]

\* A thread of the pool takes the request.
Receive(r) ==
    /\ pc[r] = "new" /\ Cardinality(InFlight) < Workers
    /\ Goto(r, "offering")
    /\ UNCHANGED <<who, rows>>

\* get_by_id: the offering may not exist.
FindOffering(r) ==
    /\ pc[r] = "offering"
    /\ Goto(r, "duplicate") \/ Goto(r, "rejected")
    /\ UNCHANGED <<who, rows>>

\* Mutant: the duplicate check is dropped.
CheckDuplicateNot(r) ==
    /\ pc[r] = "duplicate" /\ Goto(r, "capacity")
    /\ UNCHANGED <<who, rows>>

CheckDuplicate(r) ==
    /\ pc[r] = "duplicate"
    /\ Goto(r, IF RowsOf(who[r]) = {} THEN "capacity" ELSE "rejected")
    /\ UNCHANGED <<who, rows>>

\* Mutant: off by one at the limit.
CheckCapacityOneMore(r) ==
    /\ pc[r] = "capacity"
    /\ Goto(r, IF Cardinality(rows) > MaxCapacity THEN "rejected" ELSE "save")
    /\ UNCHANGED <<who, rows>>

CheckCapacity(r) ==
    /\ pc[r] = "capacity"
    /\ Goto(r, IF Cardinality(rows) >= MaxCapacity THEN "rejected" ELSE "save")
    /\ UNCHANGED <<who, rows>>

\* add and commit; an unknown student violates the foreign key.
Save(r) ==
    /\ pc[r] = "save"
    /\ \/ Goto(r, "enrolled") /\ rows' = rows \cup {r}
       \/ Goto(r, "rejected") /\ UNCHANGED rows
    /\ UNCHANGED who

Next == \E r \in Requests :
    Receive(r) \/ FindOffering(r) \/ CheckDuplicate(r) \/ CheckCapacity(r) \/ Save(r)

Spec == Init /\ [][Next]_vars

-----------------------------------------------------------------------------
(* Properties                                                                *)

\* Every variable keeps its type, and exactly the requests answered with 201
\* have a row.
TypeOK ==
    /\ pc \in [Requests -> {"new", "offering", "duplicate", "capacity", "save", "enrolled",
                            "rejected"}]
    /\ who \in [Requests -> Students]
    /\ rows = {r \in Requests : pc[r] = "enrolled"}

\* Check-then-act over threads overbooks the offering, but by no more than the
\* threads that can pass the capacity check beside the first: one never does.
OverbookingBounded == Cardinality(rows) <= MaxCapacity + (Workers - 1)

\* Nor can a student hold more rows than there are threads: with one, a single row.
DuplicatesBounded == \A s \in Students : Cardinality(RowsOf(s)) <= Workers
=============================================================================
