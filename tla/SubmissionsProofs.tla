--------------------------- MODULE SubmissionsProofs ---------------------------
(***************************************************************************)
(* Proofs about Submissions, for any number of submissions, gradings,      *)
(* students, marks and threads.                                            *)
(*                                                                         *)
(* A submission and another call for a row of its student that are between *)
(* query and commit together have met (MetInv), so a submission that has   *)
(* met nobody writes to the row it loaded (RowInv) and leaves it whole.  A *)
(* query that finds no row comes before the student's first commit; all    *)
(* the rows a student ever gets were therefore in flight at that moment    *)
(* (InsertInv), and one that has met nobody is the first (FirstInv).       *)
(* Query and write of such a submission are as one step                    *)
(* (LoneSubmissionsAreSerial), whatever other calls go on meanwhile.       *)
(***************************************************************************)
EXTENDS Submissions, FiniteSetTheorems, TLAPS

Changing(r) == pc[r] = "commit" /\ found[r] # r
Inserting(s) == {r \in Requests : who[r] = s /\ pc[r] = "commit" /\ found[r] = r}

\* Two calls for rows of a student that are both at their commit have met.
MetInv == \A r \in Requests : pc[r] = "commit" =>
    /\ \A q \in Requests \ {r} : who[q] = who[r] /\ pc[q] = "commit" => r \in met
    /\ \A g \in Gradings : who[target[g]] = who[r] /\ pc[g] = "commit" => r \in met

\* A row's source has been answered; a submission that met nobody changes a row that is
\* still as it was loaded; a teacher marks a row; what no row stores is not changed.
RowInv ==
    /\ \A row \in rows : pc[source[row]] = "answered"
    /\ \A r \in Requests : Changing(r) =>
          /\ found[r] \in rows /\ who[found[r]] = who[r]
          /\ loaded[r].source # r
          /\ r \notin met => loaded[r] = [source |-> source[found[r]], marks |-> marks[found[r]]]
    /\ \A g \in Gradings : pc[g] = "commit" => target[g] \in rows
    /\ \A r \in Requests \ rows : source[r] = r /\ marks[r] = grade[r]

\* As soon as a student has a row, no request of his starts to insert one.
InsertInv ==
    /\ Cardinality(InFlight) <= Workers
    /\ \A s \in Students :
          RowsOf(s) # {} => Cardinality(RowsOf(s) \cup Inserting(s)) <= Workers

\* A submission that met nobody and found no row still has none.
FirstInv ==
    /\ \A row \in rows : pc[row] = "answered"
    /\ \A r \in Requests \ met : pc[r] = "commit" /\ found[r] = r => RowsOf(who[r]) = {}

IInv == TypeOK /\ MetInv /\ RowInv /\ InsertInv /\ FirstInv /\ MixedOnlyIfMet

-----------------------------------------------------------------------------
(* Steps *)

Quiet == UNCHANGED <<who, grade, target, rows, source, found, loaded>>

\* A call moves on, not to its commit, without touching the table.
Moves(c) ==
    /\ Quiet /\ UNCHANGED <<award, was, marks, met, overruled>>
    /\ \E p \in Places \ {"commit"} : Goto(c, p)
    /\ pc[c] \in IF c \in Requests THEN {"new", "assignment", "grade"} ELSE {"new", "load", "commit"}

\* The three ends of Commit.
Ends(r, p) ==
    /\ pc[r] = "commit" /\ Goto(r, p)
    /\ UNCHANGED <<who, grade, target, award, was, found, loaded, met>>
Fails(r) == Ends(r, "failed") /\ UNCHANGED <<rows, source, marks, overruled>>
Stores(r) == Ends(r, "answered") /\ overruled' = overruled \ {found[r]}
Inserts(r) == Stores(r) /\ found[r] = r /\ rows' = rows \cup {r} /\ UNCHANGED <<source, marks>>
Changes(r) == Stores(r) /\ found[r] # r /\ Update(r) /\ UNCHANGED rows

\* A grading loads its row; it is answered.
Loads(g) ==
    /\ pc[g] = "load" /\ target[g] \in rows /\ Goto(g, "commit")
    /\ was' \in [Gradings -> Marks] /\ award' \in [Gradings -> Marks]
    /\ met' = met \cup {r \in Requests : who[r] = who[target[g]] /\ pc[r] = "commit"}
    /\ Quiet /\ UNCHANGED <<marks, overruled>>
Awards(g) ==
    /\ pc[g] = "commit" /\ Goto(g, "answered") /\ Award(g)
    /\ Quiet /\ UNCHANGED <<award, was, met>>

SubmissionStep(r) == FindExisting(r) \/ Fails(r) \/ Inserts(r) \/ Changes(r)
GradingStep(g) == Loads(g) \/ Awards(g)

LEMMA StepCases ==
    ASSUME TypeOK, [Next]_vars
    PROVE  \/ UNCHANGED vars
           \/ \E c \in Calls : (Receive(c) \/ pc[c] # "new") /\ Moves(c)
           \/ \E r \in Requests : SubmissionStep(r)
           \/ \E g \in Gradings : GradingStep(g)
<1>1. ASSUME NEW c \in Calls, Receive(c) PROVE Moves(c)
  BY <1>1 DEF Receive, Moves, Quiet, Goto, Keep, KeepTable, KeepTeacher, Places
<1>2. ASSUME NEW r \in Requests, FindAssignment(r) \/ Grade(r)
      PROVE  pc[r] # "new" /\ Moves(r)
  <2>1. r \notin Gradings
    BY SubmissionAssumption
  <2>2. QED
    BY <1>2, <2>1
    DEF FindAssignment, Grade, Moves, Quiet, Goto, Keep, KeepTable, KeepTeacher, Places
<1>3. ASSUME NEW r \in Requests, FindExisting(r) \/ Commit(r) PROVE SubmissionStep(r)
  BY <1>3
  DEF Commit, SubmissionStep, Fails, Stores, Inserts, Changes, Ends, Keep, KeepTable, KeepTeacher
<1>4. ASSUME NEW g \in Gradings, LoadSubmission(g)
      PROVE  GradingStep(g) \/ (pc[g] # "new" /\ Moves(g))
  <2>1. CASE target[g] \in rows
    <3>1. was' \in [Gradings -> Marks] /\ award' \in [Gradings -> Marks]
      BY <1>4, <2>1 DEF LoadSubmission, TypeOK
    <3>2. QED
      BY <1>4, <2>1, <3>1 DEF LoadSubmission, GradingStep, Loads, Quiet, Keep, KeepTable
  <2>2. CASE target[g] \notin rows
    <3>1. g \notin Requests
      BY SubmissionAssumption
    <3>2. QED
      BY <1>4, <2>2, <3>1
      DEF LoadSubmission, Moves, Quiet, Goto, Keep, KeepTable, KeepTeacher, Places
  <2>3. QED
    BY <2>1, <2>2
<1>5. ASSUME NEW g \in Gradings, CommitGrade(g)
      PROVE  GradingStep(g) \/ (pc[g] # "new" /\ Moves(g))
  <2>1. g \notin Requests
    BY SubmissionAssumption
  <2>2. QED
    BY <1>5, <2>1
    DEF CommitGrade, GradingStep, Awards, Moves, Quiet, Goto, Keep, KeepTeacher, Places
<1>6. QED
  BY <1>1, <1>2, <1>3, <1>4, <1>5 DEF Next, Calls

LEMMA TypeStep ==
    ASSUME TypeOK, [Next]_vars
    PROVE  TypeOK'
<1> USE DEF TypeOK
<1>1. CASE UNCHANGED vars
  BY <1>1 DEF vars, teacherVars
<1>2. ASSUME NEW c \in Calls, Moves(c) PROVE TypeOK'
  BY <1>2 DEF Moves, Quiet, Goto
<1>3. ASSUME NEW r \in Requests, FindExisting(r) PROVE TypeOK'
  <2>1. PICK row \in Requests :
          /\ found' = [found EXCEPT ![r] = row]
          /\ loaded' = [loaded EXCEPT ![r] = [source |-> source[row], marks |-> marks[row]]]
    BY <1>3 DEF FindExisting, RowsOf
  <2>2. met' \in SUBSET Requests
    BY <1>3 DEF FindExisting, Beside
  <2>3. QED
    BY <1>3, <2>1, <2>2 DEF FindExisting, Goto, Keep, KeepTable, KeepTeacher, Places
<1>4. ASSUME NEW r \in Requests, Fails(r) \/ Inserts(r) PROVE TypeOK'
  BY <1>4 DEF Fails, Inserts, Stores, Ends, Goto, Places
<1>5. ASSUME NEW r \in Requests, Changes(r) PROVE TypeOK'
  <2>1. source' \in [Requests -> Requests] /\ marks' \in [Requests -> Marks]
    BY <1>5 DEF Changes, Update
  <2>2. QED
    BY <1>5, <2>1 DEF Changes, Stores, Ends, Goto, Places
<1>6. ASSUME NEW g \in Gradings, GradingStep(g) PROVE TypeOK'
  <2>1. marks' \in [Requests -> Marks] /\ overruled' \in SUBSET Requests
    BY <1>6 DEF GradingStep, Loads, Awards, Award
  <2>2. QED
    BY <1>6, <2>1 DEF GradingStep, Loads, Awards, Quiet, Goto, Places
<1>7. QED
  BY <1>1, <1>2, <1>3, <1>4, <1>5, <1>6, StepCases DEF SubmissionStep

LEMMA MetStep ==
    ASSUME TypeOK, MetInv, [Next]_vars
    PROVE  MetInv'
<1> USE DEF TypeOK, MetInv
<1>0. Requests \subseteq Calls /\ Gradings \subseteq Calls /\ Requests \cap Gradings = {}
  BY SubmissionAssumption DEF Calls
<1>1. CASE UNCHANGED vars
  BY <1>1 DEF vars, teacherVars
<1>2. ASSUME NEW c \in Calls, Moves(c) PROVE MetInv'
  BY <1>0, <1>2 DEF Moves, Quiet, Goto
<1>3. ASSUME NEW r \in Requests, FindExisting(r) PROVE MetInv'
  <2>1. /\ pc' = [pc EXCEPT ![r] = "commit"] /\ who' = who /\ target' = target
        /\ met \subseteq met' /\ Beside(r) \subseteq met'
        /\ Beside(r) # {} \/ GradedBeside(r) # {} => r \in met'
    BY <1>3 DEF FindExisting, Goto, Keep
  <2>2. QED
    BY <1>0, <2>1 DEF Beside, GradedBeside
<1>4. ASSUME NEW r \in Requests, Fails(r) \/ Inserts(r) \/ Changes(r) PROVE MetInv'
  BY <1>0, <1>4 DEF Fails, Inserts, Changes, Stores, Ends, Goto
<1>5. ASSUME NEW g \in Gradings, GradingStep(g) PROVE MetInv'
  <2>1. CASE Loads(g)
    BY <1>0, <2>1 DEF Loads, Quiet, Goto
  <2>2. CASE Awards(g)
    BY <1>0, <2>2 DEF Awards, Quiet, Goto
  <2>3. QED
    BY <1>5, <2>1, <2>2 DEF GradingStep
<1>6. QED
  BY <1>1, <1>2, <1>3, <1>4, <1>5, StepCases DEF SubmissionStep

\* What a change does to its row, and that it does nothing to the others.
LEMMA ChangeFacts ==
    ASSUME TypeOK, RowInv, NEW r \in Requests, Changes(r)
    PROVE  /\ found[r] \in rows /\ source'[found[r]] = r
           /\ r \notin met => marks'[found[r]] = grade[r]
           /\ \A row \in Requests \ {found[r]} :
                 source'[row] = source[row] /\ marks'[row] = marks[row]
<1> USE DEF TypeOK
<1>1. /\ found[r] \in rows /\ loaded[r].source # r
      /\ r \notin met => loaded[r].marks = marks[found[r]]
  BY DEF RowInv, Changing, Changes, Stores, Ends
<1>2. QED
  BY <1>1 DEF Changes, Update

LEMMA RowStep ==
    ASSUME TypeOK, MetInv, RowInv, [Next]_vars
    PROVE  RowInv'
<1> USE DEF TypeOK
<1>0. Requests \subseteq Calls /\ Gradings \subseteq Calls /\ Requests \cap Gradings = {}
  BY SubmissionAssumption DEF Calls
<1>1. CASE UNCHANGED vars
  BY <1>1 DEF vars, teacherVars, RowInv, Changing
<1>2. ASSUME NEW c \in Calls, Moves(c) PROVE RowInv'
  <2>1. /\ \A q \in Requests : /\ pc[q] \in {"answered", "commit"} => pc'[q] = pc[q]
                               /\ pc'[q] = "commit" => pc[q] = "commit"
        /\ \A g \in Gradings : pc'[g] = "commit" => pc[g] = "commit"
    BY <1>0, <1>2 DEF Moves, Goto
  <2>2. QED
    BY <1>2, <2>1 DEF Moves, Quiet, RowInv, Changing
<1>3. ASSUME NEW r \in Requests, FindExisting(r) PROVE RowInv'
  <2>1. /\ pc[r] = "find" /\ pc' = [pc EXCEPT ![r] = "commit"]
        /\ UNCHANGED <<who, grade, target, rows, source, marks>> /\ met \subseteq met'
    BY <1>3 DEF FindExisting, Goto, Keep, KeepTable
  <2>2. PICK row \in Requests :
          /\ row = r \/ row \in RowsOf(who[r])
          /\ found' = [found EXCEPT ![r] = row]
          /\ loaded' = [loaded EXCEPT ![r] = [source |-> source[row], marks |-> marks[row]]]
    BY <1>3 DEF FindExisting, RowsOf
  <2>3. \A x \in rows : pc'[source[x]] = "answered" /\ source[x] # r
    BY <1>0, <2>1 DEF RowInv
  <2>4. ASSUME NEW q \in Requests \ {r}, Changing(q)'
        PROVE  /\ found'[q] \in rows /\ who[found'[q]] = who[q] /\ loaded'[q].source # q
               /\ q \notin met' => loaded'[q] = [source |-> source[found'[q]], marks |-> marks[found'[q]]]
    <3>1. Changing(q) /\ found'[q] = found[q] /\ loaded'[q] = loaded[q]
      BY <1>0, <2>1, <2>2, <2>4 DEF Changing
    <3>2. QED
      BY <2>1, <3>1 DEF RowInv
  <2>5. ASSUME Changing(r)'
        PROVE  /\ found'[r] \in rows /\ who[found'[r]] = who[r] /\ loaded'[r].source # r
               /\ loaded'[r] = [source |-> source[found'[r]], marks |-> marks[found'[r]]]
    <3>1. found'[r] = row /\ row # r /\ row \in rows /\ who[row] = who[r]
      BY <2>2, <2>5 DEF Changing, RowsOf
    <3>2. QED
      BY <2>2, <2>3, <3>1
  <2>6. \A g \in Gradings : pc'[g] = pc[g]
    BY <1>0, <2>1
  <2>7. QED
    BY <2>1, <2>3, <2>4, <2>5, <2>6 DEF RowInv
<1>4. ASSUME NEW r \in Requests, Fails(r) PROVE RowInv'
  BY <1>0, <1>4 DEF Fails, Ends, Goto, RowInv, Changing
<1>5. ASSUME NEW r \in Requests, Inserts(r) PROVE RowInv'
  <2>1. /\ pc[r] = "commit" /\ pc' = [pc EXCEPT ![r] = "answered"] /\ rows' = rows \cup {r}
        /\ UNCHANGED <<who, grade, target, found, loaded, met, source, marks>>
    BY <1>5 DEF Inserts, Stores, Ends, Goto
  <2>2. \A x \in rows' : pc'[source[x]] = "answered"
    BY <1>0, <2>1 DEF RowInv
  <2>3. \A q \in Requests : Changing(q)' => Changing(q)
    BY <1>0, <2>1 DEF Changing
  <2>4. \A g \in Gradings : pc'[g] = pc[g]
    BY <1>0, <2>1
  <2>5. QED
    BY <2>1, <2>2, <2>3, <2>4 DEF RowInv
<1>6. ASSUME NEW r \in Requests, Changes(r) PROVE RowInv'
  <2>1. /\ pc[r] = "commit" /\ pc' = [pc EXCEPT ![r] = "answered"]
        /\ UNCHANGED <<who, grade, target, found, loaded, met, rows>>
    BY <1>6 DEF Changes, Stores, Ends, Goto
  <2>2. /\ found[r] \in rows /\ source'[found[r]] = r /\ who[found[r]] = who[r]
        /\ \A row \in Requests \ {found[r]} :
              source'[row] = source[row] /\ marks'[row] = marks[row]
    <3>1. Changing(r)
      BY <1>6 DEF Changing, Changes, Stores, Ends
    <3>2. QED
      BY <1>6, <3>1, ChangeFacts DEF RowInv
  <2>3. \A x \in rows : pc'[source'[x]] = "answered"
    BY <1>0, <2>1, <2>2 DEF RowInv
  <2>4. ASSUME NEW q \in Requests, Changing(q)'
        PROVE  /\ found[q] \in rows /\ who[found[q]] = who[q] /\ loaded[q].source # q
               /\ q \notin met => loaded[q] = [source |-> source'[found[q]], marks |-> marks'[found[q]]]
    <3>1. Changing(q) /\ q # r
      BY <1>0, <2>1, <2>4 DEF Changing
    <3>2. q \notin met => found[q] # found[r]
      BY <2>1, <2>2, <3>1 DEF MetInv, RowInv, Changing
    <3>3. QED
      BY <2>2, <3>1, <3>2 DEF RowInv
  <2>5. \A g \in Gradings : pc'[g] = pc[g]
    BY <1>0, <2>1
  <2>6. QED
    BY <2>1, <2>2, <2>3, <2>4, <2>5 DEF RowInv
<1>7. ASSUME NEW g \in Gradings, Loads(g) PROVE RowInv'
  <2>1. /\ target[g] \in rows /\ pc' = [pc EXCEPT ![g] = "commit"] /\ met \subseteq met'
        /\ UNCHANGED <<who, grade, target, rows, source, marks, found, loaded>>
    BY <1>7 DEF Loads, Quiet, Goto
  <2>2. \A q \in Requests : pc'[q] = pc[q]
    BY <1>0, <2>1
  <2>3. QED
    BY <1>0, <2>1, <2>2 DEF RowInv, Changing
<1>8. ASSUME NEW g \in Gradings, Awards(g) PROVE RowInv'
  <2>1. /\ pc[g] = "commit" /\ pc' = [pc EXCEPT ![g] = "answered"]
        /\ UNCHANGED <<who, grade, target, rows, source, found, loaded, met>>
        /\ \A row \in Requests \ {target[g]} : marks'[row] = marks[row]
    BY <1>8 DEF Awards, Award, Quiet, Goto
  <2>2. target[g] \in rows /\ \A q \in Requests : pc'[q] = pc[q]
    BY <1>0, <2>1 DEF RowInv
  <2>3. ASSUME NEW q \in Requests \ met, Changing(q)
        PROVE  marks'[found[q]] = marks[found[q]]
    BY <2>1, <2>3 DEF MetInv, RowInv, Changing
  <2>4. QED
    BY <1>0, <2>1, <2>2, <2>3 DEF RowInv, Changing
<1>9. QED
  BY <1>1, <1>2, <1>3, <1>4, <1>5, <1>6, <1>7, <1>8, StepCases DEF SubmissionStep, GradingStep

\* A submission inserts its row beside no other of the student unless it has met one.
LEMMA FirstStep ==
    ASSUME TypeOK, MetInv, FirstInv, [Next]_vars
    PROVE  FirstInv'
<1> USE DEF TypeOK, FirstInv
<1>0. Requests \subseteq Calls /\ Gradings \subseteq Calls /\ Requests \cap Gradings = {}
  BY SubmissionAssumption DEF Calls
<1>1. CASE UNCHANGED vars
  BY <1>1 DEF vars, RowsOf
<1>2. ASSUME NEW c \in Calls, Moves(c) PROVE FirstInv'
  <2>1. \A q \in Requests : /\ pc[q] \in {"answered", "commit"} => pc'[q] = pc[q]
                            /\ pc'[q] = "commit" => pc[q] = "commit"
    BY <1>0, <1>2 DEF Moves, Goto
  <2>2. QED
    BY <1>2, <2>1 DEF Moves, Quiet, RowsOf
<1>3. ASSUME NEW r \in Requests, Fails(r) \/ Changes(r) PROVE FirstInv'
  BY <1>0, <1>3 DEF Fails, Changes, Stores, Ends, Goto, RowsOf
<1>4. ASSUME NEW r \in Requests, FindExisting(r) PROVE FirstInv'
  <2>1. /\ pc[r] = "find" /\ pc' = [pc EXCEPT ![r] = "commit"]
        /\ UNCHANGED <<who, rows>> /\ met \subseteq met'
    BY <1>4 DEF FindExisting, Goto, Keep, KeepTable
  <2>2. PICK row \in Requests : /\ IF RowsOf(who[r]) = {} THEN row = r ELSE row \in RowsOf(who[r])
                                /\ found' = [found EXCEPT ![r] = row]
    BY <1>4 DEF FindExisting, RowsOf
  <2>3. r \notin rows
    BY <2>1
  <2>4. QED
    BY <1>0, <2>1, <2>2, <2>3 DEF RowsOf
<1>5. ASSUME NEW r \in Requests, Inserts(r) PROVE FirstInv'
  <2>1. /\ pc[r] = "commit" /\ pc' = [pc EXCEPT ![r] = "answered"] /\ rows' = rows \cup {r}
        /\ UNCHANGED <<who, found, met>>
    BY <1>5 DEF Inserts, Stores, Ends, Goto
  <2>2. ASSUME NEW q \in Requests \ met, pc'[q] = "commit", found[q] = q
        PROVE  RowsOf(who[q])' = {}
    <3>1. q # r /\ pc[q] = "commit" /\ who[q] # who[r]
      BY <1>0, <2>1, <2>2 DEF MetInv
    <3>2. QED
      BY <2>1, <2>2, <3>1 DEF RowsOf
  <2>3. QED
    BY <1>0, <2>1, <2>2
<1>6. ASSUME NEW g \in Gradings, GradingStep(g) PROVE FirstInv'
  <2>1. /\ UNCHANGED <<who, rows, found>> /\ met \subseteq met'
        /\ \A q \in Requests : pc'[q] = pc[q]
    BY <1>0, <1>6 DEF GradingStep, Loads, Awards, Quiet, Goto
  <2>2. QED
    BY <2>1 DEF RowsOf
<1>7. QED
  BY <1>1, <1>2, <1>3, <1>4, <1>5, <1>6, StepCases DEF SubmissionStep

LEMMA MixedStep ==
    ASSUME TypeOK, RowInv, FirstInv, MixedOnlyIfMet, [Next]_vars
    PROVE  MixedOnlyIfMet'
<1> USE DEF TypeOK, MixedOnlyIfMet
<1>1. CASE UNCHANGED vars
  BY <1>1 DEF vars
<1>2. ASSUME NEW c \in Calls, Moves(c) PROVE MixedOnlyIfMet'
  BY <1>2 DEF Moves, Quiet
<1>3. ASSUME NEW r \in Requests, FindExisting(r) \/ Fails(r) PROVE MixedOnlyIfMet'
  <2>1. UNCHANGED <<grade, rows, source, marks, overruled>> /\ met \subseteq met'
    BY <1>3 DEF FindExisting, Fails, Ends, Keep, KeepTable
  <2>2. QED
    BY <2>1
<1>4. ASSUME NEW r \in Requests, Inserts(r) PROVE MixedOnlyIfMet'
  <2>1. r \notin rows /\ source[r] = r /\ marks[r] = grade[r]
    BY <1>4 DEF RowInv, FirstInv, Inserts, Stores, Ends
  <2>2. /\ rows' = rows \cup {r} /\ UNCHANGED <<grade, source, marks, met>>
        /\ overruled' = overruled \ {r}
    BY <1>4 DEF Inserts, Stores, Ends
  <2>3. QED
    BY <2>1, <2>2
<1>5. ASSUME NEW r \in Requests, Changes(r) PROVE MixedOnlyIfMet'
  <2>1. rows' = rows /\ grade' = grade /\ met' = met /\ overruled' = overruled \ {found[r]}
    BY <1>5 DEF Changes, Stores, Ends
  <2>2. QED
    BY <1>5, <2>1, ChangeFacts
<1>6. ASSUME NEW g \in Gradings, GradingStep(g) PROVE MixedOnlyIfMet'
  <2>1. /\ UNCHANGED <<grade, rows, source>> /\ met \subseteq met' /\ overruled \subseteq overruled'
        /\ \A row \in Requests : marks'[row] = marks[row] \/ row \in overruled'
    BY <1>6 DEF GradingStep, Loads, Awards, Award, Quiet
  <2>2. QED
    BY <2>1
<1>7. QED
  BY <1>1, <1>2, <1>3, <1>4, <1>5, <1>6, StepCases DEF SubmissionStep

\* All the rows of a student were in flight when the first of them was inserted.
LEMMA InsertStep ==
    ASSUME TypeOK, InsertInv, [Next]_vars
    PROVE  InsertInv'
<1> USE DEF TypeOK
<1> DEFINE All(s) == RowsOf(s) \cup Inserting(s)
<1>0. Requests \subseteq Calls /\ Gradings \subseteq Calls /\ Requests \cap Gradings = {}
  BY SubmissionAssumption DEF Calls
<1>1. IsFiniteSet(InFlight) /\ \A s : IsFiniteSet(All(s))
  <2>1. InFlight \subseteq Calls /\ \A s : All(s) \subseteq Requests
    BY DEF InFlight, RowsOf, Inserting
  <2>2. IsFiniteSet(Calls)
    BY SubmissionAssumption, FS_Union DEF Calls
  <2>3. QED
    BY <2>1, <2>2, SubmissionAssumption, FS_Subset
<1>2. Cardinality(InFlight') <= Workers
  <2>1. CASE \E c \in Calls : Receive(c) /\ Moves(c)
    <3>1. PICK c \in Calls : Receive(c) /\ Moves(c)
      BY <2>1
    <3>2. c \notin InFlight /\ InFlight' = InFlight \cup {c} /\ Cardinality(InFlight) < Workers
      BY <3>1 DEF Receive, Goto, InFlight
    <3>3. Cardinality(InFlight') = Cardinality(InFlight) + 1
      BY <1>1, <3>2, FS_AddElement
    <3>4. Cardinality(InFlight) \in Nat
      BY <1>1, FS_CardinalityType
    <3>5. QED
      BY <3>2, <3>3, <3>4, SubmissionAssumption
  <2>2. CASE ~\E c \in Calls : Receive(c) /\ Moves(c)
    <3>1. InFlight' \subseteq InFlight
      <4>1. ASSUME NEW c \in Calls, pc[c] # "new", Moves(c) PROVE InFlight' \subseteq InFlight
        BY <4>1 DEF Moves, Goto, InFlight
      <4>2. ASSUME NEW r \in Requests, SubmissionStep(r) PROVE InFlight' \subseteq InFlight
        BY <1>0, <4>2
        DEF SubmissionStep, FindExisting, Fails, Inserts, Changes, Stores, Ends, Goto, InFlight
      <4>3. ASSUME NEW g \in Gradings, GradingStep(g) PROVE InFlight' \subseteq InFlight
        BY <1>0, <4>3 DEF GradingStep, Loads, Awards, Goto, InFlight
      <4>4. QED
        BY <2>2, <4>1, <4>2, <4>3, StepCases DEF vars, InFlight
    <3>2. Cardinality(InFlight') <= Cardinality(InFlight)
      BY <1>1, <3>1, FS_Subset
    <3>3. Cardinality(InFlight) \in Nat /\ Cardinality(InFlight') \in Nat
      BY <1>1, <3>1, FS_CardinalityType, FS_Subset
    <3>4. QED
      BY <3>2, <3>3, SubmissionAssumption DEF InsertInv
  <2>3. QED
    BY <2>1, <2>2
<1>3. ASSUME NEW s \in Students, RowsOf(s)' # {} PROVE Cardinality(All(s)') <= Workers
  <2>1. \/ RowsOf(s) # {} /\ All(s)' \subseteq All(s)
        \/ All(s)' \subseteq InFlight
    <3>1. CASE UNCHANGED vars
      BY <1>3, <3>1 DEF vars, RowsOf, Inserting
    <3>2. ASSUME NEW c \in Calls, Moves(c)
          PROVE  RowsOf(s) # {} /\ All(s)' \subseteq All(s)
      <4>1. \A q \in Requests : pc'[q] = "commit" => pc[q] = "commit"
        BY <1>0, <3>2 DEF Moves, Goto
      <4>2. QED
        BY <1>3, <3>2, <4>1 DEF Moves, Quiet, RowsOf, Inserting
    <3>3. ASSUME NEW r \in Requests, Fails(r) \/ Changes(r)
          PROVE  RowsOf(s) # {} /\ All(s)' \subseteq All(s)
      BY <1>0, <1>3, <3>3 DEF Fails, Changes, Stores, Ends, Goto, RowsOf, Inserting
    <3>4. ASSUME NEW r \in Requests, FindExisting(r)
          PROVE  RowsOf(s) # {} /\ All(s)' \subseteq All(s)
      <4>1. RowsOf(s)' = RowsOf(s) /\ who' = who /\ pc' = [pc EXCEPT ![r] = "commit"]
        BY <3>4 DEF FindExisting, RowsOf, Keep, KeepTable, Goto
      <4>2. PICK row \in Requests : /\ RowsOf(who[r]) # {} => row \in RowsOf(who[r])
                                    /\ found' = [found EXCEPT ![r] = row]
        BY <3>4 DEF FindExisting, RowsOf
      <4>3. Inserting(s)' \subseteq Inserting(s) \cup RowsOf(s)
        BY <1>0, <1>3, <4>1, <4>2 DEF Inserting, RowsOf
      <4>4. QED
        BY <1>3, <4>1, <4>3
    <3>5. ASSUME NEW r \in Requests, Inserts(r)
          PROVE  \/ RowsOf(s) # {} /\ All(s)' \subseteq All(s)
                 \/ All(s)' \subseteq InFlight
      <4>1. All(s)' \subseteq All(s)
        BY <1>0, <3>5 DEF Inserts, Stores, Ends, Goto, RowsOf, Inserting
      <4>2. CASE RowsOf(s) = {}
        BY <1>0, <4>1, <4>2 DEF Inserting, InFlight
      <4>3. QED
        BY <4>1, <4>2
    <3>6. ASSUME NEW g \in Gradings, GradingStep(g)
          PROVE  RowsOf(s) # {} /\ All(s)' \subseteq All(s)
      <4>1. UNCHANGED <<who, rows, found>> /\ \A q \in Requests : pc'[q] = pc[q]
        BY <1>0, <3>6 DEF GradingStep, Loads, Awards, Quiet, Goto
      <4>2. QED
        BY <1>3, <4>1 DEF RowsOf, Inserting
    <3>7. QED
      BY <3>1, <3>2, <3>3, <3>4, <3>5, <3>6, StepCases DEF SubmissionStep
  <2>2. CASE RowsOf(s) # {} /\ All(s)' \subseteq All(s)
    <3>1. Cardinality(All(s)') <= Cardinality(All(s)) /\ IsFiniteSet(All(s)')
      BY <1>1, <2>2, FS_Subset
    <3>2. Cardinality(All(s)) <= Workers
      BY <2>2 DEF InsertInv
    <3>3. Cardinality(All(s)) \in Nat /\ Cardinality(All(s)') \in Nat
      BY <1>1, <3>1, FS_CardinalityType
    <3>4. QED
      BY <3>1, <3>2, <3>3, SubmissionAssumption
  <2>3. CASE All(s)' \subseteq InFlight
    <3>1. Cardinality(All(s)') <= Cardinality(InFlight) /\ IsFiniteSet(All(s)')
      BY <1>1, <2>3, FS_Subset
    <3>2. Cardinality(InFlight) \in Nat /\ Cardinality(All(s)') \in Nat
      BY <1>1, <3>1, FS_CardinalityType
    <3>3. QED
      BY <3>1, <3>2, SubmissionAssumption DEF InsertInv
  <2>4. QED
    BY <2>1, <2>2, <2>3
<1>4. QED
  BY <1>2, <1>3 DEF InsertInv

-----------------------------------------------------------------------------
(* The theorems *)

LEMMA InitHolds == Init => IInv
<1> SUFFICES ASSUME Init PROVE IInv
  OBVIOUS
<1>1. TypeOK
  BY DEF Init, TypeOK, Places
<1>2. MetInv /\ RowInv /\ FirstInv /\ MixedOnlyIfMet
  BY DEF Init, MetInv, RowInv, FirstInv, MixedOnlyIfMet, Changing, Calls
<1>3. InFlight = {} /\ \A s : RowsOf(s) = {}
  BY DEF Init, InFlight, RowsOf
<1>4. InsertInv
  BY <1>3, FS_EmptySet, SubmissionAssumption DEF InsertInv
<1>5. QED
  BY <1>1, <1>2, <1>4 DEF IInv

LEMMA Inductive == Spec => []IInv
<1>1. IInv /\ [Next]_vars => IInv'
  BY TypeStep, MetStep, RowStep, InsertStep, FirstStep, MixedStep DEF IInv
<1>2. QED
  BY <1>1, InitHolds, PTL DEF Spec

\* Every variable keeps its type.
THEOREM Typed == Spec => []TypeOK
<1>1. IInv => TypeOK
  BY DEF IInv
<1>2. QED
  BY <1>1, Inductive, PTL

\* A row whose marks are not its source's has those a teacher set after its source was
\* stored, or was changed by a submission that met another call for a row of the student,
\* for any number of calls, marks and threads.
THEOREM MixedNeedsOverlap == Spec => []MixedOnlyIfMet
<1>1. IInv => MixedOnlyIfMet
  BY DEF IInv
<1>2. QED
  BY <1>1, Inductive, PTL

\* A student's rows are no more than the threads that run endpoints, however often he
\* submits.
THEOREM RowsWithinThreads == Spec => []RowsBounded
<1>1. IInv => RowsBounded
  <2>1. SUFFICES ASSUME IInv, NEW s \in Students PROVE Cardinality(RowsOf(s)) <= Workers
    BY DEF RowsBounded
  <2>2. CASE RowsOf(s) = {}
    BY <2>2, FS_EmptySet, SubmissionAssumption
  <2>3. CASE RowsOf(s) # {}
    <3>1. RowsOf(s) \cup Inserting(s) \subseteq Requests
      BY <2>1 DEF IInv, TypeOK, RowsOf, Inserting
    <3>2. IsFiniteSet(RowsOf(s) \cup Inserting(s)) /\ IsFiniteSet(RowsOf(s))
      BY <3>1, SubmissionAssumption, FS_Subset
    <3>3. Cardinality(RowsOf(s)) <= Cardinality(RowsOf(s) \cup Inserting(s))
      BY <3>2, FS_Subset
    <3>4. Cardinality(RowsOf(s) \cup Inserting(s)) <= Workers
      BY <2>1, <2>3 DEF IInv, InsertInv
    <3>5. Cardinality(RowsOf(s)) \in Nat /\ Cardinality(RowsOf(s) \cup Inserting(s)) \in Nat
      BY <3>2, FS_CardinalityType
    <3>6. QED
      BY <3>3, <3>4, <3>5, SubmissionAssumption
  <2>4. QED
    BY <2>2, <2>3
<1>2. QED
  BY <1>1, Inductive, PTL

\* Query and write as one step: the first submission of a student inserts a row, every
\* later one overwrites the source and the marks of a row of his together.
SubmitAtOnce(r) ==
    \/ /\ RowsOf(who[r]) = {} /\ rows' = rows \cup {r} /\ UNCHANGED <<source, marks>>
       /\ source[r] = r /\ marks[r] = grade[r]
    \/ \E row \in RowsOf(who[r]) :
          /\ UNCHANGED rows
          /\ source' = [source EXCEPT ![row] = r]
          /\ marks' = [marks EXCEPT ![row] = grade[r]]

\* A submission that met no other call for a row of its student between its query and its
\* commit is answered as if both were one step, on any number of threads and whatever
\* the others do meanwhile: the separate statements of the endpoint, its partial UPDATE
\* and its INSERT are harmless to all but those that meet.
THEOREM LoneSubmissionsAreSerial ==
    Spec => [][\A r \in Requests \ met :
                  pc[r] = "commit" /\ pc'[r] = "answered" => SubmitAtOnce(r)]_vars
<1>1. ASSUME IInv, [Next]_vars, NEW r \in Requests \ met, pc[r] = "commit", pc'[r] = "answered"
      PROVE  SubmitAtOnce(r)
  <2> USE DEF IInv, TypeOK
  <2>0. Requests \subseteq Calls /\ Gradings \subseteq Calls /\ Requests \cap Gradings = {}
    BY SubmissionAssumption DEF Calls
  <2>1. Inserts(r) \/ Changes(r)
    <3>1. ASSUME NEW c \in Calls, Moves(c) PROVE FALSE
      BY <1>1, <2>0, <3>1 DEF Moves, Goto
    <3>2. ASSUME NEW q \in Requests, SubmissionStep(q) PROVE Inserts(r) \/ Changes(r)
      <4>1. q = r
        BY <1>1, <2>0, <3>2
        DEF SubmissionStep, FindExisting, Fails, Inserts, Changes, Stores, Ends, Goto
      <4>2. QED
        BY <1>1, <2>0, <3>2, <4>1 DEF SubmissionStep, FindExisting, Fails, Ends, Goto
    <3>3. ASSUME NEW g \in Gradings, GradingStep(g) PROVE FALSE
      BY <1>1, <2>0, <3>3 DEF GradingStep, Loads, Awards, Goto
    <3>4. QED
      BY <1>1, <3>1, <3>2, <3>3, StepCases DEF vars
  <2>2. CASE Inserts(r)
    <3>1. RowsOf(who[r]) = {}
      BY <1>1, <2>2 DEF Inserts, Stores, Ends, FirstInv
    <3>2. r \notin rows
      BY <1>1 DEF FirstInv
    <3>3. QED
      BY <1>1, <2>2, <3>1, <3>2 DEF Inserts, RowInv, SubmitAtOnce
  <2>3. CASE Changes(r)
    <3>1. Changing(r)
      BY <1>1, <2>3 DEF Changes, Changing
    <3>2. /\ found[r] \in RowsOf(who[r])
          /\ loaded[r].source # r /\ loaded[r].marks = marks[found[r]]
      BY <1>1, <3>1 DEF RowInv, RowsOf
    <3>3. source' = [source EXCEPT ![found[r]] = r] /\ marks' = [marks EXCEPT ![found[r]] = grade[r]]
      BY <1>1, <2>3, <3>2 DEF Changes, Update
    <3>4. QED
      BY <2>3, <3>2, <3>3 DEF Changes, SubmitAtOnce
  <2>4. QED
    BY <2>1, <2>2, <2>3
<1>2. IInv /\ [Next]_vars
         => [\A r \in Requests \ met :
                pc[r] = "commit" /\ pc'[r] = "answered" => SubmitAtOnce(r)]_vars
  BY <1>1
<1>3. QED
  BY <1>2, Inductive, PTL DEF Spec
=============================================================================
