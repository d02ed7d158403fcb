---------------------------- MODULE MCSubmissions ----------------------------
(* Instance of Submissions, and a statement about it that does not hold. *)
EXTENDS Submissions

\* orm_models.py:137, SubmissionORM, "Stores latest attempt and auto-grader result.": the
\* marks of a row are those of the source it stores, unless the teacher overrode them.
GradeOfSource == \A row \in rows : marks[row] = grade[source[row]] \/ row \in overruled
=============================================================================
