---------------------------- MODULE MCTypedRecords ----------------------------
(***************************************************************************)
(* Small instances of TypedRecords: a college written in two ways, and     *)
(* a degree whose name is a level.                                         *)
(***************************************************************************)
EXTENDS TypedRecords

Blank == [id |-> 0, inst |-> "", degree |-> "", major |-> "", gpa |-> 0, year |-> 0,
          scale |-> 0, level |-> "", verified |-> FALSE, correction |-> FALSE]

Transcript == [Blank EXCEPT !.inst = "Punjab", !.degree = "FSc", !.gpa = 80, !.year = 2020,
                            !.level = "higher_secondary", !.verified = TRUE]
Degree     == [Blank EXCEPT !.inst = "Punjab", !.degree = "MSc", !.year = 2021,
                            !.level = "master", !.verified = TRUE]
Again      == [Blank EXCEPT !.inst = "Punjab Lahore", !.year = 2018, !.level = "higher_secondary"]
Remark     == [Blank EXCEPT !.inst = "Punjab Lahore", !.degree = "FSc", !.gpa = 70, !.year = 2020]
Correction == [Blank EXCEPT !.inst = "Punjab", !.gpa = 75, !.correction = TRUE]
Bare       == [Blank EXCEPT !.gpa = 70, !.scale = 4]
Native     == [Blank EXCEPT !.degree = "bachelor", !.major = "CS"]

SomeObservations == {Transcript, Degree, Again, Remark, Correction, Bare, Native}
Typed      == [Blank EXCEPT !.inst = "Punjab", !.degree = "bachelor", !.major = "CS"]
Corrected  == [Blank EXCEPT !.year = 2019, !.gpa = 60]
SomeForms  == {Typed, Corrected}

SomeTests  == {[date |-> 0, score |-> 7], [date |-> 1, score |-> 7], [date |-> 2, score |-> 7]}
SomeSkills == {[name |-> "python", level |-> "expert"]}

Names      == {"Punjab", "Punjab Lahore", "FSc", "MSc", "bachelor", "CS", ""}
Words      == [p \in Names \X Names |->
                 IF p[1] = "" \/ p[2] = "" THEN 0
                 ELSE IF p[1] = p[2] \/ {p[1], p[2]} = {"Punjab", "Punjab Lahore"} THEN 100 ELSE 0]
Levels     == [d \in Names |-> IF d = "bachelor" THEN d ELSE ""]
=============================================================================
