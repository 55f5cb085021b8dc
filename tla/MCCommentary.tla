---------------------------- MODULE MCCommentary ----------------------------
(* Instances of Commentary for TLC.                                        *)
EXTENDS Commentary

Note(visibility, key) == [visibility |-> visibility, key |-> key]

\* The forms that are revealed sooner or later, or stand in the way of others.
ReadableForms == {Note("delayed", "good"), Note("delayed", "garbled"),
                  Note("sealed", "good")}
=============================================================================
