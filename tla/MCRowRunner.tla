---------------------------- MODULE MCRowRunner ----------------------------
(* Small instances of RowRunner: two corpora, the first with three tasks. *)
EXTENDS RowRunner

CONSTANTS r1, r2, r3, r4

OneCorpus == <<<<r1, r2, r3>>>>
TwoCorpora == <<<<r1, r2, r3>>, <<r4>>>>
OneOrTwo == {1, 2}
Two == {2}
StopOrNot == {1, None}
NeverStop == {None}
MayOverride == BOOLEAN
Never == {FALSE}

=============================================================================
