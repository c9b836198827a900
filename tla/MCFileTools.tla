------------------------------ MODULE MCFileTools ------------------------------
(* FileTools on one directory with a link that stays inside and one that leaves. *)
EXTENDS FileTools, TLC

CONSTANTS c1, c2, c3
ThreeCalls == {c1, c2, c3}
CallSymmetry == Permutations(Calls)

Root == <<"srv", "files">>
Rel(parts) == [abs |-> FALSE, parts |-> parts]

\* A new file by its name and by a detour, one behind the inner link, the same
\* behind the outer link, a climb after that link, and the directory itself.
SomePaths == {Rel(<<"new">>), Rel(<<"..", "files", "new">>), Rel(<<"in", "old">>),
              Rel(<<"out", "old">>), Rel(<<"out", "..", "new">>), Rel(<< >>),
              [abs |-> TRUE, parts |-> <<"srv", "files", "sub", "old">>]}
TwoLinks == (Root \o <<"in">>) :> (Root \o <<"sub">>) @@ (Root \o <<"out">>) :> <<"etc">>
SomeDirectories == {Root, Root \o <<"sub">>, <<"etc">>}
OldFiles == {Root \o <<"sub", "old">>, <<"etc", "old">>}
================================================================================
