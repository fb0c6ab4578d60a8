---------------------------- MODULE MCMemoryHub ----------------------------
(***************************************************************************)
(* Instances of MemoryHub for TLC.                                         *)
(***************************************************************************)
EXTENDS MemoryHub, TLC

\* Files: "a" and "b" in the source directory, and an "a" in its subdirectory.
a    == [dir |-> "root", base |-> "a"]
b    == [dir |-> "root", base |-> "b"]
subA == [dir |-> "sub", base |-> "a"]

OneFile   == {a}
TwoFiles  == {a, b}
SubFile   == {subA}

\* Position 1 is a heading, position 2 a node below it.
HeadingAndChild == {1, 2}
ParentOfChild == 1 :> NoPos @@ 2 :> 1
HeadingOnly == {1}
ParentOfHeading == 1 :> NoPos

\* Parsed files.
One(x) == 1 :> x
Two(x, y) == 1 :> x @@ 2 :> y

NoNodes == [q \in {} |-> NoContent]

FlatDocs == {One(x) : x \in Contents}
RescanDocs == FlatDocs \cup {NoNodes}
TreeDocs == {One("x"), Two("x", "x"), Two("x", "y")}
GrowingDocs == {NoNodes, One("x"), Two("x", "x")}

\* Any edit of any file; or one file that is broken and mended, and a second that is
\* emptied, deleted and written anew.
AllEdits == Files \X (Docs \cup {Bad, Absent})
RescanEdits ==
    ({a} \X {One("x"), Bad}) \cup ({b} \X {One("x"), NoNodes, Absent})

SoundEdits == Files \X (Docs \cup {Absent})

OldCopy == {<<b, One("y")>>}

IdsOf(f) == {<<Rel(RootDir, f), q>> : q \in Positions}
AnchorsOfA == IdsOf(a)
ChildOfA == {<<Rel(RootDir, a), 2>>}
ChildOfSubA == {<<Rel(RootDir, subA), 2>>}
HeadOfA == {<<Rel(RootDir, a), 1>>}
RootDirs == {RootDir}
AllDirs == Dirs
ServerSymmetry == Permutations(Procs)
=============================================================================
