---------------------------- MODULE IgnoreRules ----------------------------
(***************************************************************************)
(* .remindb.ignore and the directory walk of CompileDir and of the rescan  *)
(* loop, which leaves out what the rules match and does not enter a        *)
(* directory they match.                                                   *)
(*                                                                         *)
(* A path is a sequence of names; a glob segment is the set of names       *)
(* path.Match accepts for it.                                              *)
(***************************************************************************)
EXTENDS Naturals, Sequences, FiniteSets

CONSTANTS
    Names,            \* names of files and directories
    Directories,      \* paths of the directories below the source directory
    Documents,        \* paths of the files
    SkippedNames,     \* directory names ShouldSkipDir rejects
    Unsupported,      \* file names whose extension no parser supports
    Globs,            \* glob segments the rules are made of, AnyDepth among them
    MaxSegments,      \* bound: segments of a rule
    MaxRules          \* bound: rules of the ignore file

AnyDepth == {"**"}
SourceDir == << >>
Parent(path) == SubSeq(path, 1, Len(path) - 1)

ASSUME IgnoreAssumption ==
    /\ MaxSegments \in Nat /\ MaxRules \in Nat
    /\ Directories \cup Documents \subseteq Seq(Names) \ {SourceDir}
    /\ \A p \in Directories \cup Documents : Parent(p) \in Directories \cup {SourceDir}

VARIABLE rules        \* the lines of .remindb.ignore

\* A line: "!", "/", the segments, "/".
Lines == [negated : BOOLEAN, slash : BOOLEAN, dirOnly : BOOLEAN,
          segments : UNION {[1..n -> Globs] : n \in 1..MaxSegments}]

IgnoreInit == rules = << >>

AddRule(line) ==
    /\ Len(rules) < MaxRules
    /\ line.slash => Len(line.segments) = 1
    /\ rules' = Append(rules, line)

IgnoreNext == \E line \in Lines : AddRule(line)

IgnoreSpec == IgnoreInit /\ [][IgnoreNext]_rules

-----------------------------------------------------------------------------
\* "**" alone is a glob that matches any name.
MatchSegment(glob, name) == glob = AnyDepth \/ name \in glob

\* Faulty: "**" stands for one name or more.
SkipNamesDeeper(p, ends) == \E q \in ends : p < q

\* "**" goes on from any later place of the path, or from the same.
SkipNames(p, ends) == \E q \in ends : p <= q

\* matchPath: from[i] has the places in the path from where the segments after the i-th
\* match the rest of it.
MatchPath(segments, path) ==
    LET from[i \in 0..Len(segments)] ==
            IF i = Len(segments) THEN {Len(path)}
            ELSE {p \in 0..Len(path) :
                    IF segments[i + 1] = AnyDepth THEN SkipNames(p, from[i + 1])
                    ELSE /\ p < Len(path)
                         /\ MatchSegment(segments[i + 1], path[p + 1])
                         /\ p + 1 \in from[i + 1]}
    IN  0 \in from[0]

\* parsePattern: a slash before the end anchors a pattern to the source directory.
Anchored(line) == line.slash \/ Len(line.segments) > 1

MatchPattern(line, path) ==
    IF Anchored(line) THEN MatchPath(line.segments, path)
                      ELSE MatchSegment(line.segments[1], path[Len(path)])

\* Match: the rules in order, each match overruling the ones before.
Match(path, isDir) ==
    LET ignored[i \in 0..Len(rules)] ==
            IF i = 0 THEN FALSE
            ELSE IF (rules[i].dirOnly => isDir) /\ MatchPattern(rules[i], path)
            THEN ~rules[i].negated ELSE ignored[i - 1]
    IN  ignored[Len(rules)]

\* filepath.WalkDir goes into a directory unless the visitor of CompileDir or of scan
\* answers SkipDir, there or above.
Entered ==
    LET entered[d \in Directories \cup {SourceDir}] ==
            \/ d = SourceDir
            \/ /\ entered[Parent(d)]
               /\ d[Len(d)] \notin SkippedNames
               /\ ~Match(d, TRUE)
    IN  entered

\* The files the visitor keeps.
Walk == {f \in Documents : /\ Entered[Parent(f)]
                           /\ f[Len(f)] \notin Unsupported
                           /\ ~Match(f, FALSE)}

-----------------------------------------------------------------------------
\* A pattern matches a path when the path can be cut into one piece per segment: a
\* single name that the glob accepts, or any number of names for "**".
Covers(segments, path) ==
    \E cut \in [0..Len(segments) -> 0..Len(path)] :
        /\ cut[0] = 0 /\ cut[Len(segments)] = Len(path)
        /\ \A i \in 1..Len(segments) :
               IF segments[i] = AnyDepth THEN cut[i - 1] <= cut[i]
               ELSE cut[i] = cut[i - 1] + 1 /\ path[cut[i]] \in segments[i]

\* What a rule says of a path; one segment without a slash matches at any depth.
Says(line, path, isDir) ==
    /\ line.dirOnly => isDir
    /\ Covers(IF line.slash \/ Len(line.segments) > 1 THEN line.segments
              ELSE <<AnyDepth, line.segments[1]>>, path)

\* Rule i excludes a path: it says so, and no later rule says anything of that path.
ExcludedByRule(i, path, isDir) ==
    /\ Says(rules[i], path, isDir) /\ ~rules[i].negated
    /\ \A j \in (i + 1)..Len(rules) : ~Says(rules[j], path, isDir)

\* The last rule that says anything decides.
Excluded(path, isDir) == \E i \in 1..Len(rules) : ExcludedByRule(i, path, isDir)

\* The directories a file is in, below the source directory.
DirectoriesOf(f) == {SubSeq(f, 1, i) : i \in 1..(Len(f) - 1)}
Skipped(d) == d[Len(d)] \in SkippedNames

\* What no rule and no directory name keeps from the walk is found.
KeepsWhatIsLeft ==
    \A f \in Documents :
        /\ f[Len(f)] \notin Unsupported
        /\ ~Excluded(f, FALSE)
        /\ \A d \in DirectoriesOf(f) : ~Skipped(d) /\ ~Excluded(d, TRUE)
        => f \in Walk

\* Unsupported and excluded files are not found, nor what is in a skipped directory.
LeavesOutFiles ==
    \A f \in Walk :
        /\ f[Len(f)] \notin Unsupported
        /\ ~Excluded(f, FALSE)
        /\ \A d \in DirectoriesOf(f) : ~Skipped(d)

\* Nor is a file in an excluded directory that no later negated rule brings back.
LeavesOutDirectories ==
    \A f \in Documents, i \in 1..Len(rules) :
        /\ \E d \in DirectoriesOf(f) : ExcludedByRule(i, d, TRUE)
        /\ \A j \in (i + 1)..Len(rules) : rules[j].negated => ~Says(rules[j], f, FALSE)
        => f \notin Walk

\* CompileDir and scan find the supported files that the last matching rule leaves, in
\* directories that are neither skipped nor excluded, and no others; of a file that a
\* negated rule is to bring back from an excluded directory ReincludedFilesAreWalked
\* speaks.
WalkFollowsTheRules == KeepsWhatIsLeft /\ LeavesOutFiles /\ LeavesOutDirectories

\* README.md:469-471 shows "**/cache/**  # nested cache trees" and, below it,
\* "!cache/keep.md  # re-include one file (last-match-wins)": with these two rules for a
\* directory and a file in it, the walk finds the file.  It does not: "**/cache/**" also
\* matches the directory, which the walk then never enters.
Line(negated, segments) ==
    [negated |-> negated, slash |-> FALSE, dirOnly |-> FALSE, segments |-> segments]

ReincludedFilesAreWalked ==
    \A f \in Documents :
        /\ Len(f) = 2 /\ f[1] \notin SkippedNames /\ f[2] \notin Unsupported
        /\ rules = <<Line(FALSE, <<AnyDepth, {f[1]}, AnyDepth>>),
                     Line(TRUE, <<{f[1]}, {f[2]}>>)>>
        => f \in Walk

=============================================================================
