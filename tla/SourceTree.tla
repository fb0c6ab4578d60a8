----------------------------- MODULE SourceTree -----------------------------
(***************************************************************************)
(* The source directory as the compiler sees it: which files it holds,     *)
(* what a file parses to, and which node identities the transformer gives  *)
(* the parsed nodes.  A constant-level module: the files' current contents *)
(* are state of MemoryHub.                                                 *)
(*                                                                         *)
(* A parsed file (a "doc") is a function from the positions of its nodes   *)
(* in the heading tree to their contents.  A content stands for the text   *)
(* of a node and for its content_hash: the 64-bit hash is taken to be      *)
(* injective.                                                              *)
(***************************************************************************)
EXTENDS Naturals

CONSTANTS
    Files,       \* records [dir, base]: the files an instance may hold
    Positions,   \* positions of nodes in a parsed file
    ParentPos,   \* position of the enclosing heading, or NoPos
    NoPos,
    Contents,    \* node contents, also the payloads of MemoryWrite
    Docs,        \* what a file may parse to
    Bad,         \* a file the parser rejects
    Absent,      \* a file that does not exist
    NoNode,      \* NULL in nodes.parent_id
    NoRow        \* no row of table nodes

RootDir == "root"
Dirs == {RootDir} \cup {f.dir : f \in Files}

\* One level of subdirectories: every dir other than RootDir lies in RootDir.
Under(root) == {f \in Files : root = RootDir \/ f.dir = root}

\* filepath.Rel(compileRoot, path): the source_file a compile records.
Rel(root, f) == IF root = f.dir THEN <<f.base>> ELSE <<f.dir, f.base>>

WriteSource == <<"mcp:write">>

FileSources == {Rel(RootDir, f) : f \in Files} \cup {Rel(f.dir, f) : f \in Files}
Sources == FileSources \cup {WriteSource}

\* contentid.Identify: a parsed node's id is a hash of its source_file, its
\* parent's id and its index among its siblings, that is of <<source, position>>.
\* contentid.IdentifyPayload: a note written without an anchor is identified by
\* its payload.
NodeIds == (FileSources \X Positions) \cup ({WriteSource} \X Contents)

Rows == [parent : NodeIds \cup {NoNode}, source : Sources, content : Contents]
Tables == [NodeIds -> Rows \cup {NoRow}]
EmptyTable == [n \in NodeIds |-> NoRow]
Live(table) == {n \in NodeIds : table[n] # NoRow}

DocPositions(S) == \A q \in S : ParentPos[q] # NoPos => ParentPos[q] \in S

ASSUME SourceTreeAssumption ==
    /\ \A f \in Files : f = [dir |-> f.dir, base |-> f.base]
    /\ ParentPos \in [Positions -> Positions \cup {NoPos}]
    /\ NoPos \notin Positions
    /\ NoNode \notin NodeIds
    /\ NoRow \notin Rows
    /\ WriteSource \notin FileSources   \* a source file has the extension of a parser
    /\ \A d \in Docs : /\ DOMAIN d \subseteq Positions
                       /\ DocPositions(DOMAIN d)
                       /\ \A q \in DOMAIN d : d[q] \in Contents
    /\ Bad \notin Docs /\ Absent \notin Docs /\ Bad # Absent

\* The rows parsing and transformer.Transform make of the files fs of a compile
\* rooted at root, as a table: flat[n] is the node with id n.
Flatten(root, fs, docs) ==
    [n \in NodeIds |->
        IF \E f \in fs : n[1] = Rel(root, f) /\ n[2] \in DOMAIN docs[f]
        THEN LET f == CHOOSE f \in fs :
                          n[1] = Rel(root, f) /\ n[2] \in DOMAIN docs[f]
             IN  [parent  |-> IF ParentPos[n[2]] = NoPos THEN NoNode
                              ELSE <<n[1], ParentPos[n[2]]>>,
                  source  |-> n[1],
                  content |-> docs[f][n[2]]]
        ELSE NoRow]

=============================================================================
