------------------------------- MODULE Paths -------------------------------
(* Paths, mounts and the search for a file: src/fs/path.cpp, find_mount()  *)
(* of src/fs/fs.cpp, ControlBlock::findINode and File::open, and the names *)
(* that src/dev/name.cpp gives to the devices of devfs.  A path is a       *)
(* sequence of characters, "/" among them; the state is one path, base     *)
(* directory and list of devices, each grown step by step.                 *)
EXTENDS Integers, Sequences, SequencesExt, FiniteSetsExt

CONSTANTS PathChars,     \* characters of names, "." among them
          PathLimit,     \* bound on the length of the paths tried
          BufferLen,     \* buffer_len of canonize_path()
          MaxFilename,   \* MAX_FILENAME_LEN
          Bases,         \* working directories
          MountPath,     \* where devfs is mounted, ending in "/"
          RootTree,      \* names of the root file system: paths of names |-> kind
          NameLimit      \* bound on the number of devices

VARIABLES ptPath, ptBase, ptNames, ptLetters

ptVars == <<ptPath, ptBase, ptNames, ptLetters>>

SkipSlashes(p, i) == Min({j \in i .. Len(p) + 1 : j > Len(p) \/ p[j] # "/"})
PieceEnd(p, i)    == Min({j \in i .. Len(p) + 1 : j > Len(p) \/ p[j] = "/"})
EndsWithSlash(p)  == p[Len(p)] = "/"

\* The pieces Walker::next() returns; a piece that is too long ends the walk.
RECURSIVE PiecesFrom(_, _)
PiecesFrom(p, i) ==
    LET s == SkipSlashes(p, i)
        e == PieceEnd(p, s)
    IN  IF i > Len(p) \/ e = s \/ e - s > MaxFilename - 1 THEN <<>>
        ELSE <<SubSeq(p, s, e - 1)>> \o PiecesFrom(p, e)
Pieces(p) == PiecesFrom(p, 1)

\* count_levels().
RECURSIVE LevelsFrom(_, _)
LevelsFrom(p, i) ==
    IF i > Len(p) THEN 0 ELSE 1 + LevelsFrom(p, SkipSlashes(p, PieceEnd(p, i)))
CountLevels(p) == LevelsFrom(p, SkipSlashes(p, 1))

\* is_valid(): chars_this_piece is never reset, so all names together must fit.
IsValid(p) ==
    /\ Len(p) > 0 /\ p[1] = "/"
    /\ Len(SelectSeq(p, LAMBDA c : c # "/")) <= MaxFilename - 1

----------------------------------------------------------------------------
(* canonize_path(path, base_path, buffer).  buf is the string in the       *)
(* buffer and at the index up to which it counts.                          *)

Failed == [ok |-> FALSE, buf |-> <<>>, at |-> 0]

\* "..": back to the last slash, which becomes the end; at the root the buffer
\* stays as it is.
Back(b) ==
    LET k == Max({0} \cup {j \in 1 .. b.at : j < Len(b.buf) /\ b.buf[j + 1] = "/"})
    IN  [b EXCEPT !.at = k, !.buf = IF k = 0 THEN @ ELSE SubSeq(@, 1, k)]

\* Mutant: the piece is appended to what an earlier ".." left.
PutPieceAfter(b, piece) ==
    [b EXCEPT !.buf = @ \o <<"/">> \o piece, !.at = Len(b.buf) + 1 + Len(piece)]
PutPiece(b, piece) ==
    IF b.at + Len(piece) >= BufferLen - 1 THEN Failed
    ELSE [b EXCEPT !.buf = SubSeq(@, 1, b.at) \o <<"/">> \o piece,
                   !.at = @ + 1 + Len(piece)]

CanonizeStep(b, piece) ==
    IF ~b.ok \/ piece = <<".">> THEN b
    ELSE IF piece = <<".", ".">> THEN Back(b)
    ELSE PutPiece(b, piece)

StartOf(path, base) ==
    IF base = <<>> \/ path[1] = "/" THEN [ok |-> TRUE, buf |-> <<"/">>, at |-> 0]
    ELSE IF Len(base) > BufferLen - 1 THEN Failed
    ELSE [ok |-> TRUE, buf |-> base,
          at |-> IF EndsWithSlash(base) THEN Len(base) - 1 ELSE Len(base)]

Canonize(path, base) ==
    LET b == FoldLeft(CanonizeStep, StartOf(path, base), Pieces(path))
    IN  IF ~b.ok \/ ~EndsWithSlash(path) THEN b
        ELSE IF b.at >= BufferLen - 1 THEN Failed
        ELSE [b EXCEPT !.buf = SubSeq(@, 1, b.at) \o <<"/">>]

----------------------------------------------------------------------------
(* The search.                                                             *)

\* find_mount(): a mount fits when the path starts with its path without the
\* last slash, and the longest that fits is taken.
Fits(p, mount) ==
    LET n == Len(mount) - 1
    IN  Len(p) - (IF EndsWithSlash(p) THEN 1 ELSE 0) >= n /\ SubSeq(p, 1, n) = SubSeq(mount, 1, n)
FindMount(p) == IF Fits(p, MountPath) THEN Len(MountPath) - 1 ELSE 0

\* A tree: the kind of every name, a name being its path of pieces.
DevTree == [n \in {<<>>} \cup {<<ptNames[i]>> : i \in DOMAIN ptNames} |->
               IF n = <<>> THEN "dir" ELSE "device"]

\* findINode(): a piece that is not the last one must be a directory.
FindINode(tree, p) ==
    LET names == Pieces(p)
        final(i) == i = CountLevels(p)
        Found(i) == SubSeq(names, 1, i) \in DOMAIN tree
                    /\ (final(i) \/ tree[SubSeq(names, 1, i)] = "dir")
    IN  IF \A i \in 1 .. Len(names) : Found(i) THEN tree[names] ELSE "ENOENT"

\* File::open() and File::info() up to the inode.
Lookup(p) ==
    IF ~IsValid(p) THEN "EINVAL"
    ELSE LET n    == FindMount(p)
             rest == SubSeq(p, n + 1, Len(p))
         IN  FindINode(IF n > 0 THEN DevTree ELSE RootTree,
                       IF rest = <<>> THEN <<"/">> ELSE rest)

----------------------------------------------------------------------------
(* name_letter_increment(): the letters of the next device of a pattern.   *)

NextLetter(c) == IF c = "a" THEN "b" ELSE "a"

Increment(s) ==
    LET carried == Min({i \in 1 .. Len(s) + 1 : i > Len(s) \/ s[i] # "b"})
        kept    == [i \in 1 .. Len(s) |-> IF i < carried THEN "a"
                                          ELSE IF i = carried THEN NextLetter(s[i]) ELSE s[i]]
    IN  IF carried > Len(s) THEN Append(kept, "a") ELSE kept

----------------------------------------------------------------------------

PtInit == ptPath = <<>> /\ ptBase \in Bases /\ ptNames = <<>> /\ ptLetters = <<"a">>

\* One more character of the path that a caller gives.
AskPath(c) ==
    /\ Len(ptPath) < PathLimit
    /\ ptPath' = Append(ptPath, c)
    /\ UNCHANGED <<ptBase, ptNames, ptLetters>>

\* One more device gets its name and its entry in devfs.
NameDevice ==
    /\ ptPath = <<>> /\ Len(ptNames) < NameLimit
    /\ ptNames' = Append(ptNames, ptLetters)
    /\ ptLetters' = Increment(ptLetters)
    /\ UNCHANGED <<ptPath, ptBase>>

PtNext == NameDevice \/ \E c \in PathChars \cup {"/"} : AskPath(c)

----------------------------------------------------------------------------
(* Properties.                                                             *)

\* Where a list of pieces leads from a directory given by its pieces.
Follow(d, piece) ==
    IF piece = <<".">> THEN d
    ELSE IF piece = <<".", ".">> THEN (IF d = <<>> THEN d ELSE Front(d))
    ELSE Append(d, piece)

\* canonize_path() leads where the path leads from the working directory, ".."
\* and "." taken out, with two exceptions of the code: a ".." that reaches the
\* root as the last thing leaves the name it should take away, and a ".." as
\* the first thing takes nothing from a base that ends in "/"
\* (path.cpp:117-182).
CanonizeResolves ==
    (ptPath # <<>> /\ Canonize(ptPath, ptBase).ok) =>
        LET b     == Canonize(ptPath, ptBase)
            start == IF ptPath[1] = "/" THEN <<>> ELSE Pieces(ptBase)
            goal  == FoldLeft(Follow, start, Pieces(ptPath))
            moves == SelectSeq(Pieces(ptPath), LAMBDA x : x # <<".">>)
            slashBase == /\ ptPath[1] # "/" /\ ptBase # <<>> /\ EndsWithSlash(ptBase)
                         /\ moves # <<>> /\ moves[1] = <<".", ".">>
        IN  \/ Pieces(b.buf) = goal
            \/ goal = <<>> /\ b.at = 0
            \/ slashBase

\* The levels a path is said to have are the pieces a walk of it returns, so
\* that isFinal() is true on the last one and on no other, for every path that
\* is_valid() lets through (path.cpp:11-57 and 87-115, 184-202).
LevelsArePieces ==
    IsValid(ptPath) => CountLevels(ptPath) = Len(Pieces(ptPath))

\* An absolute path without double slashes whose first name does not begin
\* with the name of the mount point is found exactly when the trees have it,
\* below the mount point in devfs and elsewhere in the root (fs.cpp:53-92,
\* controlblock.cpp:15-62, file.cpp:24-56); devices named earlier stay
\* reachable when more are named, because no two get the same name
\* (dev/name.cpp:13-51).
LookupReaches ==
    LET names == Pieces(ptPath)
        point == SubSeq(MountPath, 2, Len(MountPath) - 1)
        tree(n) == IF n # <<>> /\ n[1] = point
                   THEN IF Tail(n) \in DOMAIN DevTree THEN DevTree[Tail(n)] ELSE "ENOENT"
                   ELSE IF n \in DOMAIN RootTree THEN RootTree[n] ELSE "ENOENT"
    IN  (/\ IsValid(ptPath)
         /\ \A i \in 1 .. Len(ptPath) - 1 : ~(ptPath[i] = "/" /\ ptPath[i + 1] = "/")
         /\ names # <<>> /\ IsPrefix(point, names[1]) => names[1] = point)
        => Lookup(ptPath) = tree(names)

\* A path leads to the file its names spell, through canonize_path(), the
\* walk and the mounts.
PathsResolve == CanonizeResolves /\ LevelsArePieces /\ LookupReaches
=============================================================================
