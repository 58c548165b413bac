------------------------------- MODULE PathText -------------------------------
(***************************************************************************)
(* Paths as text (state/paths.py): a read tracker records a path of keys   *)
(* as one dotted text (state/read_tracking.py), and the audit splits that  *)
(* text again to judge it (state/observed_access.py).  The keys of a state *)
(* are whatever the graph puts there; a key is the sequence of its         *)
(* characters.                                                             *)
(***************************************************************************)
EXTENDS Integers, Sequences, SequencesExt, FiniteSetsExt

CONSTANTS KeyText,      \* keys, as sequences of characters
          MaxPathLength \* bound on the number of keys of a path

Dot == "."
Blank == " "

\* join_path.
JoinPath(path) == Tail(FlattenSeq([i \in DOMAIN path |-> <<Dot>> \o path[i]]))

\* Mutant: the parts are taken as they are.
KeepOuterBlanks(text) == text

\* str.strip.
Strip(text) ==
    LET kept == {i \in DOMAIN text : text[i] # Blank}
    IN  IF kept = {} THEN <<>> ELSE SubSeq(text, Min(kept), Max(kept))

\* str.split at the dots, and strip of each part.
Parts(text) ==
    LET split == FoldLeft(LAMBDA parts, c :
                     IF c = Dot THEN Append(parts, <<>>)
                     ELSE [parts EXCEPT ![Len(parts)] = Append(@, c)],
                 << <<>> >>, text)
    IN  [i \in DOMAIN split |-> Strip(split[i])]

\* split_path: the path, or ValueError when a part is blank.
SplitPath(text) ==
    [raised |-> <<>> \in Range(Parts(text)), path |-> Parts(text)]

-------------------------------------------------------------------------------

VARIABLES readPath,  \* the path of keys that a node looked up
          judged     \* what undeclared_read_paths takes it for, in the end

pathVars == <<readPath, judged>>

NotJudged == [raised |-> FALSE, path |-> <<>>]

NoRead == readPath = <<>> /\ judged = NotJudged

PathInit ==
    /\ readPath \in UNION {[1..n -> KeyText] : n \in 1..MaxPathLength}
    /\ judged = NotJudged

\* ObservedStatePaths normalizes the recorded text, and undeclared_for splits it.
Judge ==
    /\ readPath # <<>> /\ judged = NotJudged
    /\ judged' = LET first == SplitPath(JoinPath(readPath))
                 IN  IF first.raised THEN first ELSE SplitPath(JoinPath(first.path))
    /\ UNCHANGED readPath

-------------------------------------------------------------------------------
(* Properties.                                                             *)

\* A key whose text survives: no dot, not blank, no blank at its ends.
IsPlain(key) ==
    key # <<>> /\ Dot \notin Range(key) /\ key[1] # Blank /\ key[Len(key)] # Blank

\* A read is judged as a read of its own path exactly when all its keys are plain.
\* With any other key it is judged as a read of another path, which may be declared
\* when it is not, or the audit raises ValueError; it raises in no other case, and
\* splitting twice is the same as splitting once.
OnlyPlainKeysAreJudgedAsRead ==
    judged # NotJudged =>
        /\ (~judged.raised /\ judged.path = readPath) <=> \A i \in DOMAIN readPath : IsPlain(readPath[i])
        /\ judged.raised <=> <<>> \in Range(Parts(JoinPath(readPath)))
        /\ ~judged.raised => \A i \in DOMAIN judged.path : IsPlain(judged.path[i])
===============================================================================
