--------------------------------- MODULE Glob ---------------------------------
(***************************************************************************)
(* The expansion of a word (glob.c): a tilde by %home, and wildcards by    *)
(* the names of files, one directory after the other; and the quote flags  *)
(* that the word is put together with (qcat of glom.c).                    *)
(*                                                                         *)
(* A component of a word is matched in a static buffer, whose flags end    *)
(* without a NUL: what is read after them is whatever was there before.    *)
(***************************************************************************)
EXTENDS PatternsView, FiniteSets

CONSTANTS
  RawGlob, QuotedGlob, \* the characters words are made of
  MaxGlob,             \* bound on their number
  Tree,                \* the directories: what each has by which name
  Root, Cwd,
  NoFile,              \* what a name that is not there stands for
  Home,                \* fn-%home: the directory of each user's name it knows
  Stale                \* what the buffers may have after a component

VARIABLES
  word,       \* the string and its flags
  stale       \* what the buffers hold

globvars == <<word, stale>>

SLASH == 47
DOT == 46

QUOTED == <<"QUOTED">>
UNQUOTED == <<"RAW">>

-----------------------------------------------------------------------------
(* Quote flags: of a string all, none, or one for each character.          *)

qcat(q1, q2, s1, s2) ==
  LET Spelled(q, s) == IF q \in {QUOTED, UNQUOTED} THEN [i \in DOMAIN s |-> IF q = QUOTED THEN "q" ELSE "r"]
                      ELSE q
  IN IF q1 = q2 /\ q1 \in {QUOTED, UNQUOTED} THEN q1
     ELSE Spelled(q1, s1) \o Spelled(q2, s2)

raw(w, i) == IF w.q \in {QUOTED, UNQUOTED} THEN w.q = UNQUOTED ELSE w.q[i] = "r"

GlobInit ==
  /\ word = [s |-> << >>, q |-> UNQUOTED]
  /\ stale \in Stale

\* The next part of a word, of one character. A quoted part that is empty
\* makes no difference to an empty word's flags only.
GlobElement == [c : RawGlob, raw : {TRUE}] \cup [c : QuotedGlob, raw : {FALSE}]
GlobConcat(e) ==
  LET q == IF e.raw THEN UNQUOTED ELSE QUOTED
  IN /\ Len(pattern) < MaxGlob
     /\ pattern' = Append(pattern, e)
     /\ word' = [s |-> Append(word.s, e.c),
                 q |-> IF pattern = << >> THEN q ELSE qcat(word.q, q, word.s, <<e.c>>)]
     /\ UNCHANGED stale

GlobNext == \E e \in GlobElement : GlobConcat(e)

Flagged(w) == [i \in DOMAIN w.s |-> [c |-> w.s[i], raw |-> raw(w, i)]]
String(p) == [i \in DOMAIN p |-> p[i].c]

-----------------------------------------------------------------------------
(* Files: stat, lstat, opendir and readdir, of a path.                     *)

Dirs == DOMAIN Tree

\* The end of the run of characters from i on that are slashes, or are not.
RunEnd(s, i, slashes) ==
  CHOOSE j \in i .. Len(s) + 1 :
    /\ \A k \in i .. j - 1 : (s[k] = SLASH) = slashes
    /\ j <= Len(s) => (s[j] = SLASH) # slashes

RECURSIVE Walk(_, _, _)
Walk(node, path, i) ==
  IF i > Len(path) \/ node = NoFile THEN node
  ELSE IF node \notin Dirs THEN NoFile
  ELSE IF path[i] = SLASH THEN Walk(node, path, i + 1)
  ELSE LET j == RunEnd(path, i, FALSE)
           name == SubSeq(path, i, j - 1)
       IN Walk(IF name \in DOMAIN Tree[node] THEN Tree[node][name] ELSE NoFile, path, j)

File(path) ==
  IF path = << >> THEN NoFile
  ELSE Walk(IF path[1] = SLASH THEN Root ELSE Cwd, path, 1)

-----------------------------------------------------------------------------
ishiddenfile(name) == name[1] = DOT

\* A component in its buffer, after which a match may read.
Buffered(p) == p \o stale

\* Mutant: a hidden file is listed whatever its pattern begins with.
dirmatchAll(prefix, dirname, p) ==
  IF File(dirname) \notin Dirs THEN {}
  ELSE IF ~haswild(p, 1)
  THEN {name \in {prefix \o String(p)} : File(name) # NoFile}
  ELSE {prefix \o name : name \in {n \in DOMAIN Tree[File(dirname)] : match(n, Buffered(p))}}

\* The names in a directory that match, or the one there is to match.
dirmatch(prefix, dirname, p) ==
  IF File(dirname) \notin Dirs THEN {}
  ELSE IF ~haswild(p, 1)
  THEN {name \in {prefix \o String(p)} : File(name) # NoFile}
  ELSE {prefix \o name :
          name \in {n \in DOMAIN Tree[File(dirname)] :
                      /\ match(n, Buffered(p))
                      /\ ishiddenfile(n) => p[1].c = DOT}}

listglob(list, p, slashes) ==
  UNION {dirmatch(dir \o slashes, dir, p) : dir \in list}

\* The loop of glob1, from the slashes at i on.
RECURSIVE Descend(_, _, _)
Descend(matched, p, i) ==
  IF i > Len(p) \/ matched = {} THEN matched
  ELSE LET s == String(p)
           j == RunEnd(s, i, TRUE)
           k == RunEnd(s, j, FALSE)
       IN Descend(listglob(matched, SubSeq(p, j, k - 1), SubSeq(s, i, j - 1)), p, k)

glob1(p) ==
  LET s == String(p)
      absolute == s[1] = SLASH
      i == RunEnd(s, 1, absolute)
      dir == SubSeq(p, 1, i - 1)
  IN Descend(IF absolute THEN {String(dir)} ELSE dirmatch(<< >>, <<DOT>>, dir), p, i)

-----------------------------------------------------------------------------
(* Tildes.                                                                 *)

hastilde(w) == w.s # << >> /\ w.s[1] = TILDE /\ raw(w, 1)

\* The user's name goes up to a slash, quoted or not. The home directory is
\* quoted and the rest is as it was.
expandhome(w) ==
  LET slash == RunEnd(w.s, 2, FALSE)
      user == SubSeq(w.s, 2, slash - 1)
      rest == SubSeq(w.s, slash, Len(w.s))
      home == Home[user]
  IN IF user \notin DOMAIN Home THEN w
     ELSE IF rest = << >> THEN [s |-> home, q |-> QUOTED]
     ELSE [s |-> home \o rest,
           q |-> [i \in 1 .. Len(home) |-> "q"]
                   \o [i \in DOMAIN rest |-> IF raw(w, slash + i - 1) THEN "r" ELSE "q"]]

\* glob and glob0, of one word: the names, or the word if there are none.
glob(w) ==
  LET expanded == IF w.q # QUOTED /\ hastilde(w) THEN expandhome(w) ELSE w
      p == Flagged(expanded)
      names == glob1(p)
  IN IF expanded.q = QUOTED \/ ~haswild(p, 1) \/ names = {} THEN {expanded.s} ELSE names

-----------------------------------------------------------------------------
\* A word as the slashes and components it consists of.
RECURSIVE Components(_)
Components(p) ==
  IF p = << >> THEN << >>
  ELSE LET end == RunEnd(String(p), 1, p[1].c = SLASH)
       IN <<SubSeq(p, 1, end - 1)>> \o Components(SubSeq(p, end, Len(p)))

Names == UNION {DOMAIN Tree[d] : d \in Dirs}

\* What a component may be replaced by.
Stands(c) ==
  IF c[1].c = SLASH \/ ~haswild(c, 1) THEN {String(c)}
  ELSE {n \in Names : Described(n, Items(c, 1)) /\ (n[1] = DOT => c[1].c = DOT)}

RECURSIVE Paths(_)
Paths(cs) ==
  IF cs = << >> THEN {<< >>}
  ELSE {c \o rest : c \in Stands(Head(cs)), rest \in Paths(Tail(cs))}

Untilded ==
  LET slash == RunEnd(String(pattern), 2, FALSE)
      user == SubSeq(String(pattern), 2, slash - 1)
  IN IF pattern # << >> /\ pattern[1] = [c |-> TILDE, raw |-> TRUE] /\ user \in DOMAIN Home
     THEN [i \in DOMAIN Home[user] |-> [c |-> Home[user][i], raw |-> FALSE]]
            \o SubSeq(pattern, slash, Len(pattern))
     ELSE pattern

\* A class that ends with its word after a dash: the flag after it is read.
ReadsOn(c) ==
  /\ Len(c) > 2 /\ IsRaw(c, Len(c), DASH)
  /\ \E i \in 1 .. Len(c) - 2 : IsRaw(c, i, OPEN)

\* A word is replaced by the paths of the files it matches, every one, where
\* no wildcard stands for a slash or for the dot that a name begins with, and
\* by itself if there are none; what is quoted, and the name of a home
\* directory, stands for itself. Left out is a component that ends in a class
\* and a dash. (es.1: "Wildcard Expansion", "Tilde"; qcat, glob, expandhome)
GlobsAsDescribed ==
  LET components == Components(Untilded)
      wild == haswild(Untilded, 1)
      paths == {path \in Paths(components) : File(path) # NoFile}
  IN (\A i \in DOMAIN components : ~ReadsOn(components[i]))
       => glob(word) = IF wild /\ paths # {} THEN paths ELSE {String(Untilded)}
=============================================================================
