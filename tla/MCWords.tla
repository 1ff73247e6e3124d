------------------------------ MODULE MCWords -------------------------------
(***************************************************************************)
(* Small instances of Patterns, Glob, Split, Subscripts, Arith, Dict and   *)
(* Environ, which share nothing: a behaviour is one of one of them.        *)
(***************************************************************************)
EXTENDS Glob, Split, Subscripts, Arith, Dict, EnvironView, TLC

CONSTANTS c1, c2

VARIABLE part

MCWordList ==
  LET a == 97
      b == 98
  IN UNION {[1 .. n -> {a, b, OPEN, CLOSE, DASH}] : n \in 0 .. 2}

\* No separator, one, and two, which are too long to be kept.
MCSeparators == {<< >>, <<c1>>, <<c1, c2>>}

\* /a and /'*'; ./.a, ./a/a, ./a/'*'/aa, ./'[a' and ./b.
MCTree ==
  LET a == 97
      Self(d) == <<DOT>> :> d
  IN [top |-> Self("top") @@ <<a>> :> "dir" @@ <<STAR>> :> "file",
      cwd |-> Self("cwd") @@ <<DOT, a>> :> "file" @@ <<a>> :> "dir"
                @@ <<OPEN, a>> :> "file" @@ <<98>> :> "file",
      dir |-> Self("dir") @@ <<a>> :> "file" @@ <<STAR>> :> "subdir",
      subdir |-> Self("subdir") @@ <<a, a>> :> "file"]

\* One's own home is /a, and a's is a directory called '*'.
MCHome == << >> :> <<SLASH, 97>> @@ <<97>> :> <<STAR>>

\* The buffer's end, and one with a flag, a letter and a bracket after it.
MCStale == {<< >>, <<[c |-> NUL, raw |-> FALSE], [c |-> 97, raw |-> TRUE],
                     [c |-> CLOSE, raw |-> TRUE]>>}

\* The programs the run is about: noexport changes only while no variable,
\* bound or hidden, is a closure.  (var.c: mkenv clears rebound although the
\* strings of variables that are not exported were not made anew.)
NoClosures ==
  /\ \A n \in Name : vars[n] # None => ~ vars[n].hasbindings
  /\ \A i \in DOMAIN stack : stack[i].kind = "local" => ~ stack[i].hasbindings

Careful == noexport' # noexport => NoClosures

parts == {"patterns", "glob", "split", "subscripts", "arith", "dict", "environ"}

MCInit ==
  /\ part \in parts
  /\ PatternsInit /\ GlobInit /\ SplitInit /\ SubscriptsInit /\ ArithInit /\ DictInit
  /\ Init
  /\ part # "glob" => stale = << >>
  /\ part # "subscripts" => len = 0
  /\ part # "environ" =>
       /\ vars = [n \in Name |-> None] /\ noexport = {}
       /\ binding = CHOOSE b \in Lexical : TRUE
  /\ part # "dict" => hash = [n \in Key |-> 0]
  /\ \A m, n \in Key : m < n => hash[m] <= hash[n]   \* names are interchangeable

\* The longest patterns are those that begin with a bracket.
Enough == Len(pattern) = MaxPattern - 1 => IsRaw(pattern, 1, OPEN)

MCNext ==
  /\ UNCHANGED part
  /\ \/ part = "patterns" /\ Enough /\ PatternsNext
        /\ UNCHANGED <<globvars, splitvars, subvars, arithvars, dictvars, state>>
     \/ part = "glob" /\ GlobNext
        /\ UNCHANGED <<splitvars, subvars, arithvars, dictvars, state>>
     \/ part = "split" /\ SplitNext
        /\ UNCHANGED <<pattern, globvars, subvars, arithvars, dictvars, state>>
     \/ part = "subscripts" /\ SubscriptsNext
        /\ UNCHANGED <<pattern, globvars, splitvars, arithvars, dictvars, state>>
     \/ part = "arith" /\ ArithNext
        /\ UNCHANGED <<pattern, globvars, splitvars, subvars, dictvars, state>>
     \/ part = "dict" /\ DictNext
        /\ UNCHANGED <<pattern, globvars, splitvars, subvars, arithvars, state>>
     \/ part = "environ" /\ Next /\ Careful
        /\ UNCHANGED <<pattern, globvars, splitvars, subvars, arithvars, dictvars>>

MCSpec ==
  /\ MCInit
  /\ [][MCNext]_<<pattern, globvars, splitvars, subvars, arithvars, dictvars, state, part>>

\* Words are expanded as Glob says.
WordsExpand == part = "glob" => GlobsAsDescribed
=============================================================================
